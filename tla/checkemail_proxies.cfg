SPECIFICATION Spec
CONSTANTS
  a = a  b = b  k1 = k1  k2 = k2  d1 = d1
  None = None
  Proxy = {a, b}
  ProxyID = {"default", "second", "unknown"}
  Default = "default"
  Identity = {"ours", "theirs"}
  Port = {25, 2525}
  Check = {k1, k2}
  Domain = {d1}
  Configs <- ConfigsDef
  Requests <- RequestsDef
  MxAnswers <- MxAnswersDef
  Findings <- FindingsDef
  Miscs = {{}, {"is_disposable"}}
  TTL = 1
  MaxDomains = 2
  MaxTime = 1
INVARIANTS
  ConfiguredProxyUsed
