-------------------------- MODULE CheckEmailProofs --------------------------
(***************************************************************************)
(* What holds of concurrent checks for any configurations, requests,       *)
(* domains and answers of DNS and mail servers: whose wishes decide the    *)
(* way to a mail server, and what the shared cache may answer.             *)
(***************************************************************************)
EXTENDS CheckEmail, FiniteSetTheorems, TLAPS

(* The record of a check, as Idle has it.                                  *)
Work == [pc : {"idle", "resolving", "routing", "browsing", "talking", "done"},
         owner : {"operator", "account", "anyone"},
         request : Requests \cup {Plain},
         domain : Domain \cup {None},
         hosts : Seq(MxHost),
         misc : Miscs \cup {{}},
         cached : BOOLEAN,
         verdict : {"safe", "risky", "invalid", "unknown", None}]

Open == ~(config.accounts \/ config.secret)

(* Who asked for what, while a check is under way.                         *)
Entitled ==
  \A k \in Check : check[k].pc \in {"resolving", "routing", "browsing", "talking"} =>
    /\ check[k].request \in Request
    /\ Account(k) => ~Overrides(check[k].request)
    /\ Overrides(check[k].request) => check[k].owner = "operator" \/ Open

(* Only the mail server's way leads to a conversation, and nothing under   *)
(* way was decided from the cache.                                         *)
Routed ==
  \A k \in Check :
    /\ check[k].pc = "talking" => IsSmtp(Method(k))
    /\ check[k].pc \in {"resolving", "routing", "browsing", "talking"} => ~check[k].cached

(* A fresh answer in the cache has its conversation in the history.        *)
Witnessed ==
  \A key \in DOMAIN domains : now - domains[key] < TTL =>
    key \in DOMAIN seen /\ seen[key] = domains[key]

Bounded == IsFiniteSet(DOMAIN domains) /\ CacheBounded

Clock ==
  /\ now \in Nat
  /\ \A key \in DOMAIN domains : domains[key] \in 0..now
  /\ \A p \in DOMAIN seen : seen[p] \in 0..now

IInv ==
  /\ check \in [Check -> Work] /\ config \in Configs
  /\ Clock /\ Bounded /\ Witnessed /\ Entitled /\ Routed
-----------------------------------------------------------------------------
(* The ways of a request                                                   *)

LEMMA ProviderKnown == \A host : FromMxHost(host) \in Provider
BY DEF FromMxHost, Provider

(* A request with a proxy has every conversation through it, whatever the  *)
(* configuration and the other fields say.                                 *)
LEMMA ProxyWins ==
  ASSUME NEW r, r.proxy # None, NEW c, NEW confined \in BOOLEAN, NEW p \in Provider,
         IsSmtp(ToInput(r, c, confined).method[p])
  PROVE  GetProxy(ToInput(r, c, confined), p) = r.proxy
<1> DEFINE base == SameForAll(r.proxy, Or(r.identity, c.identity), Or(r.port, 25))
           asked == [q \in Provider |->
                       IF q = "yahoo" /\ r.yahoo # None THEN Compat(r.yahoo, r, c)
                       ELSE IF q = "hotmailb2c" /\ r.hotmailb2c # None
                            THEN Compat(r.hotmailb2c, r, c)
                            ELSE Overridden(base.method[q], r)]
<1>1. ToInput(r, c, confined) =
        [proxies |-> base.proxies,
         method |-> [q \in Provider |-> IF confined THEN Confined(asked[q]) ELSE asked[q]]]
  BY DEF ToInput
<1>2. base.proxies = [i \in {Default} |-> r.proxy]
  BY DEF SameForAll
<1>3. \A q \in Provider :
        \/ base.method[q] = Headless
        \/ base.method[q] = Smtp(Default, Or(r.identity, c.identity), Or(r.port, 25))
  BY DEF SameForAll
<1> HIDE DEF base
<1>4. \A x, i, n : /\ IsSmtp(Smtp(x, i, n)) /\ Smtp(x, i, n).proxy = x
                   /\ IsSmtp(Confined(Smtp(x, i, n))) /\ Confined(Smtp(x, i, n)).proxy = x
                   /\ \E j, m : Overridden(Smtp(x, i, n), r) = Smtp(x, j, m)
  <2>1. ASSUME NEW x, NEW i, NEW n
        PROVE  /\ IsSmtp(Smtp(x, i, n)) /\ Smtp(x, i, n).proxy = x
               /\ IsSmtp(Confined(Smtp(x, i, n))) /\ Confined(Smtp(x, i, n)).proxy = x
               /\ Overridden(Smtp(x, i, n), r) = Smtp(x, Or(r.identity, i), Or(r.port, n))
    BY DEF IsSmtp, Smtp, Confined, Overridden
  <2> QED BY <2>1
<1>5. ~IsSmtp(Headless) /\ Confined(Headless) = Headless /\ Overridden(Headless, r) = Headless
  BY DEF IsSmtp, Headless, Confined, Overridden
<1>6. \A t : \/ \E j, m : Compat(t, r, c) = Smtp(Default, j, m)
             \/ ~IsSmtp(Compat(t, r, c)) /\ Confined(Compat(t, r, c)) = Compat(t, r, c)
  BY DEF Compat, IsSmtp, Confined
<1>7. \/ \E j, m : asked[p] = Smtp(Default, j, m)
      \/ ~IsSmtp(asked[p]) /\ Confined(asked[p]) = asked[p]
  <2>1. CASE p = "yahoo" /\ r.yahoo # None
    BY <1>6, <2>1
  <2>2. CASE ~(p = "yahoo" /\ r.yahoo # None) /\ p = "hotmailb2c" /\ r.hotmailb2c # None
    BY <1>6, <2>2
  <2>3. CASE /\ ~(p = "yahoo" /\ r.yahoo # None)
             /\ ~(p = "hotmailb2c" /\ r.hotmailb2c # None)
    <3>1. asked[p] = Overridden(base.method[p], r)
      BY <2>3
    <3> QED BY <1>3, <1>4, <1>5, <3>1
  <2> QED BY <2>1, <2>2, <2>3
<1> HIDE DEF asked
<1>8. PICK m : /\ m = ToInput(r, c, confined).method[p]
               /\ m = IF confined THEN Confined(asked[p]) ELSE asked[p]
  BY <1>1
<1>9. IsSmtp(m) /\ m.proxy = Default
  BY <1>4, <1>7, <1>8
<1> QED BY <1>1, <1>2, <1>8, <1>9 DEF GetProxy

(* A request that sets nothing goes as the operator configured.            *)
LEMMA NothingAsked ==
  ASSUME NEW r \in Request, ~Overrides(r), NEW c \in Configs, NEW p \in Provider
  PROVE  ToInput(r, c, TRUE).method[p] = Confined(GetVerifMethod(c).method[p])
<1>1. /\ r.proxy = None /\ r.identity = None /\ r.port = None
      /\ r.yahoo = None /\ r.hotmailb2c = None
  BY DEF Overrides, Request
<1>2. \A x, i, n : Overridden(Smtp(x, i, n), r) = Smtp(x, i, n)
  BY <1>1 DEF Overridden, Smtp, IsSmtp, Or
<1>3. \A m : ~IsSmtp(m) => Overridden(m, r) = m
  BY DEF Overridden
<1>4. \A m \in Methods(p) : Overridden(m, r) = m
  <2> SUFFICES ASSUME NEW m \in Methods(p) PROVE Overridden(m, r) = m
    OBVIOUS
  <2>1. m \in SmtpMethod \/ m = Headless \/ m = [type |-> "api"]
    BY DEF Methods
  <2>2. ~IsSmtp(Headless) /\ ~IsSmtp([type |-> "api"])
    BY DEF IsSmtp, Headless
  <2> QED BY <1>2, <1>3, <2>1, <2>2 DEF SmtpMethod
<1>5. \/ GetVerifMethod(c).method[p] \in Methods(p)
      \/ \E x, i, n : GetVerifMethod(c).method[p] = Smtp(x, i, n)
  BY ConfigAssumption DEF GetVerifMethod
<1>6. Overridden(GetVerifMethod(c).method[p], r) = GetVerifMethod(c).method[p]
  BY <1>2, <1>4, <1>5
<1> QED BY <1>1, <1>6 DEF ToInput
-----------------------------------------------------------------------------
(* The shape of a check                                                    *)

LEMMA IdleWork == Idle \in Work
BY DEF Idle, Work

LEMMA FinishShape ==
  ASSUME check \in [Check -> Work], NEW k \in Check,
         NEW verdict \in {"safe", "risky", "invalid", "unknown"}, NEW cached \in BOOLEAN,
         Finish(k, verdict, cached)
  PROVE  /\ check' \in [Check -> Work]
         /\ check'[k].pc = "done" /\ check'[k].cached = cached
         /\ check'[k].verdict = verdict
         /\ \A j \in Check : j # k => check'[j] = check[j]
<1> DEFINE new == [Idle EXCEPT !.pc = "done", !.verdict = verdict, !.cached = cached]
<1>1. new \in Work
  BY IdleWork DEF Work
<1>2. new.pc = "done" /\ new.verdict = verdict /\ new.cached = cached
  BY DEF Idle
<1>3. check' = [check EXCEPT ![k] = new]
  BY DEF Finish
<1> HIDE DEF new
<1> QED BY <1>1, <1>2, <1>3

LEMMA VerdictKnown ==
  \A misc, smtp : CalculateReachable(misc, smtp) \in {"safe", "risky", "invalid", "unknown"}
BY DEF CalculateReachable

LEMMA HostsInOrder ==
  ASSUME NEW answer \in MxAnswers, NEW s \in ByPreference(Usable(answer))
  PROVE  [i \in DOMAIN s |-> s[i].host] \in Seq(MxHost)
<1>1. IsFiniteSet(Usable(answer)) /\ Usable(answer) \subseteq [preference : Nat, host : MxHost]
  BY LookupAssumption, FS_Subset DEF Usable
<1>2. Cardinality(Usable(answer)) \in Nat
  BY <1>1, FS_CardinalityType
<1>3. s \in [1..Cardinality(Usable(answer)) -> Usable(answer)]
  BY DEF ByPreference
<1>4. \A i \in DOMAIN s : s[i].host \in MxHost
  BY <1>1, <1>3
<1>5. DOMAIN s = 1..Cardinality(Usable(answer))
  BY <1>3
<1> QED BY <1>2, <1>4, <1>5

(* A step of k that leaves the clock and the cache alone.                  *)
Moved(k) ==
  /\ UNCHANGED <<config, now, domains, seen>>
  /\ check' \in [Check -> Work]
  /\ \A j \in Check : j # k => check'[j] = check[j]

(* The way a check has ahead depends on its own record only.               *)
LEMMA OthersStay ==
  ASSUME NEW j, check'[j] = check[j], config' = config
  PROVE  /\ Account(j)' = Account(j) /\ Method(j)' = Method(j)
         /\ Place(j)' = Place(j) /\ Open' = Open
BY DEF Account, Method, Input, ProviderOf, Place, Via, Open

LEMMA MovedIInv ==
  ASSUME IInv, NEW k \in Check, Moved(k),
         check'[k].pc \in {"resolving", "routing", "browsing", "talking"} =>
           /\ check'[k].request \in Request /\ ~check'[k].cached
           /\ Account(k)' => ~Overrides(check'[k].request)
           /\ Overrides(check'[k].request) => check'[k].owner = "operator" \/ Open,
         check'[k].pc = "talking" => IsSmtp(Method(k)')
  PROVE  IInv'
<1> USE DEF Moved
<1>1. Clock' /\ Bounded' /\ Witnessed'
  BY DEF IInv, Clock, Bounded, CacheBounded, Witnessed
<1>2. Open' = Open
  BY DEF Open
<1>3. ASSUME NEW j \in Check
      PROVE  check'[j].pc \in {"resolving", "routing", "browsing", "talking"} =>
               /\ check'[j].request \in Request
               /\ Account(j)' => ~Overrides(check'[j].request)
               /\ Overrides(check'[j].request) => check'[j].owner = "operator" \/ Open'
  BY <1>2, OthersStay DEF IInv, Entitled
<1>4. ASSUME NEW j \in Check
      PROVE  /\ check'[j].pc = "talking" => IsSmtp(Method(j)')
             /\ check'[j].pc \in {"resolving", "routing", "browsing", "talking"} =>
                  ~check'[j].cached
  <2>1. CASE j = k
    BY <2>1
  <2>2. CASE j # k
    BY <2>2, OthersStay DEF IInv, Routed
  <2> QED BY <2>1, <2>2
<1>5. Entitled'
  BY <1>3 DEF Entitled
<1>6. Routed'
  BY <1>4 DEF Routed
<1> QED BY <1>1, <1>5, <1>6 DEF IInv

LEMMA FinishMoved ==
  ASSUME IInv, NEW k \in Check, NEW verdict \in {"safe", "risky", "invalid", "unknown"},
         NEW cached \in BOOLEAN, Finish(k, verdict, cached),
         UNCHANGED <<config, now, domains, seen>>
  PROVE  IInv'
<1>1. Moved(k) /\ check'[k].pc = "done"
  BY FinishShape DEF IInv, Moved
<1> QED BY <1>1, MovedIInv
-----------------------------------------------------------------------------
(* The steps                                                               *)

LEMMA InitIInv == Init => IInv
<1> SUFFICES ASSUME Init PROVE IInv
  OBVIOUS
<1>1. Idle \in Work
  BY IdleWork
<1>2. DOMAIN domains = {} /\ DOMAIN seen = {} /\ now = 0
  BY DEF Init
<1>3. Clock /\ Witnessed
  BY <1>2 DEF Clock, Witnessed
<1>4. Bounded
  BY <1>2, FS_EmptySet, BoundAssumption DEF Bounded, CacheBounded
<1>5. \A k \in Check : check[k].pc = "idle"
  BY DEF Init, Idle
<1>6. Entitled /\ Routed
  BY <1>5 DEF Entitled, Routed
<1>7. check \in [Check -> Work] /\ config \in Configs
  BY <1>1 DEF Init
<1> QED BY <1>3, <1>4, <1>6, <1>7 DEF IInv

(* Whoever departs from the configuration is the operator, unless the      *)
(* server is open.                                                         *)
LEMMA AskEntitled ==
  ASSUME NEW version \in {"v0", "v1"}, NEW credential \in {"secret", "session", "none"},
         Admitted(config, version, credential)
  PROVE  \/ OwnerOf(config, credential) \in {"operator", "account"}
         \/ Open /\ OwnerOf(config, credential) = "anyone"
BY DEF Admitted, OwnerOf, CheckHeader, IdentityOf, Open

LEMMA AskStep ==
  ASSUME IInv, NEW k \in Check, Ask(k)
  PROVE  IInv'
<1>1. PICK version \in {"v0", "v1"}, credential \in {"secret", "session", "none"},
           request \in Requests, domain \in Domain :
        /\ Admitted(config, version, credential)
        /\ OwnerOf(config, credential) = "account" => ~Overrides(request)
        /\ check' = [check EXCEPT ![k] =
             [Idle EXCEPT !.pc = "resolving", !.request = request,
                          !.owner = OwnerOf(config, credential), !.domain = domain]]
  BY DEF Ask
<1> DEFINE new == [Idle EXCEPT !.pc = "resolving", !.request = request,
                               !.owner = OwnerOf(config, credential), !.domain = domain]
<1>2. OwnerOf(config, credential) \in {"operator", "account", "anyone"}
  BY DEF OwnerOf
<1>3. new \in Work
  BY <1>2, IdleWork DEF Work
<1>4. /\ new.pc = "resolving" /\ new.request = request /\ ~new.cached
      /\ new.owner = OwnerOf(config, credential)
  BY DEF Idle
<1> HIDE DEF new
<1>5. Moved(k) /\ check'[k] = new
  BY <1>1, <1>3 DEF Ask, Moved, IInv, new
<1>6. request \in Request
  BY RequestAssumption
<1>7. /\ Account(k)' => ~Overrides(request)
      /\ Overrides(request) => new.owner = "operator" \/ Open
  BY <1>1, <1>4, <1>5, AskEntitled DEF Account
<1> QED BY <1>4, <1>5, <1>6, <1>7, MovedIInv

LEMMA EndEarlyStep ==
  ASSUME IInv, NEW k \in Check, EndEarly(k)
  PROVE  IInv'
BY FinishMoved DEF EndEarly

(* A check that goes on keeps its request and its owner.                   *)
LEMMA Onward ==
  ASSUME IInv, NEW k \in Check, Moved(k),
         check[k].pc \in {"resolving", "routing", "browsing", "talking"},
         check'[k].request = check[k].request, check'[k].owner = check[k].owner,
         check'[k].cached = check[k].cached,
         check'[k].pc = "talking" => IsSmtp(Method(k)')
  PROVE  IInv'
<1>1. Account(k)' = Account(k)
  BY DEF Account
<1> QED BY <1>1, MovedIInv DEF IInv, Entitled, Routed

LEMMA ResolveStep ==
  ASSUME IInv, NEW k \in Check, Resolve(k)
  PROVE  IInv'
<1>1. PICK answer \in MxAnswers :
        IF Usable(answer) = {} THEN Finish(k, "invalid", FALSE)
        ELSE \E misc \in Miscs, s \in ByPreference(Usable(answer)) :
               check' = [check EXCEPT ![k].pc = "routing", ![k].misc = misc,
                           ![k].hosts = [i \in DOMAIN s |-> s[i].host]]
  BY DEF Resolve
<1>2. CASE Usable(answer) = {}
  BY <1>1, <1>2, FinishMoved DEF Resolve
<1>3. CASE Usable(answer) # {}
  <2>1. PICK misc \in Miscs, s \in ByPreference(Usable(answer)) :
          check' = [check EXCEPT ![k].pc = "routing", ![k].misc = misc,
                      ![k].hosts = [i \in DOMAIN s |-> s[i].host]]
    BY <1>1, <1>3
  <2> DEFINE h == [i \in DOMAIN s |-> s[i].host]
             old == check[k]
             new == [old EXCEPT !.pc = "routing", !.misc = misc, !.hosts = h]
  <2>2. h \in Seq(MxHost)
    BY HostsInOrder
  <2> HIDE DEF h
  <2>3. check' = [check EXCEPT ![k] = new]
    BY <2>1 DEF IInv, h
  <2>4. old \in Work
    BY DEF IInv
  <2> HIDE DEF old
  <2>5. /\ new \in Work /\ new.pc = "routing" /\ new.request = old.request
        /\ new.owner = old.owner /\ new.cached = old.cached
    BY <2>2, <2>4 DEF Work
  <2> HIDE DEF new
  <2>6. Moved(k) /\ check'[k] = new
    BY <2>3, <2>5 DEF Resolve, Moved, IInv
  <2> QED BY <2>5, <2>6, Onward DEF Resolve, old
<1> QED BY <1>2, <1>3

LEMMA RouteStep ==
  ASSUME IInv, NEW k \in Check, Route(k)
  PROVE  IInv'
<1>1. ASSUME NEW pc \in {"browsing", "talking"}, check' = [check EXCEPT ![k].pc = pc],
             pc = "talking" => IsSmtp(Method(k))
      PROVE  IInv'
  <2> DEFINE old == check[k]
             new == [old EXCEPT !.pc = pc]
  <2>1. old \in Work
    BY DEF IInv
  <2>2. check' = [check EXCEPT ![k] = new]
    BY <1>1
  <2> HIDE DEF old
  <2>3. /\ new \in Work /\ new.pc = pc /\ new.request = old.request
        /\ new.owner = old.owner /\ new.cached = old.cached /\ new.hosts = old.hosts
    BY <2>1 DEF Work
  <2> HIDE DEF new
  <2>4. Moved(k) /\ check'[k] = new
    BY <2>2, <2>3 DEF Route, Moved, IInv
  <2>5. Method(k)' = Method(k)
    BY <2>3, <2>4 DEF Route, Method, Input, ProviderOf, Account, old
  <2> QED BY <1>1, <2>3, <2>4, <2>5, Onward DEF Route, old
<1>2. CASE ~IsSmtp(Method(k))
  BY <1>1, <1>2 DEF Route
<1>3. CASE IsSmtp(Method(k)) /\ IsKnownCatchAll(Key(k))
  BY <1>3, VerdictKnown, FinishMoved DEF Route
<1>4. CASE IsSmtp(Method(k)) /\ ~IsKnownCatchAll(Key(k))
  BY <1>1, <1>4 DEF Route
<1> QED BY <1>2, <1>3, <1>4

(* Remembering an answer keeps the cache bounded, and fresh answers have   *)
(* their conversations in the history.                                     *)
LEMMA RememberedBounded ==
  ASSUME IInv, NEW key
  PROVE  /\ IsFiniteSet(Kept \cup {key}) /\ Cardinality(Kept \cup {key}) <= MaxDomains
         /\ Kept \subseteq DOMAIN domains
<1>1. /\ IsFiniteSet(DOMAIN domains) /\ Fresh \subseteq DOMAIN domains
  BY DEF IInv, Bounded, Fresh
<1>2. IsFiniteSet(Fresh)
  BY <1>1, FS_Subset
<1>3. MaxDomains \in Nat /\ MaxDomains > 0
  BY BoundAssumption
<1>4. Kept \subseteq DOMAIN domains /\ IsFiniteSet(Kept) /\ Cardinality(Kept) < MaxDomains
  BY <1>1, <1>2, <1>3, FS_EmptySet DEF Kept
<1>5. Cardinality(Kept) \in Nat
  BY <1>4, FS_CardinalityType
<1>6. /\ IsFiniteSet(Kept \cup {key})
      /\ Cardinality(Kept \cup {key}) <= Cardinality(Kept) + 1
      /\ Cardinality(Kept \cup {key}) \in Nat
  <2>1. CASE key \in Kept
    <3>1. Kept \cup {key} = Kept
      BY <2>1
    <3> QED BY <1>4, <1>5, <3>1
  <2>2. CASE key \notin Kept
    BY <1>4, <1>5, <2>2, FS_AddElement
  <2> QED BY <2>1, <2>2
<1> QED BY <1>3, <1>4, <1>5, <1>6

LEMMA ConverseStep ==
  ASSUME IInv, NEW k \in Check, Converse(k)
  PROVE  IInv'
<1>1. PICK finding \in Findings :
        /\ Finish(k, CalculateReachable(check[k].misc, finding), FALSE)
        /\ IF "is_catch_all" \in finding
           THEN /\ domains' = Remembered(Key(k))
                /\ seen' = Insert(seen, Place(k), now)
           ELSE UNCHANGED <<domains, seen>>
  BY DEF Converse
<1>2. CASE "is_catch_all" \notin finding
  BY <1>1, <1>2, VerdictKnown, FinishMoved DEF Converse
<1>3. CASE "is_catch_all" \in finding
  <2> DEFINE key == Place(k)
  <2>1. /\ domains' = [d \in Kept \cup {key} |-> IF d = key THEN now ELSE domains[d]]
        /\ seen' = [d \in DOMAIN seen \cup {key} |-> IF d = key THEN now ELSE seen[d]]
        /\ config' = config /\ now' = now
    BY <1>1, <1>3 DEF Converse, Remembered, Insert, Key
  <2> HIDE DEF key
  <2>2. Kept \subseteq DOMAIN domains /\ now \in Nat
    BY RememberedBounded DEF IInv, Clock
  <2>3. Bounded'
    BY <2>1, RememberedBounded DEF Bounded, CacheBounded
  <2>4. Clock'
    BY <2>1, <2>2 DEF IInv, Clock
  <2>5. Witnessed'
    BY <2>1, <2>2 DEF IInv, Witnessed
  <2>6. /\ check' \in [Check -> Work] /\ check'[k].pc = "done"
        /\ \A j \in Check : j # k => check'[j] = check[j]
    BY <1>1, VerdictKnown, FinishShape DEF IInv
  <2>7. Entitled'
    BY <2>1, <2>6, OthersStay DEF IInv, Entitled
  <2>8. Routed'
    BY <2>1, <2>6, OthersStay DEF IInv, Routed
  <2> QED BY <2>1, <2>3, <2>4, <2>5, <2>6, <2>7, <2>8 DEF IInv
<1> QED BY <1>2, <1>3

LEMMA EndStep ==
  ASSUME IInv, NEW k \in Check, Browse(k) \/ Fail(k)
  PROVE  IInv'
BY VerdictKnown, FinishMoved DEF Browse, Fail

LEMMA TickStep ==
  ASSUME IInv, Tick
  PROVE  IInv'
<1> USE DEF IInv
<1>1. /\ now' = now + 1 /\ now \in Nat /\ TTL \in Nat
      /\ seen' = [p \in {q \in DOMAIN seen : now' - seen[q] < TTL} |-> seen[p]]
      /\ UNCHANGED <<config, domains, check>>
  BY BoundAssumption DEF Tick, Clock
<1>2. Clock'
  BY <1>1 DEF Clock
<1>3. Witnessed'
  <2> SUFFICES ASSUME NEW key \in DOMAIN domains, now' - domains[key] < TTL
               PROVE  key \in DOMAIN seen' /\ seen'[key] = domains[key]
    BY <1>1 DEF Witnessed
  <2>1. domains[key] \in Nat /\ now - domains[key] < TTL
    BY <1>1 DEF Clock
  <2>2. key \in DOMAIN seen /\ seen[key] = domains[key]
    BY <2>1 DEF Witnessed
  <2> QED BY <1>1, <2>2
<1>4. Bounded'
  BY <1>1 DEF Bounded, CacheBounded
<1>5. Entitled' /\ Routed'
  BY <1>1, OthersStay DEF Entitled, Routed
<1> QED BY <1>1, <1>2, <1>3, <1>4, <1>5

LEMMA IInvInductive == Spec => []IInv
<1>1. IInv /\ UNCHANGED vars => IInv'
  <2> SUFFICES ASSUME IInv, UNCHANGED vars PROVE IInv'
    OBVIOUS
  <2>1. \A j \in Check : check'[j] = check[j]
    BY DEF vars
  <2> QED BY <2>1, OthersStay
          DEF IInv, vars, Clock, Bounded, CacheBounded, Witnessed, Entitled, Routed
<1>2. IInv /\ [Next]_vars => IInv'
  BY <1>1, TickStep, AskStep, EndEarlyStep, ResolveStep, RouteStep, ConverseStep, EndStep
     DEF Next
<1> QED BY InitIInv, <1>2, PTL DEF Spec
-----------------------------------------------------------------------------
(* The theorems                                                            *)

(* The checks, the clock and the cache are well-formed.                    *)
THEOREM CheckTyped == Spec => []TypeOK
<1>1. IInv => TypeOK
  BY DEF IInv, Clock, Bounded, TypeOK, Work
<1> QED BY <1>1, IInvInductive, PTL

(* remember_catch_all never lets the cache grow beyond MAX_DOMAINS.        *)
THEOREM CacheStaysBounded == Spec => []CacheBounded
<1>1. IInv => CacheBounded
  BY DEF IInv, Bounded
<1> QED BY <1>1, IInvInductive, PTL

(* Nobody but the operator departs from the configuration, unless the      *)
(* server is open to everyone, and a check for an account goes exactly the *)
(* way the operator configured, to public addresses.                       *)
THEOREM AccountsStayConfined == Spec => []AccountsConfined
<1>1. IInv => AccountsConfined
  <2> SUFFICES ASSUME IInv, NEW k \in Check, check[k].pc \in {"talking", "browsing"}
               PROVE  /\ Overrides(check[k].request) => check[k].owner = "operator" \/ Open
                      /\ Account(k) => Method(k) =
                           Confined(GetVerifMethod(config).method[ProviderOf(k)])
    BY DEF AccountsConfined, Open
  <2>1. /\ check[k].request \in Request
        /\ Account(k) => ~Overrides(check[k].request)
        /\ Overrides(check[k].request) => check[k].owner = "operator" \/ Open
    BY DEF IInv, Entitled
  <2>2. ProviderOf(k) \in Provider /\ config \in Configs
    BY ProviderKnown DEF ProviderOf, IInv
  <2>3. ASSUME Account(k)
        PROVE  Method(k) = Confined(GetVerifMethod(config).method[ProviderOf(k)])
    <3>1. Account(k) = TRUE
      BY <2>3 DEF Account
    <3>2. Method(k) = ToInput(check[k].request, config, TRUE).method[ProviderOf(k)]
      BY <3>1 DEF Method, Input
    <3> QED BY <2>1, <2>2, <2>3, <3>2, NothingAsked
  <2> QED BY <2>1, <2>3
<1> QED BY <1>1, IInvInductive, PTL

(* A request with a proxy has its conversations through that proxy.        *)
THEOREM RequestProxyWins == Spec => []RequestProxyUsed
<1>1. IInv => RequestProxyUsed
  <2> SUFFICES ASSUME IInv, NEW k \in Check, check[k].pc = "talking",
                      check[k].request.proxy # None
               PROVE  Via(k) = check[k].request.proxy
    BY DEF RequestProxyUsed
  <2>1. IsSmtp(Method(k)) /\ ProviderOf(k) \in Provider
    BY ProviderKnown DEF IInv, Routed, ProviderOf
  <2>2. Account(k) \in BOOLEAN
    BY DEF Account
  <2> QED BY <2>1, <2>2, ProxyWins DEF Via, Method, Input
<1> QED BY <1>1, IInvInductive, PTL

(* A check that is decided from the cache has a conversation of less than  *)
(* TTL ago behind it, held the very way its own would have been.           *)
THEOREM CacheAnswersWell == Spec => AnswersFromCache
<1>1. ASSUME IInv, [Next]_vars, NEW k \in Check, check[k].pc = "routing",
             check'[k].cached
      PROVE  Place(k) \in DOMAIN seen /\ check'[k].verdict = "risky"
  <2>1. ~check[k].cached /\ check \in [Check -> Work] /\ check[k] \in Work
    BY <1>1 DEF IInv, Routed
  <2>2. check'[k] # check[k]
    BY <1>1, <2>1
  <2>3. Route(k)
    <3>1. ASSUME NEW j \in Check, EndEarly(j) \/ Converse(j) \/ Browse(j) \/ Fail(j)
          PROVE  FALSE
      <4>1. \E v \in {"safe", "risky", "invalid", "unknown"} : Finish(j, v, FALSE)
        BY <3>1, VerdictKnown DEF EndEarly, Converse, Browse, Fail
      <4>2. check'[j].cached = FALSE /\ (j # k => check'[k] = check[k])
        BY <2>1, <4>1, FinishShape
      <4> QED BY <1>1, <2>2, <4>2
    <3>2. ASSUME NEW j \in Check, Ask(j) \/ Resolve(j) \/ Route(j), j # k
          PROVE  FALSE
      <4>1. check'[k] = check[k]
        BY <2>1, <3>2, FinishShape DEF Ask, Resolve, Route, Finish
      <4> QED BY <2>2, <4>1
    <3>3. ~Ask(k)
      BY <1>1 DEF Ask
    <3>4. ~Resolve(k)
      BY <1>1 DEF Resolve
    <3>5. ~Tick /\ ~UNCHANGED vars
      BY <2>2 DEF Tick, vars
    <3> QED BY <1>1, <3>1, <3>2, <3>3, <3>4, <3>5 DEF Next
  <2>4. /\ IsKnownCatchAll(Key(k))
        /\ Finish(k, CalculateReachable(check[k].misc, CatchAllDetails), TRUE)
    <3>1. ASSUME NEW pc, check' = [check EXCEPT ![k].pc = pc] PROVE FALSE
      BY <1>1, <2>1, <3>1 DEF Work
    <3> QED BY <2>3, <3>1 DEF Route
  <2>5. Place(k) \in DOMAIN seen
    BY <1>1, <2>4 DEF IsKnownCatchAll, Key, IInv, Witnessed
  <2>6. CalculateReachable(check[k].misc, CatchAllDetails) = "risky"
    BY DEF CalculateReachable, CatchAllDetails
  <2> QED BY <2>1, <2>4, <2>5, <2>6, FinishShape
<1>2. IInv /\ [Next]_vars =>
        [\A k \in Check :
           check[k].pc = "routing" /\ check'[k].cached =>
             /\ Place(k) \in DOMAIN seen
             /\ check'[k].verdict = "risky"]_vars
  BY <1>1
<1> QED BY <1>2, IInvInductive, PTL DEF Spec, AnswersFromCache
-----------------------------------------------------------------------------
(* The proxies of the configuration                                        *)

(* The methods whose proxies validate_proxies looks at.                    *)
Validated == Provider \ {"mimecast", "proofpoint"}

(* A conversation whose method names a proxy is held through one.          *)
ValidatedProxyUsed ==
  \A k \in Check :
    check[k].pc = "talking" /\ Method(k).proxy # None /\ ProviderOf(k) \in Validated
      => Via(k) # None

ConfigLoads == config \in Configs /\ Loads(config)

LEMMA ConfigStays == Spec => []ConfigLoads
<1>1. Init => ConfigLoads
  BY DEF Init, ConfigLoads
<1>2. ConfigLoads /\ [Next]_vars => ConfigLoads'
  BY DEF Next, vars, Tick, Ask, EndEarly, Resolve, Route, Converse, Browse, Fail, ConfigLoads
<1> QED BY <1>1, <1>2, PTL DEF Spec

(* The names that a loaded configuration uses for proxies stand for some.  *)
LEMMA ConfiguredProxies ==
  ASSUME NEW c \in Configs, Loads(c), NEW p \in Validated,
         IsSmtp(GetVerifMethod(c).method[p]), GetVerifMethod(c).method[p].proxy # None
  PROVE  /\ GetVerifMethod(c).method[p].proxy \in DOMAIN GetVerifMethod(c).proxies
         /\ \A i \in DOMAIN GetVerifMethod(c).proxies : GetVerifMethod(c).proxies[i] # None
<1>1. GetVerifMethod(c).method[p].proxy \in DOMAIN GetVerifMethod(c).proxies
  <2>1. HasProxy(GetVerifMethod(c), p)
    BY DEF Loads, ValidateProxies, Validated
  <2> QED BY <2>1 DEF HasProxy
<1>2. \A i \in DOMAIN c.proxies : c.proxies[i] # None
  BY ConfigAssumption, NoneAssumption
<1>3. GetVerifMethod(c).proxies =
        IF c.proxy = None THEN c.proxies ELSE Insert(c.proxies, Default, c.proxy)
  BY DEF GetVerifMethod
<1>4. ASSUME c.proxy # None, NEW i \in DOMAIN Insert(c.proxies, Default, c.proxy)
      PROVE  Insert(c.proxies, Default, c.proxy)[i] # None
  BY <1>2, <1>4 DEF Insert
<1> QED BY <1>1, <1>2, <1>3, <1>4

(* The fields of a request without a proxy of its own never make a method  *)
(* lose the proxy of the configuration or name another one.                *)
LEMMA ProxyStays ==
  ASSUME NEW r, r.proxy = None, NEW c \in Configs, NEW confined \in BOOLEAN,
         NEW p \in Provider, NEW m, m = ToInput(r, c, confined).method[p],
         IsSmtp(m), m.proxy # None
  PROVE  /\ ToInput(r, c, confined).proxies = GetVerifMethod(c).proxies
         /\ IsSmtp(GetVerifMethod(c).method[p])
         /\ GetVerifMethod(c).method[p].proxy = m.proxy
<1> DEFINE base == GetVerifMethod(c)
<1> DEFINE asked == [q \in Provider |->
                       IF q = "yahoo" /\ r.yahoo # None THEN Compat(r.yahoo, r, c)
                       ELSE IF q = "hotmailb2c" /\ r.hotmailb2c # None
                            THEN Compat(r.hotmailb2c, r, c)
                            ELSE Overridden(base.method[q], r)]
<1>1. ToInput(r, c, confined) =
        [proxies |-> base.proxies,
         method |-> [q \in Provider |-> IF confined THEN Confined(asked[q]) ELSE asked[q]]]
  BY DEF ToInput
<1>2. \A x, i, n : /\ IsSmtp(Smtp(x, i, n)) /\ Smtp(x, i, n).proxy = x
                   /\ Confined(Smtp(x, i, n)).proxy = x
                   /\ Overridden(Smtp(x, i, n), r) = Smtp(x, Or(r.identity, i), Or(r.port, n))
  <2>1. ASSUME NEW x, NEW i, NEW n
        PROVE  /\ IsSmtp(Smtp(x, i, n)) /\ Smtp(x, i, n).proxy = x
               /\ Confined(Smtp(x, i, n)).proxy = x
    BY DEF IsSmtp, Smtp, Confined
  <2>2. ASSUME NEW x, NEW i, NEW n
        PROVE  Overridden(Smtp(x, i, n), r) = Smtp(x, Or(r.identity, i), Or(r.port, n))
    BY DEF IsSmtp, Smtp, Overridden
  <2> QED BY <2>1, <2>2
<1>3. \A t : \/ \E j, n : Compat(t, r, c) = Smtp(None, j, n)
             \/ ~IsSmtp(Compat(t, r, c)) /\ Confined(Compat(t, r, c)) = Compat(t, r, c)
  BY DEF Compat, IsSmtp, Confined
<1>4. \/ \E x, i, n : base.method[p] = Smtp(x, i, n)
      \/ ~IsSmtp(base.method[p])
  <2>1. base.method[p] \in Methods(p) \/ \E x, i, n : base.method[p] = Smtp(x, i, n)
    BY ConfigAssumption DEF GetVerifMethod
  <2>2. ~IsSmtp(Headless) /\ ~IsSmtp([type |-> "api"])
    BY DEF IsSmtp, Headless
  <2>3. CASE base.method[p] \in Methods(p)
    <3>1. \/ base.method[p] \in SmtpMethod \/ base.method[p] = Headless
          \/ base.method[p] = [type |-> "api"]
      BY <2>3 DEF Methods
    <3> QED BY <2>2, <3>1 DEF SmtpMethod
  <2> QED BY <2>1, <2>3
<1>5. m = IF confined THEN Confined(asked[p]) ELSE asked[p]
  BY <1>1
<1> HIDE DEF base
<1>6. ASSUME NEW t PROVE asked[p] # Compat(t, r, c)
  <2>1. SUFFICES ASSUME asked[p] = Compat(t, r, c) PROVE FALSE
    OBVIOUS
  <2> HIDE DEF asked
  <2>2. CASE \E j, n : Compat(t, r, c) = Smtp(None, j, n)
    BY <1>2, <1>5, <2>1, <2>2
  <2>3. CASE ~IsSmtp(Compat(t, r, c)) /\ Confined(Compat(t, r, c)) = Compat(t, r, c)
    BY <1>5, <2>1, <2>3
  <2> QED BY <1>3, <2>2, <2>3
<1>7. asked[p] = Overridden(base.method[p], r)
  BY <1>6
<1> HIDE DEF asked
<1>8. CASE \E x, i, n : base.method[p] = Smtp(x, i, n)
  <2>1. PICK x, i, n : base.method[p] = Smtp(x, i, n)
    BY <1>8
  <2>2. asked[p] = Smtp(x, Or(r.identity, i), Or(r.port, n))
    BY <1>2, <1>7, <2>1
  <2>3. m.proxy = x
    BY <1>2, <1>5, <2>2
  <2> QED BY <1>1, <1>2, <2>1, <2>3 DEF base
<1>9. CASE ~IsSmtp(base.method[p])
  <2>1. asked[p] = base.method[p] /\ Confined(asked[p]) = asked[p]
    BY <1>7, <1>9 DEF Overridden, Confined
  <2> QED BY <1>5, <1>9, <2>1
<1> QED BY <1>4, <1>8, <1>9

(* What the comment in load_config says of every provider is so for all    *)
(* but the two that validate_proxies leaves out: no configuration and no   *)
(* request makes a conversation silently go without its proxy.             *)
THEOREM ValidatedProxiesAreUsed == Spec => []ValidatedProxyUsed
<1>1. IInv /\ ConfigLoads => ValidatedProxyUsed
  <2> SUFFICES ASSUME IInv, ConfigLoads, NEW k \in Check, check[k].pc = "talking",
                      Method(k).proxy # None, ProviderOf(k) \in Validated
               PROVE  Via(k) # None
    BY DEF ValidatedProxyUsed
  <2> DEFINE r == check[k].request
  <2> DEFINE p == ProviderOf(k)
  <2>1. IsSmtp(Method(k)) /\ p \in Provider /\ Account(k) \in BOOLEAN
    BY DEF IInv, Routed, Validated, Account
  <2>2. Method(k) = ToInput(r, config, Account(k)).method[p]
    BY DEF Method, Input
  <2>3. CASE r.proxy # None
    BY <2>1, <2>2, <2>3, ProxyWins DEF Via, Input
  <2>4. CASE r.proxy = None
    <3>1. /\ Input(k).proxies = GetVerifMethod(config).proxies
          /\ IsSmtp(GetVerifMethod(config).method[p])
          /\ GetVerifMethod(config).method[p].proxy = Method(k).proxy
      BY <2>1, <2>2, <2>4, ProxyStays DEF ConfigLoads, Input
    <3>2. /\ Method(k).proxy \in DOMAIN Input(k).proxies
          /\ Input(k).proxies[Method(k).proxy] # None
      BY <3>1, ConfiguredProxies DEF ConfigLoads
    <3> QED BY <2>1, <3>2 DEF Via, GetProxy, Method
  <2> QED BY <2>3, <2>4
<1> QED BY <1>1, IInvInductive, ConfigStays, PTL
=============================================================================
