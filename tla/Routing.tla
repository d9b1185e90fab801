------------------------------ MODULE Routing ------------------------------
(***************************************************************************)
(* How a check reaches a mail server: the verification method of each      *)
(* email provider, as the server's configuration sets it                   *)
(* (backend/src/config.rs), as the request overrides it                    *)
(* (backend/src/http/v0/check_email/post.rs, backwardcompat.rs) and as     *)
(* check_smtp reads it (core/src/smtp/verif_method.rs).                    *)
(*                                                                         *)
(* hello_name and from_email are one value here, the identity.  Timeouts,  *)
(* the number of attempts and the webdriver's address are left out.        *)
(***************************************************************************)
EXTENDS Naturals

CONSTANTS
  Proxy,     \* the SOCKS proxies there are, by address
  ProxyID,   \* the names that configurations use for them
  Default,   \* DEFAULT_PROXY_ID
  Identity,  \* names to present to a mail server
  Port,      \* SMTP ports
  None

ASSUME NameAssumption == Default \in ProxyID
ASSUME NoneAssumption ==
  /\ None \notin Proxy
  /\ None \notin ProxyID
  /\ None \notin Identity
  /\ None \notin Port

(* EmailProvider.                                                          *)
Provider == {"gmail", "hotmailb2b", "hotmailb2c", "mimecast", "proofpoint",
             "yahoo", "everything_else"}

(***************************************************************************)
(* An MX host, by what its name ends with.  "OLC" is a name of consumer    *)
(* Outlook in capitals, "." and "localhost" are unusable.                  *)
(***************************************************************************)
MxHost == {"olc.outlook", "OLC.outlook", "mail.outlook", "google", "yahoodns",
           "pphosted", "mimecast", "other", ".", "localhost"}

IsUnusable(host) == host \in {".", "localhost"}
IsHotmail(host) == host \in {"olc.outlook", "OLC.outlook", "mail.outlook"}
IsHotmailB2C(host) == IsHotmail(host) /\ host = "olc.outlook"

FromMxHost(host) ==
  IF IsHotmailB2C(host) THEN "hotmailb2c"
  ELSE IF IsHotmail(host) THEN "hotmailb2b"
  ELSE IF host = "google" THEN "gmail"
  ELSE IF host = "yahoodns" THEN "yahoo"
  ELSE IF host = "pphosted" THEN "proofpoint"
  ELSE IF host = "mimecast" THEN "mimecast"
  ELSE "everything_else"

Smtp(proxy, identity, port) ==
  [type |-> "smtp", proxy |-> proxy, identity |-> identity, port |-> port,
   publicOnly |-> FALSE]
Headless == [type |-> "headless"]
IsSmtp(method) == method.type = "smtp"

(* The methods that a configuration can give a provider.                   *)
SmtpMethod == {Smtp(x, i, n) : x \in ProxyID \cup {None}, i \in Identity, n \in Port}
Methods(p) ==
  SmtpMethod \cup (IF p \in {"yahoo", "hotmailb2c"} THEN {Headless} ELSE {})
             \cup (IF p = "yahoo" THEN {[type |-> "api"]} ELSE {})
-----------------------------------------------------------------------------
(* The server's configuration                                              *)

(***************************************************************************)
(* A configuration is a record with proxy, the deprecated default proxy or *)
(* None; proxies, from some names to proxies; overrides, from some         *)
(* providers to methods; identity; accounts, secret, worker and postgres,  *)
(* whether accounts are enabled, a header secret is set, the worker is     *)
(* enabled, and results go to PostgreSQL.                                  *)
(***************************************************************************)
Insert(f, k, v) == [i \in DOMAIN f \cup {k} |-> IF i = k THEN v ELSE f[i]]

(* get_verif_method: everything_else cannot be overridden.                 *)
GetVerifMethod(c) ==
  LET id == IF c.proxy = None THEN None ELSE Default IN
  [proxies |-> IF c.proxy = None THEN c.proxies
               ELSE Insert(c.proxies, Default, c.proxy),
   method |-> [p \in Provider |->
                 IF p \in DOMAIN c.overrides \ {"everything_else"}
                 THEN c.overrides[p]
                 ELSE Smtp(id, c.identity, 25)]]

HasProxy(vm, p) ==
  IsSmtp(vm.method[p]) /\ vm.method[p].proxy # None
    => vm.method[p].proxy \in DOMAIN vm.proxies

(* validate_proxies: Mimecast and Proofpoint are not looked at.            *)
ValidateProxies(vm) ==
  \A p \in Provider \ {"mimecast", "proofpoint"} : HasProxy(vm, p)

(* load_config; that numbers are positive is not modelled.                 *)
Loads(c) ==
  /\ c.worker => c.postgres
  /\ ValidateProxies(GetVerifMethod(c))

(* connect, when database and broker are there.                            *)
Connects(c) == c.accounts => c.postgres
-----------------------------------------------------------------------------
(* The request                                                             *)

(***************************************************************************)
(* A request is a record with proxy, identity, port, each None if absent,  *)
(* and yahoo and hotmailb2c, a type of method or None.                     *)
(***************************************************************************)
Request == [proxy : Proxy \cup {None}, identity : Identity \cup {None},
            port : Port \cup {None}, yahoo : {"api", "headless", "smtp", None},
            hotmailb2c : {"headless", "smtp", None}]
Plain == [proxy |-> None, identity |-> None, port |-> None, yahoo |-> None,
          hotmailb2c |-> None]

(* Faulty: the fields of later versions are not among the overrides.       *)
OverridesOldOnly(r) == \E f \in {"yahoo", "hotmailb2c"} : r[f] # None

(* restrict_account refuses a request with any of them.                    *)
Overrides(r) == \E f \in DOMAIN r : r[f] # None

(* new_with_same_config_for_all: Yahoo and consumer Outlook get their      *)
(* default method, the headless browser.                                   *)
SameForAll(proxy, identity, port) ==
  [proxies |-> [i \in IF proxy = None THEN {} ELSE {Default} |-> proxy],
   method |-> [p \in Provider |->
                 IF p \in {"yahoo", "hotmailb2c"} THEN Headless
                 ELSE Smtp(IF proxy = None THEN None ELSE Default, identity, port)]]

Or(a, b) == IF a = None THEN b ELSE a

(* The fields of the request, over every SMTP configuration.               *)
Overridden(method, r) ==
  IF IsSmtp(method)
  THEN [method EXCEPT !.identity = Or(r.identity, @), !.port = Or(r.port, @)]
  ELSE method

(* Faulty: a method asked for by the request never goes through a proxy.   *)
CompatDirect(type, r, c) ==
  IF type = "smtp" THEN Smtp(None, Or(r.identity, c.identity), Or(r.port, 25))
  ELSE [type |-> type]

(* to_yahoo_verif_method, to_hotmailb2c_verif_method: of the configuration *)
(* only the identity is kept.                                              *)
Compat(type, r, c) ==
  IF type = "smtp"
  THEN Smtp(IF r.proxy = None THEN None ELSE Default,
            Or(r.identity, c.identity), Or(r.port, 25))
  ELSE [type |-> type]

Confined(method) ==
  IF IsSmtp(method) THEN [method EXCEPT !.publicOnly = TRUE] ELSE method

(* to_check_email_input: the method of every provider for this request.    *)
ToInput(r, c, publicOnly) ==
  LET base == IF r.proxy = None THEN GetVerifMethod(c)
              ELSE SameForAll(r.proxy, Or(r.identity, c.identity), Or(r.port, 25))
      asked == [p \in Provider |->
                  IF p = "yahoo" /\ r.yahoo # None THEN Compat(r.yahoo, r, c)
                  ELSE IF p = "hotmailb2c" /\ r.hotmailb2c # None
                       THEN Compat(r.hotmailb2c, r, c)
                       ELSE Overridden(base.method[p], r)]
  IN [proxies |-> base.proxies,
      method |-> [p \in Provider |-> IF publicOnly THEN Confined(asked[p])
                                     ELSE asked[p]]]

(* get_proxy: None as well when the name is unknown.                       *)
GetProxy(vm, p) ==
  LET method == vm.method[p] IN
  IF IsSmtp(method) /\ method.proxy \in DOMAIN vm.proxies
  THEN vm.proxies[method.proxy] ELSE None
-----------------------------------------------------------------------------
(* Who asks                                                                *)

(***************************************************************************)
(* A request brings the header secret, the cookie of a verified session    *)
(* or nothing.  identity guards v1; accounts have no access to v0.         *)
(***************************************************************************)
IdentityOf(c, version, credential) ==
  \/ credential = "secret" /\ c.secret
  \/ ~c.accounts /\ ~c.secret
  \/ c.accounts /\ credential = "session" /\ version = "v1"

(* check_header guards v0.                                                 *)
CheckHeader(c, credential) ==
  IF c.accounts THEN IdentityOf(c, "v0", credential)
  ELSE c.secret => credential = "secret"

Admitted(c, version, credential) ==
  IF version = "v0" THEN CheckHeader(c, credential)
  ELSE IdentityOf(c, "v1", credential)

(* In whose name: the operator's, the account's, or nobody's in particular.*)
OwnerOf(c, credential) ==
  IF credential = "secret" /\ c.secret THEN "operator"
  ELSE IF c.accounts /\ credential = "session" THEN "account" ELSE "anyone"
=============================================================================
