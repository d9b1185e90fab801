----------------------------- MODULE CheckEmail -----------------------------
(***************************************************************************)
(* check_email (core/src/lib.rs) for the checks a server has under way at  *)
(* the same time: the request is admitted and given its methods (Routing), *)
(* the domain's MX hosts are looked up (core/src/mx/mod.rs), the first     *)
(* usable host decides the provider and so the method, and check_smtp      *)
(* (core/src/smtp/mod.rs) asks the cache of catch-all domains              *)
(* (core/src/smtp/catch_all_cache.rs), a mail server or a browser.  The    *)
(* cache is shared by all checks of the process.                           *)
(*                                                                         *)
(* The conversation with the mail server is one step here, with any of the *)
(* results it may have: those of Conversation, which SmtpCheck implements. *)
(***************************************************************************)
EXTENDS Routing, Reachability, FiniteSets, Sequences

CONSTANTS
  Check,       \* slots for concurrent checks
  Configs,     \* configurations the operator may write
  Requests,    \* requests that may come
  Domain,      \* mail domains
  MxAnswers,   \* answers to a lookup: sets of [preference, host]
  Findings,    \* what a mail server may be found to say: sets of flags
  Miscs,       \* what may be known of an address: sets of flags
  TTL,         \* how long the cache believes an answer
  MaxDomains,  \* MAX_DOMAINS
  MaxTime      \* bound of the clock

ASSUME BoundAssumption == TTL \in Nat /\ MaxDomains \in Nat \ {0} /\ MaxTime \in Nat

ASSUME ConfigAssumption ==
  \A c \in Configs :
    /\ \A i \in DOMAIN c.proxies : c.proxies[i] \in Proxy
    /\ \A p \in DOMAIN c.overrides :
         p \in Provider /\ c.overrides[p] \in Methods(p)
ASSUME RequestAssumption == Requests \subseteq Request
ASSUME LookupAssumption ==
  \A answer \in MxAnswers :
    IsFiniteSet(answer) /\ answer \subseteq [preference : Nat, host : MxHost]
ASSUME FlagAssumption ==
  /\ Found \subseteq Findings /\ Findings \subseteq SUBSET Flag
  /\ Miscs \subseteq SUBSET Misc

VARIABLES
  config,   \* the server's configuration
  now,      \* the clock
  domains,  \* DOMAINS: from keys of the cache to the time of the answer
  check,    \* the checks, by slot
  seen      \* history: the domains that were seen to accept anything less
            \* than TTL ago and when, by proxy, port and identity

vars == <<config, now, domains, check, seen>>

Idle == [pc |-> "idle", owner |-> "anyone", request |-> Plain,
         domain |-> None, hosts |-> <<>>, misc |-> {}, cached |-> FALSE,
         verdict |-> None]

Init ==
  /\ config \in {c \in Configs : Loads(c) /\ Connects(c)}
  /\ now = 0
  /\ domains = [k \in {} |-> 0]
  /\ check = [k \in Check |-> Idle]
  /\ seen = [p \in {} |-> 0]
-----------------------------------------------------------------------------
(* The request's methods                                                   *)

Account(k) == check[k].owner = "account"
Input(k) == ToInput(check[k].request, config, Account(k))
ProviderOf(k) == FromMxHost(check[k].hosts[1])
Method(k) == Input(k).method[ProviderOf(k)]
Via(k) == GetProxy(Input(k), ProviderOf(k))

(* The way this check takes to the mail servers of its domain.             *)
Place(k) == [domain |-> check[k].domain, proxy |-> Via(k),
             port |-> Method(k).port, identity |-> Method(k).identity]

(* Faulty: answers are kept by domain alone.                               *)
KeyWithoutRoute(k) == [Place(k) EXCEPT !.proxy = None]

(* route and key: the method's port and identity and the proxy's address.  *)
Key(k) == Place(k)
-----------------------------------------------------------------------------
(* The cache                                                               *)

(* is_known_catch_all.                                                     *)
IsKnownCatchAll(key) == key \in DOMAIN domains /\ now - domains[key] < TTL

Fresh == {key \in DOMAIN domains : now - domains[key] < TTL}

(* Faulty: a full cache still takes one more.                              *)
KeptLate ==
  IF Cardinality(DOMAIN domains) <= MaxDomains THEN DOMAIN domains
  ELSE IF Cardinality(Fresh) <= MaxDomains THEN Fresh ELSE {}

(* What a full cache keeps: the fresh answers if that makes room.          *)
Kept ==
  IF Cardinality(DOMAIN domains) < MaxDomains THEN DOMAIN domains
  ELSE IF Cardinality(Fresh) < MaxDomains THEN Fresh ELSE {}

(* remember_catch_all.                                                     *)
Remembered(key) ==
  [d \in Kept \cup {key} |-> IF d = key THEN now ELSE domains[d]]
-----------------------------------------------------------------------------
(* The steps of a check                                                    *)

Finish(k, verdict, cached) ==
  check' = [check EXCEPT ![k] = [Idle EXCEPT !.pc = "done", !.verdict = verdict,
                                             !.cached = cached]]
-----------------------------------------------------------------------------
(* A request is admitted; its address may turn out to be ill-formed.       *)
Ask(k) ==
  /\ check[k].pc \in {"idle", "done"}
  /\ \E version \in {"v0", "v1"}, credential \in {"secret", "session", "none"},
        request \in Requests, domain \in Domain :
       /\ Admitted(config, version, credential)
       /\ OwnerOf(config, credential) = "account" => ~Overrides(request)
       /\ check' = [check EXCEPT ![k] =
            [Idle EXCEPT !.pc = "resolving", !.request = request,
                         !.owner = OwnerOf(config, credential),
                         !.domain = domain]]
  /\ UNCHANGED <<config, now, domains, seen>>

(* The address is ill-formed, or the lookup of its domain fails.           *)
EndEarly(k) ==
  /\ check[k].pc = "resolving"
  /\ \E verdict \in {"invalid", "unknown"} : Finish(k, verdict, FALSE)
  /\ UNCHANGED <<config, now, domains, seen>>

(* The usable hosts of an answer by preference, equals in any order.       *)
Usable(answer) == {r \in answer : ~IsUnusable(r.host)}
ByPreference(S) ==
  {s \in [1..Cardinality(S) -> S] :
     \A i, j \in 1..Cardinality(S) :
       i < j => s[i] # s[j] /\ s[i].preference <= s[j].preference}

(* check_mx: a domain without a usable host accepts no mail.  Otherwise    *)
(* check_misc, and the usable hosts are put in order.                      *)
Resolve(k) ==
  /\ check[k].pc = "resolving"
  /\ \E answer \in MxAnswers :
       IF Usable(answer) = {} THEN Finish(k, "invalid", FALSE)
       ELSE \E misc \in Miscs, s \in ByPreference(Usable(answer)) :
              check' = [check EXCEPT ![k].pc = "routing", ![k].misc = misc,
                          ![k].hosts = [i \in DOMAIN s |-> s[i].host]]
  /\ UNCHANGED <<config, now, domains, seen>>

(* check_smtp up to its first await: the method and the cache.             *)
Route(k) ==
  /\ check[k].pc = "routing"
  /\ IF ~IsSmtp(Method(k)) THEN check' = [check EXCEPT ![k].pc = "browsing"]
     ELSE IF IsKnownCatchAll(Key(k))
     THEN Finish(k, CalculateReachable(check[k].misc, CatchAllDetails), TRUE)
     ELSE check' = [check EXCEPT ![k].pc = "talking"]
  /\ UNCHANGED <<config, now, domains, seen>>

(* The mail servers have had their say; a catch-all domain is remembered.  *)
Converse(k) ==
  /\ check[k].pc = "talking"
  /\ \E finding \in Findings :
       /\ Finish(k, CalculateReachable(check[k].misc, finding), FALSE)
       /\ IF "is_catch_all" \in finding
          THEN /\ domains' = Remembered(Key(k))
               /\ seen' = Insert(seen, Place(k), now)
          ELSE UNCHANGED <<domains, seen>>
  /\ UNCHANGED <<config, now>>

(* The provider's API or its password-recovery page has answered.          *)
Browse(k) ==
  /\ check[k].pc = "browsing"
  /\ \E finding \in Findings :
       Finish(k, CalculateReachable(check[k].misc, finding), FALSE)
  /\ UNCHANGED <<config, now, domains, seen>>

(* Neither says anything that helps.                                       *)
Fail(k) ==
  /\ check[k].pc \in {"talking", "browsing"}
  /\ Finish(k, "unknown", FALSE)
  /\ UNCHANGED <<config, now, domains, seen>>

Tick ==
  /\ now < MaxTime
  /\ now' = now + 1
  /\ seen' = [p \in {q \in DOMAIN seen : now' - seen[q] < TTL} |-> seen[p]]
  /\ UNCHANGED <<config, domains, check>>

Next ==
  \/ Tick
  \/ \E k \in Check : Ask(k) \/ EndEarly(k) \/ Resolve(k) \/ Route(k)
                        \/ Converse(k) \/ Browse(k) \/ Fail(k)

Spec == Init /\ [][Next]_vars
-----------------------------------------------------------------------------
(* A well-formed state of the cache and its history.                       *)
TypeOK ==
  /\ now \in Nat
  /\ check \in [Check -> [pc : {"idle", "resolving", "routing", "browsing",
                                "talking", "done"},
                          owner : {"operator", "account", "anyone"},
                          request : Requests \cup {Plain},
                          domain : Domain \cup {None},
                          hosts : Seq(MxHost),
                          misc : Miscs \cup {{}},
                          cached : BOOLEAN,
                          verdict : {"safe", "risky", "invalid", "unknown", None}]]
  /\ IsFiniteSet(DOMAIN domains)
  /\ \A key \in DOMAIN domains : domains[key] \in 0..now
  /\ \A p \in DOMAIN seen : seen[p] \in 0..now

(* catch_all_cache.rs promises that an answer got by one route never       *)
(* decides a check made by another, and none a day later: a check decided  *)
(* from the cache has a conversation behind it, less than TTL ago, with    *)
(* the same domain through the same proxy and port under the same name,    *)
(* and it calls the address risky.                                         *)
AnswersFromCache ==
  [][\A k \in Check :
       check[k].pc = "routing" /\ check'[k].cached =>
         /\ Place(k) \in DOMAIN seen
         /\ check'[k].verdict = "risky"]_vars

(* remember_catch_all keeps the cache at MAX_DOMAINS answers at most,      *)
(* whatever concurrent checks add to it.                                   *)
CacheBounded == Cardinality(DOMAIN domains) <= MaxDomains

(* restrict_account, identity and check_header: a check that departs from  *)
(* the operator's configuration was asked for with the header secret or    *)
(* on a server open to everyone; a check for an account goes to public     *)
(* addresses only, exactly the way the operator configured.                *)
AccountsConfined ==
  \A k \in Check : check[k].pc \in {"talking", "browsing"} =>
    /\ Overrides(check[k].request) =>
         check[k].owner = "operator" \/ ~(config.accounts \/ config.secret)
    /\ Account(k) => Method(k) = Confined(GetVerifMethod(config).method[ProviderOf(k)])

(* to_check_email_input: a request with a proxy has every conversation of  *)
(* its check held through that proxy, whatever the server is configured    *)
(* to do and whatever other field the request sets.                        *)
RequestProxyUsed ==
  \A k \in Check :
    check[k].pc = "talking" /\ check[k].request.proxy # None =>
      Via(k) = check[k].request.proxy

(* load_config says that "for each email provider's verification method,   *)
(* the proxy (if set) must exist": no conversation whose method names a    *)
(* proxy is held without one.  The code does not look at two providers.    *)
ConfiguredProxyUsed ==
  \A k \in Check :
    check[k].pc = "talking" /\ Method(k).proxy # None => Via(k) # None
=============================================================================
