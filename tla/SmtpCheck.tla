----------------------------- MODULE SmtpCheck -----------------------------
(***************************************************************************)
(* One verification over SMTP: check_smtp (core/src/smtp/mod.rs) with      *)
(* check_smtp_with_retry, check_smtp_without_retry and create_smtp_future  *)
(* (core/src/smtp/connect.rs).  The domain's MX hosts are tried in order,  *)
(* each with a number of attempts; an attempt opens a session, asks for a  *)
(* made-up address (the catch-all probe) and, in a session of its own, for *)
(* the recipient.  Every probe leaves a record.                            *)
(*                                                                         *)
(* A step goes from one await to the next; pc is what is awaited.  The     *)
(* server answers, stays silent or breaks the connection, and the timeout  *)
(* of the attempt may strike at any await.                                 *)
(***************************************************************************)
EXTENDS RcptReply, Reachability, Sequences, FiniteSets

CONSTANTS
  Hosts,       \* the number of MX hosts, in preference order 1, 2, ...
  MaxHosts,    \* MAX_MX_HOSTS, 3 in the code
  Skip,        \* the hosts with the rule SkipCatchAll
  Retries,     \* the retries setting: attempts per host
  HasTimeout,  \* whether smtp_timeout is set
  Replies,     \* the replies to RCPT that may occur
  NoReply, NoResult

ASSUME HostAssumption == Hosts \in Nat \ {0} /\ MaxHosts \in Nat \ {0}
ASSUME SettingAssumption == Retries \in Nat /\ HasTimeout \in BOOLEAN
ASSUME ReplyAssumption == Replies \subseteq Reply /\ NoReply \notin Replies

LastHost == IF Hosts <= MaxHosts THEN Hosts ELSE MaxHosts
Attempts == IF Retries = 0 THEN 1 ELSE Retries

Finding == [catchAll : BOOLEAN, verdict : Verdict \ {"error"}]
Error == [kind : {"io", "transient", "permanent", "other", "timeout"},
          described : BOOLEAN]
ProbeRecord == [host : 1..LastHost, attempt : 1..Attempts, connection : 1..3,
                stage : Stage, response : Replies \cup {NoReply},
                error : BOOLEAN]

ASSUME ResultAssumption == NoResult \notin Finding \cup Error

VARIABLES
  pc,         \* the await the check is in
  host,       \* the host it talks to
  count,      \* attempts left at this host, the present one included
  conn,       \* number of the connection within the attempt
  again,      \* whether the recipient is asked for the second time
  skipped,    \* debug.catch_all_skipped
  cached,     \* debug.catch_all_cached
  probes,     \* debug.probes
  found,      \* the result while the session is being closed
  result,     \* what check_smtp returns
  remembered  \* whether it entered the domain in the catch-all cache
(***************************************************************************)
(* What the server saw, kept as history: the probes that have come through *)
(* the present session.                                                    *)
(***************************************************************************)
VARIABLE session

vars == <<pc, host, count, conn, again, skipped, cached, probes, found,
          result, remembered, session>>

Attempt == Retries + 1 - count

TypeOK ==
  /\ pc \in {"start", "dial", "rcpt", "quit", "bye", "done"}
  /\ host \in 1..LastHost
  /\ count \in 0..Retries
  /\ conn \in 1..3
  /\ again \in BOOLEAN
  /\ skipped \in BOOLEAN
  /\ cached \in BOOLEAN
  /\ probes \in Seq(ProbeRecord)
  /\ found \in Finding \cup {NoResult}
  /\ result \in Finding \cup Error \cup {NoResult}
  /\ remembered \in BOOLEAN
  /\ session \in Seq(Stage)

Init ==
  /\ pc = "start"
  /\ host = 1
  /\ count = Retries
  /\ conn = 1
  /\ again = FALSE
  /\ skipped = FALSE
  /\ cached = FALSE
  /\ probes = <<>>
  /\ found = NoResult
  /\ result = NoResult
  /\ remembered = FALSE
  /\ session = <<>>
-----------------------------------------------------------------------------
Due(h, attempt, connection, s) ==
  [host |-> h, attempt |-> attempt, connection |-> connection, stage |-> s,
   response |-> NoReply, error |-> FALSE]

FirstStage(h) == IF h \in Skip THEN "Recipient" ELSE "CatchAll"

Current == probes[Len(probes)]

(* The error an attempt ends with after reply r, or after no reply.        *)
ErrorOf(r) ==
  [kind |-> IF r.kind \in {"transient", "permanent"} THEN r.kind
            ELSE IF r.kind \in {"incomplete", "broken"} THEN "io" ELSE "other",
   described |-> Described(r)]

(* The records, with the reply in the last one.                            *)
Answered(r) ==
  [probes EXCEPT ![Len(probes)].response = IF HasResponse(r) THEN r ELSE NoReply,
                 ![Len(probes)].error = ~HasResponse(r)]

(* Faulty: an attempt that ends without a reply leaves an empty record.    *)
ExplainedNot(ps) == ps

(* A failed attempt puts its error into a last record that is empty.       *)
Explained(ps) ==
  LET p == ps[Len(ps)] IN
  IF p.attempt = Attempt /\ p.response = NoReply
  THEN [ps EXCEPT ![Len(ps)].error = TRUE] ELSE ps

(* Faulty: every connection failure makes the next host the next to try.   *)
SpokenNever(ps) == FALSE

(* A host that replied to any RCPT has spoken for the domain.              *)
Spoken(ps) == \E i \in 1..Len(ps) : ps[i].host = host /\ ps[i].response # NoReply

HostUnreachable(e) == e.kind \in {"io", "transient"} /\ ~e.described

(* Faulty: the last attempt is never made.                                 *)
MayRetryEarly(e) == ~e.described /\ count > 2

MayRetry(e) == ~e.described /\ count > 1

Begin(h, n, ps) ==
  /\ pc' = "dial"
  /\ host' = h
  /\ count' = n
  /\ conn' = 1
  /\ again' = FALSE
  /\ probes' = Append(ps, Due(h, Retries + 1 - n, 1, FirstStage(h)))
  /\ found' = NoResult
  /\ session' = <<>>
  /\ UNCHANGED result

(* An attempt ends with an error: retry, go on to the next host, or return.*)
Fail(e, ps) ==
  LET qs == Explained(ps)
      backup == ~MayRetry(e) /\ host < LastHost /\ ~Spoken(qs)
                  /\ HostUnreachable(e)
  IN  /\ \/ MayRetry(e) /\ Begin(host, count - 1, qs)
         \/ backup /\ Begin(host + 1, Retries, qs)
         \/ /\ ~MayRetry(e) /\ ~backup
            /\ pc' = "done"
            /\ probes' = qs
            /\ found' = NoResult
            /\ result' = e
            /\ UNCHANGED <<host, count, conn, again, session>>
      /\ UNCHANGED <<cached, remembered>>
-----------------------------------------------------------------------------
(* A domain known to be catch-all needs no conversation.                   *)
Lookup ==
  /\ pc = "start"
  /\ \/ /\ cached' = TRUE
        /\ pc' = "done"
        /\ result' = [catchAll |-> TRUE, verdict |-> "deliverable"]
        /\ UNCHANGED <<host, count, conn, again, probes, found, session>>
     \/ Begin(1, Retries, <<>>) /\ UNCHANGED cached
  /\ UNCHANGED <<skipped, remembered>>

(* The session is open; the probe that was due goes out.  The record of it *)
(* is taken off and made anew.                                             *)
Dial ==
  /\ pc = "dial"
  /\ pc' = "rcpt"
  /\ skipped' = (skipped \/ (conn = 1 /\ host \in Skip))
  /\ session' = <<Current.stage>>
  /\ UNCHANGED <<host, count, conn, again, cached, probes, found, result,
                 remembered>>

(* No connection, no greeting, a refused greeting or sender.               *)
DialFails(e) ==
  /\ pc = "dial"
  /\ Fail(e, probes)
  /\ UNCHANGED skipped

CatchAllAccepted(r) ==
  /\ pc = "rcpt" /\ Current.stage = "CatchAll"
  /\ VerdictOf("CatchAll", r) = "deliverable"
  /\ probes' = Answered(r)
  /\ found' = [catchAll |-> TRUE, verdict |-> "deliverable"]
  /\ pc' = "bye"
  /\ UNCHANGED <<host, count, conn, again, skipped, cached, result,
                 remembered, session>>

(* Faulty: the recipient is asked for in the same session.                 *)
CatchAllRejectedStaying(r) ==
  /\ pc = "rcpt" /\ Current.stage = "CatchAll"
  /\ VerdictOf("CatchAll", r) = "undeliverable"
  /\ probes' = Append(Answered(r), Due(host, Attempt, conn, "Recipient"))
  /\ session' = Append(session, "Recipient")
  /\ UNCHANGED <<pc, host, count, conn, again, skipped, cached, found, result,
                 remembered>>

(* Faulty: the rejected made-up address is taken for the recipient.        *)
CatchAllRejectedConcluding(r) ==
  /\ pc = "rcpt" /\ Current.stage = "CatchAll"
  /\ VerdictOf("CatchAll", r) = "undeliverable"
  /\ probes' = Answered(r)
  /\ found' = [catchAll |-> FALSE, verdict |-> "undeliverable"]
  /\ pc' = "bye"
  /\ UNCHANGED <<host, count, conn, again, skipped, cached, result,
                 remembered, session>>

(* Faulty: an inconclusive reply excludes a catch-all as well.             *)
CatchAllRejectedLoosely(r) ==
  /\ pc = "rcpt" /\ Current.stage = "CatchAll"
  /\ VerdictOf("CatchAll", r) # "deliverable"
  /\ ~skipped
  /\ pc' = "quit"
  /\ probes' = Answered(r)
  /\ UNCHANGED <<host, count, conn, again, skipped, cached, found, result,
                 remembered, session>>

(* No catch-all: the recipient gets a session of its own, unless the rule  *)
(* was seen in this check.                                                 *)
CatchAllRejected(r) ==
  /\ pc = "rcpt" /\ Current.stage = "CatchAll"
  /\ VerdictOf("CatchAll", r) = "undeliverable"
  /\ \/ /\ ~skipped
        /\ pc' = "quit"
        /\ probes' = Answered(r)
        /\ UNCHANGED session
     \/ /\ skipped
        /\ probes' = Append(Answered(r), Due(host, Attempt, conn, "Recipient"))
        /\ session' = Append(session, "Recipient")
        /\ UNCHANGED pc
  /\ UNCHANGED <<host, count, conn, again, skipped, cached, found, result,
                 remembered>>

RecipientAnswered(r) ==
  LET v == VerdictOf("Recipient", r) IN
  /\ pc = "rcpt" /\ Current.stage = "Recipient"
  /\ v # "error"
  /\ probes' = Answered(r)
  /\ found' = [catchAll |-> FALSE, verdict |-> v]
  /\ pc' = "bye"
  /\ UNCHANGED <<host, count, conn, again, skipped, cached, result,
                 remembered, session>>

(* An interrupted recipient probe is repeated once in a fresh session.     *)
RecipientInterrupted(r) ==
  /\ pc = "rcpt" /\ Current.stage = "Recipient"
  /\ r.kind = "incomplete" /\ ~again
  /\ probes' = Answered(r)
  /\ again' = TRUE
  /\ pc' = "quit"
  /\ UNCHANGED <<host, count, conn, skipped, cached, found, result,
                 remembered, session>>

(* Any other reply without a verdict, or none, ends the attempt.           *)
ProbeFails(r) ==
  /\ pc = "rcpt"
  /\ VerdictOf(Current.stage, r) = "error"
  /\ ~(Current.stage = "Recipient" /\ r.kind = "incomplete" /\ ~again)
  /\ Fail(ErrorOf(r), Answered(r))
  /\ UNCHANGED skipped

(* QUIT was answered or its two seconds are over: a session for the        *)
(* recipient.                                                              *)
Reconnect ==
  /\ pc = "quit"
  /\ pc' = "dial"
  /\ conn' = conn + 1
  /\ probes' = Append(probes, Due(host, Attempt, conn + 1, "Recipient"))
  /\ session' = <<>>
  /\ UNCHANGED <<host, count, again, skipped, cached, found, result, remembered>>

(* The last QUIT was answered or its two seconds are over.                 *)
Return ==
  /\ pc = "bye"
  /\ pc' = "done"
  /\ result' = found
  /\ found' = NoResult
  /\ remembered' = found.catchAll
  /\ UNCHANGED <<host, count, conn, again, skipped, cached, probes, session>>

(* Faulty: a silent server is waited for.                                  *)
TimeOutNotOnRcpt ==
  /\ HasTimeout
  /\ pc \in {"dial", "quit", "bye"}
  /\ Fail([kind |-> "timeout", described |-> FALSE], probes)
  /\ UNCHANGED skipped

(* smtp_timeout is over, at whatever the attempt is waiting for.           *)
TimeOut ==
  /\ HasTimeout
  /\ pc \in {"dial", "rcpt", "quit", "bye"}
  /\ Fail([kind |-> "timeout", described |-> FALSE], probes)
  /\ UNCHANGED skipped

DialError == {e \in Error :
  e.kind # "timeout" /\ (e.described => e.kind \in {"transient", "permanent"})}

Next ==
  \/ Lookup \/ Dial \/ Reconnect \/ Return \/ TimeOut
  \/ \E e \in DialError : DialFails(e)
  \/ \E r \in Replies :
       \/ CatchAllAccepted(r) \/ CatchAllRejected(r) \/ RecipientAnswered(r)
       \/ RecipientInterrupted(r) \/ ProbeFails(r)

Spec == Init /\ [][Next]_vars

(* QUIT has a deadline of two seconds and the attempt has smtp_timeout; of *)
(* the server nothing is assumed.                                          *)
FairSpec ==
  Spec /\ WF_vars(Lookup) /\ WF_vars(Reconnect) /\ WF_vars(Return)
       /\ WF_vars(TimeOut)
-----------------------------------------------------------------------------
(* The details of a finding: at the end of check_smtp_without_retry, or    *)
(* those of the cache.                                                     *)
SmtpDetails(f) ==
  {"can_connect_smtp"}
    \cup (IF f.catchAll THEN {"is_catch_all"} ELSE {})
    \cup (CASE f.verdict = "deliverable" -> {"is_deliverable"}
            [] f.verdict = "disabled" -> {"is_disabled"}
            [] f.verdict = "full" -> {"has_full_inbox"}
            [] f.verdict = "undeliverable" -> {})

(* calculate_reachable; risky is a disposable or role address.             *)
Reachable(risky, res) ==
  IF res \in Error THEN "unknown"
  ELSE CalculateReachable(IF risky THEN {"is_role_account"} ELSE {}, SmtpDetails(res))

(* What check_email sees of it all.                                        *)
Outcome ==
  IF result \in Error THEN [returned |-> "error", details |-> {}]
  ELSE IF result \in Finding THEN [returned |-> "details", details |-> SmtpDetails(result)]
  ELSE [returned |-> "nothing", details |-> {}]

Conv == INSTANCE Conversation WITH outcome <- Outcome
-----------------------------------------------------------------------------
Conversed == pc = "done" /\ ~cached

(* A verdict is the server's word in the last probe: of the recipient, or  *)
(* of the made-up address for a catch-all; never of an earlier attempt.    *)
VerdictHasEvidence ==
  Conversed /\ result \in Finding =>
    /\ Current.response # NoReply
    /\ VerdictOf(Current.stage, Current.response) = result.verdict
    /\ result.catchAll <=> Current.stage = "CatchAll"

(* "Safe" takes more than an accepted recipient: in the same attempt the   *)
(* same host rejected a made-up address, or is one that must not be asked. *)
SafeMeansProbed ==
  Conversed /\ Reachable(FALSE, result) = "safe" =>
    \/ Current.host \in Skip
    \/ \E i \in 1..Len(probes) :
         LET p == probes[i] IN
         /\ p.host = Current.host /\ p.attempt = Current.attempt
         /\ p.stage = "CatchAll" /\ p.response # NoReply
         /\ VerdictOf("CatchAll", p.response) = "undeliverable"

(* A host that replied to any RCPT is the last one the check talks to.     *)
OneHostSpeaks ==
  \A i, j \in 1..Len(probes) :
    i < j /\ probes[i].response # NoReply => probes[j].host = probes[i].host

(* Every probe of a finished check has a reply or an error, through        *)
(* timeouts, failed handshakes and retries, and never both.                *)
ProbesExplained ==
  pc = "done" =>
    \A i \in 1..Len(probes) :
      (probes[i].response # NoReply) # probes[i].error

(* Greylisting is given all its attempts: a check that ends with an error  *)
(* it cannot name made every attempt at its host, and it went on to a      *)
(* backup only after as many at the host before.                           *)
RetriesExhausted ==
  pc = "done" =>
    \A h \in 1..host :
      (h < host \/ (result \in Error /\ ~result.described)) =>
        \E i \in 1..Len(probes) :
          probes[i].host = h /\ probes[i].attempt = Attempts

(* Only a server that accepted the made-up address enters the cache.       *)
RememberedIsCatchAll ==
  remembered =>
    Current.stage = "CatchAll" /\ Current.response # NoReply
      /\ Current.response.kind = "accepted"

(* A recipient is the first address of its session, unless the rule        *)
(* SkipCatchAll was met at an earlier host.                                *)
OwnSession ==
  \A i \in 1..Len(session) :
    session[i] = "Recipient" => i = 1 \/ \E h \in 1..(host - 1) : h \in Skip

(* With smtp_timeout set a check ends, whatever the servers do.            *)
Terminates == <>(pc = "done")
=============================================================================
