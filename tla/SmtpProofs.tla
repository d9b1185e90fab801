----------------------------- MODULE SmtpProofs -----------------------------
(***************************************************************************)
(* What a verification over SMTP guarantees for every number of hosts and  *)
(* attempts, every assignment of the rule SkipCatchAll and every set of    *)
(* replies.                                                                *)
(***************************************************************************)
EXTENDS SmtpCheck, RcptProbe, TLAPS

Active == pc \in {"dial", "rcpt", "quit", "bye"}

(* Attempts are counted down to one, to zero only if none are configured;  *)
(* the last record is of the present attempt; a third connection is opened *)
(* only for the second recipient probe.                                    *)
Stepping ==
  /\ count = 0 => Retries = 0
  /\ pc = "start" => probes = <<>> /\ host = 1 /\ count = Retries /\ ~cached
  /\ pc # "start" /\ ~cached => Len(probes) > 0
  /\ cached => pc = "done"
  /\ Active => Current.host = host /\ Current.attempt = Attempt
  /\ pc \in {"dial", "rcpt"} /\ Current.stage = "CatchAll" =>
       conn = 1 /\ ~again /\ host \notin Skip
  /\ pc \in {"dial", "rcpt"} /\ ~again => conn <= 2
  /\ pc = "quit" => conn <= 2
  /\ pc = "quit" /\ ~again => conn = 1

(* The last record holds the reply that f follows from.                    *)
Supports(f) ==
  /\ Current.response # NoReply
  /\ VerdictOf(Current.stage, Current.response) = f.verdict
  /\ f.catchAll <=> Current.stage = "CatchAll"
  /\ f.catchAll => f.verdict = "deliverable"

Evidence ==
  /\ pc = "bye" => found \in Finding /\ Supports(found)
  /\ pc # "done" => result = NoResult
  /\ Conversed /\ result \in Finding => Supports(result)
  /\ remembered => Conversed /\ result \in Finding /\ result.catchAll

(* Hosts are tried in their order, and only the present one has replied.   *)
InOrder(ps, h) ==
  /\ \A i \in 1..Len(ps) :
       ps[i].host <= h /\ (ps[i].response # NoReply => ps[i].host = h)
  /\ \A i, j \in 1..Len(ps) : i < j => ps[i].host <= ps[j].host
  /\ Len(ps) > 0 => ps[Len(ps)].host <= h

(* The flag was set by the rule of this host or an earlier one.            *)
SkippedBy(h) == skipped => \E g \in 1..h : g \in Skip

SkippedByRule == SkippedBy(host)

IInv == TypeOK /\ Stepping /\ Evidence /\ InOrder(probes, host) /\ SkippedByRule
-----------------------------------------------------------------------------
(* Constants                                                               *)

LEMMA ConstantFacts ==
  /\ LastHost \in Nat \ {0} /\ Attempts \in Nat \ {0}
  /\ Retries \in Nat /\ Retries <= Attempts
  /\ \A n \in 0..Retries :
       (n = 0 => Retries = 0) => Retries + 1 - n \in 1..Attempts
BY HostAssumption, SettingAssumption DEF LastHost, Attempts

(* An error is never taken for a finding.                                  *)
LEMMA FindingsAreNoErrors ==
  /\ Finding \cap Error = {}
  /\ NoResult \notin Finding
  /\ NoResult \notin Error
<1>1. ASSUME NEW x \in Finding, x \in Error PROVE FALSE
  <2>1. "catchAll" \in DOMAIN x
    BY DEF Finding
  <2>2. DOMAIN x = {"kind", "described"}
    BY <1>1 DEF Error
  <2> QED BY <2>1, <2>2
<1> QED BY <1>1, ResultAssumption

(* What is known of a reply without looking into the classification.       *)
LEMMA VerdictFacts ==
  ASSUME NEW r \in Reply
  PROVE  /\ \A s \in Stage : VerdictOf(s, r) \in Verdict
         /\ VerdictOf("CatchAll", r) \in {"deliverable", "undeliverable", "error"}
         /\ VerdictOf("CatchAll", r) = "deliverable" => r.kind = "accepted"
         /\ \A s \in Stage : VerdictOf(s, r) # "error" => HasResponse(r)
<1>1. r \in Refusal \/ r \in Other
  BY DEF Reply
<1>2. r \in Other => r.words = {} /\ r.codes[1] = "none" /\ r.codes[2] = "none"
  BY DEF Other
<1>3. MailboxStatus(r) \in {"undeliverable", "disabled", "full", "none"}
  BY DEF MailboxStatus
<1>4. Coded(r) \in {"undeliverable", "disabled", "full", "none"}
  BY <1>3 DEF Coded
<1>5. RecipientVerdict(r) \in Verdict
  BY <1>4 DEF RecipientVerdict, VerdictByWording, Verdict
<1>6. CatchAllVerdict(r) \in {"undeliverable", "error"}
  BY DEF CatchAllVerdict
<1>7. ASSUME ~HasResponse(r)
      PROVE  CatchAllVerdict(r) = "error" /\ RecipientVerdict(r) = "error"
  <2>1. r \in Other
    BY <1>1, <1>7 DEF HasResponse, Refusal
  <2>2. \A P : ~Says(r, P)
    BY <2>1, <1>2 DEF Says
  <2>3. Coded(r) = "none"
    BY <2>1, <1>2 DEF Coded, MailboxStatus, EnhancedCode
  <2>4. ~Permanent(r)
    BY <1>7 DEF HasResponse, Permanent
  <2> QED
    BY <2>2, <2>3, <2>4 DEF CatchAllVerdict, RecipientVerdict, VerdictByWording,
       IsUnverifiedRecipient, IsFullInbox
<1> QED
  BY <1>4, <1>5, <1>6, <1>7 DEF VerdictOf, HasResponse, Verdict, Stage
-----------------------------------------------------------------------------
(* Records                                                                 *)

LEMMA DueFacts ==
  ASSUME NEW h \in 1..LastHost, NEW n \in 1..Attempts, NEW c \in 1..3, NEW s \in Stage
  PROVE  /\ Due(h, n, c, s) \in ProbeRecord
         /\ Due(h, n, c, s).host = h /\ Due(h, n, c, s).attempt = n
         /\ Due(h, n, c, s).stage = s
         /\ Due(h, n, c, s).response = NoReply
BY DEF Due, ProbeRecord

(* A record may be added for a host that is the only one to have replied.  *)
LEMMA AppendFacts ==
  ASSUME NEW ps \in Seq(ProbeRecord), NEW p \in ProbeRecord, NEW h \in 1..LastHost,
         InOrder(ps, h), p.host = h
  PROVE  /\ Append(ps, p) \in Seq(ProbeRecord)
         /\ Len(Append(ps, p)) = Len(ps) + 1
         /\ Append(ps, p)[Len(Append(ps, p))] = p
         /\ InOrder(Append(ps, p), h)
<1> DEFINE qs == Append(ps, p)
<1>1. /\ qs \in Seq(ProbeRecord) /\ Len(qs) = Len(ps) + 1
      /\ \A i \in 1..Len(ps) : qs[i] = ps[i]
      /\ qs[Len(ps) + 1] = p /\ Len(ps) \in Nat
  OBVIOUS
<1>2. h \in Nat
  BY ConstantFacts
<1>3. \A i \in 1..Len(qs) : qs[i].host <= h /\ (qs[i].response # NoReply => qs[i].host = h)
  BY <1>1, <1>2 DEF InOrder
<1>4. \A i, j \in 1..Len(qs) : i < j => qs[i].host <= qs[j].host
  <2> SUFFICES ASSUME NEW i \in 1..Len(qs), NEW j \in 1..Len(qs), i < j
               PROVE  qs[i].host <= qs[j].host
    OBVIOUS
  <2>1. CASE j \in 1..Len(ps)
    BY <1>1, <2>1 DEF InOrder
  <2>2. CASE j = Len(ps) + 1
    BY <1>1, <1>3, <2>2
  <2> QED BY <1>1, <2>1, <2>2
<1> HIDE DEF qs
<1>5. InOrder(qs, h)
  BY <1>1, <1>2, <1>3, <1>4 DEF InOrder
<1> QED BY <1>1, <1>5 DEF qs

(* Changing the answer of the last record, which is the present host's.    *)
LEMMA LastRecordFacts ==
  ASSUME NEW ps \in Seq(ProbeRecord), Len(ps) > 0, NEW qs \in Seq(ProbeRecord),
         NEW h \in 1..LastHost, InOrder(ps, h), ps[Len(ps)].host = h,
         Len(qs) = Len(ps), \A i \in 1..Len(ps) : qs[i].host = ps[i].host,
         \A i \in 1..Len(ps) : i # Len(ps) => qs[i] = ps[i]
  PROVE  InOrder(qs, h)
BY ConstantFacts DEF InOrder

LEMMA ReplaceFacts ==
  ASSUME NEW S, NEW s \in Seq(S), NEW n \in 1..Len(s), NEW q \in S
  PROVE  LET t == [s EXCEPT ![n] = q] IN
         /\ t \in Seq(S) /\ Len(t) = Len(s)
         /\ t[n] = q /\ \A i \in 1..Len(s) : i # n => t[i] = s[i]
OBVIOUS

LEMMA AnsweredFacts ==
  ASSUME TypeOK, Len(probes) > 0, Current.host = host, InOrder(probes, host),
         NEW r \in Replies
  PROVE  LET qs == Answered(r) IN
         /\ qs \in Seq(ProbeRecord) /\ Len(qs) = Len(probes)
         /\ InOrder(qs, host)
         /\ qs[Len(qs)].host = host /\ qs[Len(qs)].attempt = Current.attempt
         /\ qs[Len(qs)].stage = Current.stage
         /\ qs[Len(qs)].response = IF HasResponse(r) THEN r ELSE NoReply
<1> DEFINE n == Len(probes)
           a == IF HasResponse(r) THEN r ELSE NoReply
           q == [probes[n] EXCEPT !.response = a, !.error = ~HasResponse(r)]
           qs == [probes EXCEPT ![n] = q]
<1>1. n \in 1..Len(probes) /\ probes[n] \in ProbeRecord /\ probes \in Seq(ProbeRecord)
  BY DEF TypeOK
<1>2. /\ q \in ProbeRecord /\ q.response = a /\ q.host = probes[n].host
      /\ q.attempt = probes[n].attempt /\ q.stage = probes[n].stage
  BY <1>1 DEF ProbeRecord
<1>3. Answered(r) = qs
  BY <1>1 DEF Answered, ProbeRecord
<1>4. /\ qs \in Seq(ProbeRecord) /\ Len(qs) = Len(probes)
      /\ qs[n] = q /\ \A i \in 1..Len(probes) : i # n => qs[i] = probes[i]
  <2> HIDE DEF q
  <2> QED BY <1>1, <1>2, ReplaceFacts
<1> HIDE DEF q, qs
<1>5. InOrder(qs, host)
  <2>1. \A i \in 1..Len(probes) : qs[i].host = probes[i].host
    BY <1>2, <1>4
  <2> QED BY <1>1, <1>4, <2>1, LastRecordFacts DEF TypeOK, Current
<1> QED BY <1>2, <1>3, <1>4, <1>5 DEF Current

LEMMA ExplainedFacts ==
  ASSUME NEW ps \in Seq(ProbeRecord), Len(ps) > 0, host \in 1..LastHost,
         InOrder(ps, host), ps[Len(ps)].host = host
  PROVE  LET qs == Explained(ps) IN
         /\ qs \in Seq(ProbeRecord) /\ Len(qs) = Len(ps) /\ InOrder(qs, host)
         /\ qs[Len(qs)].host = host
<1> DEFINE n == Len(ps)
           q == [ps[n] EXCEPT !.error = TRUE]
           qs == [ps EXCEPT ![n] = q]
<1>1. n \in 1..Len(ps) /\ ps[n] \in ProbeRecord
  OBVIOUS
<1>2. q \in ProbeRecord /\ q.host = ps[n].host
  BY <1>1 DEF ProbeRecord
<1>3. Explained(ps) = qs \/ Explained(ps) = ps
  BY <1>1 DEF Explained
<1>4. /\ qs \in Seq(ProbeRecord) /\ Len(qs) = Len(ps)
      /\ qs[n] = q /\ \A i \in 1..Len(ps) : i # n => qs[i] = ps[i]
  <2> HIDE DEF q
  <2> QED BY <1>1, <1>2, ReplaceFacts
<1> HIDE DEF q, qs
<1>5. InOrder(qs, host)
  <2>1. \A i \in 1..Len(ps) : qs[i].host = ps[i].host
    BY <1>2, <1>4
  <2> QED BY <1>1, <1>4, <2>1, LastRecordFacts
<1> QED BY <1>2, <1>3, <1>4, <1>5
-----------------------------------------------------------------------------
(* The synchronous tails of the steps                                      *)

LEMMA BeginFacts ==
  ASSUME TypeOK, NEW h \in 1..LastHost, NEW n \in 0..Retries, n = 0 => Retries = 0,
         NEW ps \in Seq(ProbeRecord), InOrder(ps, h), Begin(h, n, ps),
         result = NoResult, cached' = FALSE, remembered' = FALSE,
         skipped' = skipped, SkippedBy(h)
  PROVE  IInv'
<1> DEFINE k == Retries + 1 - n
           p == Due(h, k, 1, FirstStage(h))
<1>1. k \in 1..Attempts /\ FirstStage(h) \in Stage
  BY ConstantFacts DEF FirstStage, Stage
<1>2. /\ p \in ProbeRecord /\ p.host = h /\ p.attempt = k /\ p.stage = FirstStage(h)
      /\ p.response = NoReply
  BY <1>1, DueFacts
<1>3. /\ pc' = "dial" /\ host' = h /\ count' = n /\ conn' = 1 /\ again' = FALSE
      /\ probes' = Append(ps, p) /\ found' = NoResult /\ session' = <<>>
      /\ result' = NoResult
  BY DEF Begin
<1> HIDE DEF p
<1>4. /\ probes' \in Seq(ProbeRecord) /\ Len(probes') = Len(ps) + 1
      /\ Current' = p /\ InOrder(probes', h)
  BY <1>2, <1>3, AppendFacts DEF Current
<1>5. TypeOK'
  <2>1. /\ pc' \in {"start", "dial", "rcpt", "quit", "bye", "done"}
        /\ host' \in 1..LastHost /\ count' \in 0..Retries /\ conn' \in 1..3
        /\ probes' \in Seq(ProbeRecord) /\ session' \in Seq(Stage)
    BY <1>3, <1>4
  <2>2. skipped' \in BOOLEAN /\ again' \in BOOLEAN /\ cached' \in BOOLEAN
          /\ remembered' \in BOOLEAN
    BY <1>3, Zenon DEF TypeOK
  <2> QED BY <1>3, <2>1, <2>2 DEF TypeOK
<1>6. Stepping'
  BY <1>2, <1>3, <1>4 DEF Stepping, Active, Attempt, FirstStage
<1>7. Evidence'
  BY <1>3, FindingsAreNoErrors DEF Evidence, Conversed
<1>8. SkippedByRule'
  BY <1>3 DEF SkippedByRule, SkippedBy
<1> QED BY <1>3, <1>4, <1>5, <1>6, <1>7, <1>8 DEF IInv

LEMMA FailFacts ==
  ASSUME IInv, Active, NEW e \in Error, NEW ps \in Seq(ProbeRecord),
         Len(ps) > 0, InOrder(ps, host), ps[Len(ps)].host = host,
         Fail(e, ps), skipped' = skipped
  PROVE  IInv'
<1> DEFINE qs == Explained(ps)
           backup == ~MayRetry(e) /\ host < LastHost /\ ~Spoken(qs)
                       /\ HostUnreachable(e)
<1>1. TypeOK /\ host \in 1..LastHost /\ count \in 0..Retries /\ SkippedBy(host)
  BY DEF IInv, TypeOK, SkippedByRule
<1>2. result = NoResult /\ cached = FALSE /\ remembered = FALSE
  BY DEF IInv, Active, Evidence, Stepping, Conversed, TypeOK
<1>3. qs \in Seq(ProbeRecord) /\ Len(qs) > 0 /\ InOrder(qs, host)
  BY <1>1, ExplainedFacts
<1>4. /\ \/ MayRetry(e) /\ Begin(host, count - 1, qs)
         \/ backup /\ Begin(host + 1, Retries, qs)
         \/ /\ pc' = "done" /\ probes' = qs /\ found' = NoResult /\ result' = e
            /\ UNCHANGED <<host, count, conn, again, session>>
      /\ UNCHANGED <<cached, remembered>>
  BY DEF Fail
<1> HIDE DEF qs
<1>5. CASE MayRetry(e) /\ Begin(host, count - 1, qs)
  <2>1. count - 1 \in 0..Retries /\ count - 1 # 0
    BY <1>1, <1>5, ConstantFacts DEF MayRetry
  <2> QED BY <1>1, <1>2, <1>3, <1>4, <1>5, <2>1, BeginFacts
<1>6. CASE backup /\ Begin(host + 1, Retries, qs)
  <2>1. host + 1 \in 1..LastHost /\ Retries \in 0..Retries
    BY <1>1, <1>6, ConstantFacts
  <2>2. InOrder(qs, host + 1)
    <3>1. /\ host \in Nat /\ Len(qs) \in Nat
          /\ \A i \in 1..Len(qs) : qs[i].host \in Nat
      <4>1. \A i \in 1..Len(qs) : qs[i] \in ProbeRecord
        BY <1>3
      <4>2. \A p \in ProbeRecord : p.host \in Nat
        BY ConstantFacts DEF ProbeRecord
      <4> QED BY <1>1, <1>3, <4>1, <4>2, ConstantFacts
    <3>2. \A i \in 1..Len(qs) : qs[i].response = NoReply
      BY <1>3, <1>6 DEF InOrder, Spoken
    <3> QED BY <1>3, <3>1, <3>2 DEF InOrder
  <2>3. SkippedBy(host + 1)
    BY <1>1, ConstantFacts DEF SkippedBy
  <2> QED BY <1>1, <1>2, <1>3, <1>4, <1>6, <2>1, <2>2, <2>3, BeginFacts
<1>7. CASE /\ pc' = "done" /\ probes' = qs /\ found' = NoResult /\ result' = e
           /\ UNCHANGED <<host, count, conn, again, session>>
  <2>1. TypeOK'
    BY <1>1, <1>3, <1>4, <1>7 DEF TypeOK
  <2>2. Stepping'
    BY <1>2, <1>3, <1>4, <1>7 DEF IInv, Stepping, Active
  <2>3. Evidence'
    BY <1>2, <1>4, <1>7, FindingsAreNoErrors DEF Evidence
  <2> QED BY <1>1, <1>3, <1>7, <2>1, <2>2, <2>3 DEF IInv, SkippedByRule, SkippedBy
<1> QED BY <1>4, <1>5, <1>6, <1>7
-----------------------------------------------------------------------------
(* The invariant                                                           *)

LEMMA InitInv ==
  ASSUME Init PROVE IInv
<1>1. 1 \in 1..LastHost /\ Retries \in 0..Retries /\ <<>> \in Seq(ProbeRecord)
  BY ConstantFacts
<1>2. TypeOK
  <2>1. <<>> \in Seq(Stage)
    OBVIOUS
  <2>2. /\ pc \in {"start", "dial", "rcpt", "quit", "bye", "done"}
        /\ host \in 1..LastHost /\ count \in 0..Retries /\ conn \in 1..3
        /\ probes \in Seq(ProbeRecord) /\ session \in Seq(Stage)
    BY <1>1, <2>1 DEF Init
  <2>3. skipped \in BOOLEAN /\ again \in BOOLEAN /\ cached \in BOOLEAN
          /\ remembered \in BOOLEAN
    BY Zenon DEF Init
  <2> QED BY <2>2, <2>3 DEF Init, TypeOK
<1>3. Stepping
  BY ConstantFacts DEF Init, Stepping, Active
<1>4. Evidence
  BY FindingsAreNoErrors DEF Init, Evidence, Conversed
<1>5. InOrder(probes, host) /\ SkippedByRule
  BY DEF Init, InOrder, SkippedByRule, SkippedBy
<1> QED BY <1>2, <1>3, <1>4, <1>5 DEF IInv

(* The present host's last record, while a session is open or being opened.*)
LEMMA ActiveFacts ==
  ASSUME IInv, Active
  PROVE  /\ Len(probes) > 0 /\ Len(probes) \in Nat /\ probes \in Seq(ProbeRecord)
         /\ Current \in ProbeRecord /\ Current.stage \in Stage
         /\ Current.host = host /\ Current.attempt = Attempt
         /\ Attempt \in 1..Attempts /\ host \in 1..LastHost
         /\ InOrder(probes, host) /\ result = NoResult
         /\ cached = FALSE /\ remembered = FALSE
<1>1. TypeOK /\ Stepping /\ Evidence /\ InOrder(probes, host)
  BY DEF IInv
<1>2. cached = FALSE /\ remembered = FALSE /\ result = NoResult
  BY <1>1 DEF Active, TypeOK, Stepping, Evidence, Conversed
<1>3. Len(probes) > 0 /\ Len(probes) \in Nat /\ probes \in Seq(ProbeRecord)
  BY <1>1, <1>2 DEF Active, TypeOK, Stepping
<1>4. Current \in ProbeRecord
  BY <1>3 DEF Current
<1>5. Current.stage \in Stage
  BY <1>4 DEF ProbeRecord
<1>6. Attempt \in 1..Attempts
  BY <1>1, ConstantFacts DEF TypeOK, Stepping, Attempt
<1> QED BY <1>1, <1>2, <1>3, <1>4, <1>5, <1>6 DEF Stepping, TypeOK

LEMMA LookupInv ==
  ASSUME IInv, Lookup PROVE IInv'
<1>1. /\ TypeOK /\ SkippedByRule /\ SkippedBy(1) /\ pc = "start" /\ probes = <<>> /\ host = 1
      /\ cached = FALSE /\ result = NoResult /\ remembered = FALSE
  BY DEF Lookup, IInv, TypeOK, Stepping, Evidence, Conversed, SkippedByRule
<1>2. CASE /\ cached' = TRUE /\ pc' = "done"
           /\ result' = [catchAll |-> TRUE, verdict |-> "deliverable"]
           /\ UNCHANGED <<host, count, conn, again, probes, found, session>>
  <2>1. UNCHANGED <<skipped, remembered>>
    BY DEF Lookup
  <2>2. result' \in Finding
    BY <1>2 DEF Finding, Verdict
  <2>3. TypeOK'
    BY <1>1, <1>2, <2>1, <2>2 DEF TypeOK
  <2>4. Stepping' /\ SkippedByRule'
    BY <1>1, <1>2, <2>1 DEF IInv, Stepping, Active, SkippedByRule, SkippedBy
  <2>5. Evidence'
    BY <1>1, <1>2, <2>1 DEF Evidence, Conversed
  <2> QED BY <1>2, <2>3, <2>4, <2>5 DEF IInv
<1>3. CASE Begin(1, Retries, <<>>) /\ UNCHANGED cached
  <2>1. /\ 1 \in 1..LastHost /\ Retries \in 0..Retries
        /\ <<>> \in Seq(ProbeRecord) /\ InOrder(<<>>, 1)
    BY ConstantFacts DEF InOrder
  <2>2. UNCHANGED <<skipped, remembered>>
    BY DEF Lookup
  <2> QED BY <1>1, <1>3, <2>1, <2>2, BeginFacts
<1> QED BY <1>2, <1>3 DEF Lookup

LEMMA DialInv ==
  ASSUME IInv, Dial PROVE IInv'
<1> USE DEF Dial
<1>1. Active /\ pc' = "rcpt" /\ Current' = Current
  BY DEF Active, Current
<1>2. TypeOK'
  <2>1. skipped' \in BOOLEAN
    OBVIOUS
  <2>2. session' \in Seq(Stage)
    BY <1>1, ActiveFacts
  <2> QED BY <2>1, <2>2 DEF IInv, TypeOK
<1>3. Stepping'
  BY <1>1 DEF IInv, Stepping, Active, Attempt
<1>4. Evidence'
  BY <1>1, ActiveFacts, FindingsAreNoErrors DEF Evidence, Conversed
<1>5. SkippedByRule'
  <2>1. host' = host /\ host \in 1..LastHost
    BY <1>1, ActiveFacts
  <2>2. SkippedBy(host) /\ host \in 1..host
    BY <2>1, ConstantFacts DEF IInv, SkippedByRule
  <2>3. skipped' => skipped \/ host \in Skip
    BY Zenon
  <2> QED BY <2>1, <2>2, <2>3 DEF SkippedByRule, SkippedBy
<1> QED BY <1>2, <1>3, <1>4, <1>5 DEF IInv

LEMMA FailingInv ==
  ASSUME IInv, \/ \E e \in DialError : DialFails(e)
               \/ TimeOut
               \/ \E r \in Replies : ProbeFails(r)
  PROVE  IInv'
<1>1. CASE \E e \in DialError : DialFails(e)
  <2>1. Active
    BY <1>1 DEF Active, DialFails
  <2> QED BY <1>1, <2>1, ActiveFacts, FailFacts DEF DialFails, DialError, Current
<1>2. CASE TimeOut
  <2>1. Active /\ [kind |-> "timeout", described |-> FALSE] \in Error
    BY <1>2 DEF Active, TimeOut, Error
  <2> QED BY <1>2, <2>1, ActiveFacts, FailFacts DEF TimeOut, Current
<1>3. ASSUME NEW r \in Replies, ProbeFails(r) PROVE IInv'
  <2>1. Active /\ TypeOK
    BY <1>3 DEF Active, ProbeFails, IInv
  <2>2. ErrorOf(r) \in Error
    <3>1. Described(r) \in BOOLEAN
      BY DEF Described
    <3> QED BY <3>1 DEF ErrorOf, Error
  <2>3. /\ Answered(r) \in Seq(ProbeRecord) /\ Len(Answered(r)) > 0
        /\ InOrder(Answered(r), host)
        /\ Answered(r)[Len(Answered(r))].host = host
    BY <2>1, ActiveFacts, AnsweredFacts
  <2> QED BY <1>3, <2>1, <2>2, <2>3, FailFacts DEF ProbeFails
<1> QED BY <1>1, <1>2, <1>3

(* A step that takes the answer and leaves for QUIT or the next probe.     *)
LEMMA AnsweringFacts ==
  ASSUME IInv, NEW r \in Replies, pc = "rcpt"
  PROVE  LET qs == Answered(r) IN
         /\ Active /\ TypeOK /\ r \in Reply /\ r # NoReply
         /\ qs \in Seq(ProbeRecord) /\ Len(qs) > 0 /\ InOrder(qs, host)
         /\ qs[Len(qs)].host = host /\ qs[Len(qs)].attempt = Attempt
         /\ qs[Len(qs)].stage = Current.stage
         /\ HasResponse(r) => qs[Len(qs)].response = r
BY ActiveFacts, AnsweredFacts, ReplyAssumption DEF IInv, Active

LEMMA CatchAllAcceptedInv ==
  ASSUME IInv, NEW r \in Replies, CatchAllAccepted(r) PROVE IInv'
<1> DEFINE f == [catchAll |-> TRUE, verdict |-> "deliverable"]
<1>1. /\ pc = "rcpt" /\ pc' = "bye" /\ probes' = Answered(r) /\ found' = f
      /\ Current.stage = "CatchAll" /\ VerdictOf("CatchAll", r) = "deliverable"
      /\ UNCHANGED <<host, count, conn, again, skipped, cached, result,
                     remembered, session>>
  BY DEF CatchAllAccepted
<1>2. f \in Finding /\ f.catchAll = TRUE /\ f.verdict = "deliverable"
  BY DEF Finding, Verdict
<1> HIDE DEF f
<1>3. HasResponse(r)
  BY <1>1, AnsweringFacts, VerdictFacts DEF Stage
<1>4. /\ Current'.stage = "CatchAll" /\ Current'.response = r /\ r # NoReply
      /\ Current'.host = host /\ Current'.attempt = Attempt
      /\ probes' \in Seq(ProbeRecord) /\ Len(probes') > 0
      /\ InOrder(probes', host)
  BY <1>1, <1>3, AnsweringFacts DEF Current
<1>5. TypeOK' /\ SkippedByRule'
  BY <1>1, <1>2, <1>4 DEF IInv, TypeOK, SkippedByRule, SkippedBy
<1>6. Stepping'
  BY <1>1, <1>4, ActiveFacts, AnsweringFacts DEF IInv, Stepping, Active, Attempt
<1>7. Evidence'
  BY <1>1, <1>2, <1>4, ActiveFacts, AnsweringFacts, FindingsAreNoErrors
     DEF Evidence, Supports, Conversed
<1> QED BY <1>1, <1>4, <1>5, <1>6, <1>7 DEF IInv

LEMMA RecipientAnsweredInv ==
  ASSUME IInv, NEW r \in Replies, RecipientAnswered(r) PROVE IInv'
<1> DEFINE v == VerdictOf("Recipient", r)
           f == [catchAll |-> FALSE, verdict |-> v]
<1>1. /\ pc = "rcpt" /\ pc' = "bye" /\ probes' = Answered(r) /\ found' = f
      /\ Current.stage = "Recipient" /\ v # "error"
      /\ UNCHANGED <<host, count, conn, again, skipped, cached, result,
                     remembered, session>>
  BY DEF RecipientAnswered
<1>2. v \in Verdict /\ HasResponse(r)
  BY <1>1, AnsweringFacts, VerdictFacts DEF Stage
<1> HIDE DEF v
<1>3. f \in Finding /\ f.catchAll = FALSE /\ f.verdict = v
  BY <1>1, <1>2 DEF Finding
<1> HIDE DEF f
<1>4. /\ Current'.stage = "Recipient" /\ Current'.response = r /\ r # NoReply
      /\ Current'.host = host /\ Current'.attempt = Attempt
      /\ probes' \in Seq(ProbeRecord) /\ Len(probes') > 0
      /\ InOrder(probes', host)
  BY <1>1, <1>2, AnsweringFacts DEF Current
<1>5. TypeOK' /\ SkippedByRule'
  BY <1>1, <1>3, <1>4 DEF IInv, TypeOK, SkippedByRule, SkippedBy
<1>6. Stepping'
  BY <1>1, <1>4, ActiveFacts, AnsweringFacts DEF IInv, Stepping, Active, Attempt
<1>7. Evidence'
  BY <1>1, <1>3, <1>4, ActiveFacts, AnsweringFacts, FindingsAreNoErrors
     DEF Evidence, Supports, Conversed, v
<1> QED BY <1>1, <1>4, <1>5, <1>6, <1>7 DEF IInv

LEMMA RecipientInterruptedInv ==
  ASSUME IInv, NEW r \in Replies, RecipientInterrupted(r) PROVE IInv'
<1>1. /\ pc = "rcpt" /\ pc' = "quit" /\ probes' = Answered(r) /\ again' = TRUE
      /\ ~again
      /\ UNCHANGED <<host, count, conn, skipped, cached, found, result,
                     remembered, session>>
  BY DEF RecipientInterrupted
<1>2. /\ Current'.host = host /\ Current'.attempt = Attempt
      /\ probes' \in Seq(ProbeRecord) /\ Len(probes') > 0
      /\ InOrder(probes', host)
  BY <1>1, AnsweringFacts DEF Current
<1>3. TypeOK' /\ SkippedByRule'
  BY <1>1, <1>2 DEF IInv, TypeOK, SkippedByRule, SkippedBy
<1>4. Stepping'
  BY <1>1, <1>2, ActiveFacts, AnsweringFacts DEF IInv, Stepping, Active, Attempt
<1>5. Evidence'
  BY <1>1, ActiveFacts, AnsweringFacts, FindingsAreNoErrors DEF Evidence, Conversed
<1> QED BY <1>1, <1>2, <1>3, <1>4, <1>5 DEF IInv

LEMMA CatchAllRejectedInv ==
  ASSUME IInv, NEW r \in Replies, CatchAllRejected(r) PROVE IInv'
<1>1. /\ pc = "rcpt" /\ Current.stage = "CatchAll"
      /\ UNCHANGED <<host, count, conn, again, skipped, cached, found, result,
                     remembered>>
  BY DEF CatchAllRejected
<1>2. conn = 1 /\ again = FALSE
  BY <1>1 DEF IInv, TypeOK, Stepping
<1>3. Evidence' /\ SkippedByRule'
  <2>1. pc' # "bye" /\ pc' # "done"
    BY <1>1 DEF CatchAllRejected
  <2> QED
    BY <1>1, <2>1, ActiveFacts, AnsweringFacts
       DEF IInv, Evidence, Conversed, SkippedByRule, SkippedBy
<1>4. CASE pc' = "quit" /\ probes' = Answered(r) /\ UNCHANGED session
  <2>1. /\ Current'.host = host /\ Current'.attempt = Attempt
        /\ probes' \in Seq(ProbeRecord) /\ Len(probes') > 0
        /\ InOrder(probes', host)
    BY <1>1, <1>4, AnsweringFacts DEF Current
  <2>2. TypeOK'
    BY <1>1, <1>4, <2>1 DEF IInv, TypeOK
  <2>3. Stepping'
    BY <1>1, <1>2, <1>4, <2>1, ActiveFacts, AnsweringFacts DEF Stepping, Active, Attempt, IInv
  <2> QED BY <1>1, <1>3, <2>1, <2>2, <2>3 DEF IInv
<1>5. CASE /\ UNCHANGED pc
           /\ probes' = Append(Answered(r), Due(host, Attempt, conn, "Recipient"))
           /\ session' = Append(session, "Recipient")
  <2> DEFINE p == Due(host, Attempt, conn, "Recipient")
  <2>1. /\ p \in ProbeRecord /\ p.host = host /\ p.attempt = Attempt
        /\ p.stage = "Recipient"
    <3>1. Active
      BY <1>1 DEF Active
    <3>2. host \in 1..LastHost /\ Attempt \in 1..Attempts
      BY <3>1, ActiveFacts
    <3>3. conn \in 1..3 /\ "Recipient" \in Stage
      BY <1>2 DEF Stage
    <3> QED BY <3>2, <3>3, DueFacts
  <2> HIDE DEF p
  <2>2. /\ Current' = p /\ probes' \in Seq(ProbeRecord) /\ Len(probes') > 0
        /\ InOrder(probes', host)
    <3> DEFINE qs == Answered(r)
    <3>1. qs \in Seq(ProbeRecord) /\ InOrder(qs, host) /\ host \in 1..LastHost
      BY <1>1, ActiveFacts, AnsweringFacts
    <3>2. probes' = Append(qs, p)
      BY <1>5 DEF p
    <3> HIDE DEF qs
    <3>3. /\ Append(qs, p) \in Seq(ProbeRecord) /\ Len(Append(qs, p)) = Len(qs) + 1
          /\ Append(qs, p)[Len(Append(qs, p))] = p /\ InOrder(Append(qs, p), host)
      BY <2>1, <3>1, AppendFacts
    <3> QED BY <3>1, <3>2, <3>3 DEF Current
  <2>3. session' \in Seq(Stage)
    <3>1. session \in Seq(Stage) /\ "Recipient" \in Stage
      BY DEF IInv, TypeOK, Stage
    <3> QED BY <1>5, <3>1
  <2>4. TypeOK'
    BY <1>1, <1>5, <2>2, <2>3 DEF IInv, TypeOK
  <2>5. Stepping'
    BY <1>1, <1>2, <1>5, <2>1, <2>2, ActiveFacts, AnsweringFacts
       DEF Stepping, Active, Attempt, IInv
  <2> QED BY <1>1, <1>3, <2>2, <2>4, <2>5 DEF IInv
<1> QED BY <1>4, <1>5 DEF CatchAllRejected

LEMMA ReconnectInv ==
  ASSUME IInv, Reconnect PROVE IInv'
<1> DEFINE p == Due(host, Attempt, conn + 1, "Recipient")
<1>1. /\ pc = "quit" /\ pc' = "dial" /\ conn' = conn + 1
      /\ probes' = Append(probes, p) /\ session' = <<>>
      /\ UNCHANGED <<host, count, again, skipped, cached, found, result, remembered>>
  BY DEF Reconnect
<1>2. Active /\ conn \in 1..2 /\ (~again => conn = 1)
  BY <1>1 DEF Active, IInv, TypeOK, Stepping
<1>3. /\ p \in ProbeRecord /\ p.host = host /\ p.attempt = Attempt
      /\ p.stage = "Recipient"
  BY <1>2, ActiveFacts, DueFacts DEF Stage
<1> HIDE DEF p
<1>4. /\ Current' = p /\ probes' \in Seq(ProbeRecord) /\ Len(probes') > 0
      /\ InOrder(probes', host)
  BY <1>1, <1>2, <1>3, ActiveFacts, AppendFacts DEF Current
<1>5. TypeOK'
  <2>1. session' \in Seq(Stage) /\ conn' \in 1..3
    BY <1>1, <1>2
  <2> QED BY <1>1, <1>4, <2>1 DEF IInv, TypeOK
<1>6. Stepping'
  BY <1>1, <1>2, <1>3, <1>4, ActiveFacts DEF Stepping, Active, Attempt, IInv
<1>7. Evidence' /\ SkippedByRule'
  BY <1>1, <1>2, ActiveFacts DEF Evidence, Conversed, SkippedByRule, SkippedBy, IInv
<1> QED BY <1>1, <1>4, <1>5, <1>6, <1>7 DEF IInv

LEMMA ReturnInv ==
  ASSUME IInv, Return PROVE IInv'
<1>1. /\ pc = "bye" /\ pc' = "done" /\ result' = found /\ found' = NoResult
      /\ remembered' = found.catchAll
      /\ UNCHANGED <<host, count, conn, again, skipped, cached, probes, session>>
  BY DEF Return
<1>2. Active /\ found \in Finding /\ Supports(found) /\ found.catchAll \in BOOLEAN
  BY <1>1 DEF Active, IInv, Evidence, Finding
<1>3. TypeOK' /\ SkippedByRule'
  BY <1>1, <1>2 DEF IInv, TypeOK, SkippedByRule, SkippedBy
<1>4. Stepping'
  BY <1>1, <1>2, ActiveFacts DEF Stepping, Active, Attempt, IInv
<1>5. Evidence'
  BY <1>1, <1>2, ActiveFacts DEF Evidence, Conversed, Supports, Current
<1> QED BY <1>1, <1>3, <1>4, <1>5 DEF IInv

LEMMA NextInv ==
  ASSUME IInv, [Next]_vars PROVE IInv'
<1>1. CASE Lookup \/ Dial \/ Reconnect \/ Return
  BY <1>1, LookupInv, DialInv, ReconnectInv, ReturnInv
<1>2. CASE TimeOut \/ \E e \in DialError : DialFails(e)
  BY <1>2, FailingInv
<1>3. ASSUME NEW r \in Replies,
             \/ CatchAllAccepted(r) \/ CatchAllRejected(r) \/ RecipientAnswered(r)
             \/ RecipientInterrupted(r) \/ ProbeFails(r)
      PROVE  IInv'
  BY <1>3, CatchAllAcceptedInv, CatchAllRejectedInv, RecipientAnsweredInv,
     RecipientInterruptedInv, FailingInv
<1>4. CASE UNCHANGED vars
  BY <1>4 DEF vars, IInv, TypeOK, Stepping, Active, Attempt, Current, Evidence,
     Supports, Conversed, InOrder, SkippedByRule, SkippedBy
<1> QED BY <1>1, <1>2, <1>3, <1>4 DEF Next
-----------------------------------------------------------------------------
(* Theorems                                                                *)

THEOREM Invariance == Spec => []IInv
BY InitInv, NextInv, PTL DEF Spec

(* The state of a check is well-typed: it never opens a fourth connection  *)
(* in an attempt, nor makes an attempt too many.                           *)
THEOREM TypeCorrect == Spec => []TypeOK
<1>1. IInv => TypeOK
  BY DEF IInv
<1> QED BY <1>1, Invariance, PTL

(* Every verdict is what the last reply says (create_smtp_future).         *)
THEOREM VerdictsHaveEvidence == Spec => []VerdictHasEvidence
<1>1. IInv => VerdictHasEvidence
  BY DEF IInv, Evidence, Supports, VerdictHasEvidence
<1> QED BY <1>1, Invariance, PTL

(* After a reply to a RCPT no other host is asked (check_smtp).            *)
THEOREM NoHostAfterAReply == Spec => []OneHostSpeaks
<1>1. IInv => OneHostSpeaks
  <2> SUFFICES ASSUME IInv, NEW i \in 1..Len(probes), NEW j \in 1..Len(probes),
                      i < j, probes[i].response # NoReply
               PROVE  probes[j].host = probes[i].host
    BY DEF OneHostSpeaks
  <2>1. /\ probes[i].host = host /\ probes[i].host <= probes[j].host
        /\ probes[j].host <= host
    BY DEF IInv, InOrder
  <2>2. host \in Nat /\ probes[j].host \in Nat
    <3>1. probes \in Seq(ProbeRecord) /\ host \in 1..LastHost
      BY DEF IInv, TypeOK
    <3>2. probes[j] \in ProbeRecord
      BY <3>1
    <3>3. probes[j].host \in 1..LastHost
      BY <3>2 DEF ProbeRecord
    <3> QED BY <3>1, <3>3, ConstantFacts
  <2> QED BY <2>1, <2>2
<1> QED BY <1>1, Invariance, PTL

(* Only an observed catch-all enters the cache (check_smtp).               *)
THEOREM CacheGetsCatchAllsOnly == Spec => []RememberedIsCatchAll
<1>1. ASSUME IInv, remembered PROVE RememberedIsCatchAll
  <2>1. result \in Finding /\ result.catchAll /\ Supports(result) /\ Conversed
    BY <1>1 DEF IInv, Evidence
  <2>2. Current \in ProbeRecord
    <3>1. probes \in Seq(ProbeRecord) /\ Len(probes) > 0
      <4>1. probes \in Seq(ProbeRecord)
        BY <1>1 DEF IInv, TypeOK
      <4>2. pc # "start" /\ ~cached
        BY <2>1 DEF Conversed
      <4>3. pc # "start" /\ ~cached => Len(probes) > 0
        BY <1>1, Zenon DEF IInv, Stepping
      <4> QED BY <4>1, <4>2, <4>3
    <3> QED BY <3>1 DEF Current
  <2>3. /\ Current.stage = "CatchAll" /\ Current.response # NoReply
        /\ VerdictOf("CatchAll", Current.response) = result.verdict
        /\ result.verdict = "deliverable"
    BY <2>1 DEF Supports
  <2>4. Current.response \in Reply
    BY <2>2, <2>3, ReplyAssumption DEF ProbeRecord
  <2> QED BY <2>3, <2>4, VerdictFacts DEF RememberedIsCatchAll
<1>2. IInv => RememberedIsCatchAll
  BY <1>1 DEF RememberedIsCatchAll
<1> QED BY <1>2, Invariance, PTL

(* A recipient shares its session only where an earlier host had the rule. *)
LEMMA OwnSessionInv ==
  ASSUME IInv, OwnSession, [Next]_vars
  PROVE  OwnSession'
<1>1. ASSUME session' = <<>> \/ (session' = session /\ host' = host)
      PROVE  OwnSession'
  BY <1>1 DEF OwnSession
<1>2. ASSUME NEW e, NEW ps, Fail(e, ps) PROVE OwnSession'
  BY <1>1, <1>2 DEF Fail, Begin
<1>3. CASE Lookup \/ Reconnect \/ Return
  BY <1>1, <1>3 DEF Lookup, Begin, Reconnect, Return
<1>4. CASE Dial
  <2>1. session' = <<Current.stage>>
    BY <1>4 DEF Dial
  <2> QED BY <2>1 DEF OwnSession
<1>5. CASE TimeOut \/ \E e \in DialError : DialFails(e)
  BY <1>2, <1>5 DEF TimeOut, DialFails
<1>6. ASSUME NEW r \in Replies,
             CatchAllAccepted(r) \/ RecipientAnswered(r) \/ RecipientInterrupted(r)
      PROVE  OwnSession'
  BY <1>1, <1>6 DEF CatchAllAccepted, RecipientAnswered, RecipientInterrupted
<1>7. ASSUME NEW r \in Replies, ProbeFails(r) PROVE OwnSession'
  BY <1>2, <1>7 DEF ProbeFails
<1>8. ASSUME NEW r \in Replies, CatchAllRejected(r) PROVE OwnSession'
  <2>1. host \in 1..LastHost /\ host \notin Skip
    BY <1>8 DEF CatchAllRejected, IInv, TypeOK, Stepping
  <2>2. CASE skipped
    <3>1. PICK g \in 1..host : g \in Skip
      BY <2>2 DEF IInv, SkippedByRule, SkippedBy
    <3>2. g \in 1..(host - 1) /\ host' = host
      BY <1>8, <2>1, <3>1, ConstantFacts DEF CatchAllRejected
    <3> QED BY <3>1, <3>2 DEF OwnSession
  <2> QED BY <1>1, <1>8, <2>2 DEF CatchAllRejected
<1>9. CASE UNCHANGED vars
  BY <1>1, <1>9 DEF vars
<1> QED BY <1>3, <1>4, <1>5, <1>6, <1>7, <1>8, <1>9 DEF Next

(* The comment on the recipient's session (create_smtp_future) is right as *)
(* long as no earlier host had the rule.                                   *)
THEOREM RecipientHasItsSession == Spec => []OwnSession
<1>1. Init => OwnSession
  BY DEF Init, OwnSession
<1>2. IInv /\ OwnSession /\ [Next]_vars => OwnSession'
  BY OwnSessionInv
<1> QED BY <1>1, <1>2, Invariance, PTL DEF Spec
-----------------------------------------------------------------------------
(* What the records of the probes tell, from the first to the last         *)

LastOf(ps) == ps[Len(ps)]

(* A record with a reply or an error and not both; one not with both.      *)
Told(p) == (p.response # NoReply) # p.error
Plain(p) == ~(p.response # NoReply /\ p.error)

(* Only the answer in the last record may have changed.                    *)
Keeps(ps, qs) ==
  /\ qs \in Seq(ProbeRecord) /\ Len(qs) = Len(ps) /\ Len(ps) > 0
  /\ \A i \in 1..Len(ps) : i # Len(ps) => qs[i] = ps[i]
  /\ LastOf(qs).host = LastOf(ps).host /\ LastOf(qs).attempt = LastOf(ps).attempt
  /\ LastOf(qs).stage = LastOf(ps).stage

LEMMA AnsweredKeeps ==
  ASSUME TypeOK, Len(probes) > 0, NEW r \in Replies
  PROVE  LET qs == Answered(r) IN
         /\ Keeps(probes, qs) /\ Told(LastOf(qs))
         /\ HasResponse(r) => LastOf(qs).response = r
<1> DEFINE n == Len(probes)
           a == IF HasResponse(r) THEN r ELSE NoReply
           q == [probes[n] EXCEPT !.response = a, !.error = ~HasResponse(r)]
           qs == [probes EXCEPT ![n] = q]
<1>1. n \in 1..Len(probes) /\ probes[n] \in ProbeRecord /\ probes \in Seq(ProbeRecord)
  BY DEF TypeOK
<1>2. /\ q \in ProbeRecord /\ q.response = a /\ q.host = probes[n].host
      /\ q.attempt = probes[n].attempt /\ q.stage = probes[n].stage
      /\ q.error = ~HasResponse(r)
  BY <1>1 DEF ProbeRecord
<1>3. Answered(r) = qs
  BY <1>1 DEF Answered, ProbeRecord
<1>4. Told(q)
  BY <1>2, ReplyAssumption DEF Told
<1>5. /\ qs \in Seq(ProbeRecord) /\ Len(qs) = Len(probes)
      /\ qs[n] = q /\ \A i \in 1..Len(probes) : i # n => qs[i] = probes[i]
  <2> HIDE DEF q
  <2> QED BY <1>1, <1>2, ReplaceFacts
<1> HIDE DEF q, qs
<1> QED BY <1>1, <1>2, <1>3, <1>4, <1>5 DEF Keeps, LastOf

LEMMA ExplainedKeeps ==
  ASSUME NEW ps \in Seq(ProbeRecord), Len(ps) > 0,
         LastOf(ps).attempt = Attempt, Plain(LastOf(ps))
  PROVE  Keeps(ps, Explained(ps)) /\ Told(LastOf(Explained(ps)))
<1> DEFINE n == Len(ps)
           q == [ps[n] EXCEPT !.error = TRUE]
           qs == [ps EXCEPT ![n] = q]
<1>1. n \in 1..Len(ps) /\ ps[n] \in ProbeRecord
  OBVIOUS
<1>2. /\ q \in ProbeRecord /\ q.host = ps[n].host /\ q.attempt = ps[n].attempt
      /\ q.stage = ps[n].stage /\ q.response = ps[n].response /\ q.error = TRUE
  BY <1>1 DEF ProbeRecord
<1>3. /\ qs \in Seq(ProbeRecord) /\ Len(qs) = Len(ps)
      /\ qs[n] = q /\ \A i \in 1..Len(ps) : i # n => qs[i] = ps[i]
  <2> HIDE DEF q
  <2> QED BY <1>1, <1>2, ReplaceFacts
<1>4. CASE ps[n].response = NoReply
  <2>1. Explained(ps) = qs
    BY <1>1, <1>4 DEF Explained, LastOf, ProbeRecord
  <2>2. Told(q)
    BY <1>2, <1>4 DEF Told
  <2> HIDE DEF q, qs
  <2> QED BY <1>1, <1>2, <1>3, <2>1, <2>2 DEF Keeps, LastOf
<1>5. CASE ps[n].response # NoReply
  <2>1. Explained(ps) = ps
    BY <1>5 DEF Explained
  <2>2. ps[n].error \in BOOLEAN
    BY <1>1 DEF ProbeRecord
  <2> QED BY <1>5, <2>1, <2>2 DEF Keeps, LastOf, Told, Plain
<1> QED BY <1>4, <1>5

(* A record is added: those before it stay.                                *)
LEMMA AppendKeeps ==
  ASSUME NEW ps \in Seq(ProbeRecord), NEW p
  PROVE  /\ Len(Append(ps, p)) = Len(ps) + 1 /\ Len(ps) \in Nat
         /\ \A i \in 1..Len(ps) : Append(ps, p)[i] = ps[i]
         /\ LastOf(Append(ps, p)) = p
BY DEF LastOf

LEMMA KeepsTransitive ==
  ASSUME NEW ps, NEW qs, NEW rs, Keeps(ps, qs), Keeps(qs, rs)
  PROVE  Keeps(ps, rs)
BY DEF Keeps
-----------------------------------------------------------------------------
(* Every record before the last is told, and the last one when its session *)
(* is left.                                                                *)
Recorded ==
  /\ \A i \in 1..Len(probes) : i # Len(probes) => Told(probes[i])
  /\ Len(probes) > 0 => Plain(Current)
  /\ pc \in {"quit", "bye", "done"} /\ Len(probes) > 0 => Told(Current)

(* The made-up address was rejected at h in attempt n.                     *)
Rejected(ps, h, n) ==
  \E i \in 1..Len(ps) :
    /\ ps[i].host = h /\ ps[i].attempt = n
    /\ ps[i].stage = "CatchAll" /\ ps[i].response # NoReply
    /\ VerdictOf("CatchAll", ps[i].response) = "undeliverable"

(* The recipient's turn comes after that, or where the rule forbids it.    *)
Screened ==
  /\ Active /\ (pc = "quit" \/ Current.stage = "Recipient") =>
       host \in Skip \/ Rejected(probes, host, Attempt)
  /\ Conversed /\ result \in Finding /\ Current.stage = "Recipient" =>
       Current.host \in Skip \/ Rejected(probes, Current.host, Current.attempt)

(* Hosts that were left had all their attempts.                            *)
Tried(ps, h) == \E i \in 1..Len(ps) : ps[i].host = h /\ ps[i].attempt = Attempts

(* A host that was left had them, and so had the last one of a check that  *)
(* ends with an error it cannot name; it ends with one or a finding.       *)
Exhausted ==
  /\ \A h \in 1..(host - 1) : Tried(probes, h)
  /\ pc = "done" /\ result \in Error /\ ~result.described => Tried(probes, host)
  /\ pc = "done" => result \in Finding \cup Error

RecordInv == Recorded /\ Screened /\ Exhausted

LEMMA KeepsFacts ==
  ASSUME NEW ps, NEW qs, Keeps(ps, qs)
  PROVE  /\ (\A i \in 1..Len(ps) : i # Len(ps) => Told(ps[i])) =>
              \A i \in 1..Len(qs) : i # Len(qs) => Told(qs[i])
         /\ \A h : Tried(ps, h) => Tried(qs, h)
         /\ LastOf(ps).stage = "Recipient" =>
              \A h, n : Rejected(ps, h, n) => Rejected(qs, h, n)
<1>1. \A i \in 1..Len(ps) : qs[i].host = ps[i].host /\ qs[i].attempt = ps[i].attempt
  BY DEF Keeps, LastOf
<1>2. \A h : Tried(ps, h) => Tried(qs, h)
  BY <1>1 DEF Tried, Keeps
<1>3. ASSUME LastOf(ps).stage = "Recipient", NEW h, NEW n, Rejected(ps, h, n)
      PROVE  Rejected(qs, h, n)
  <2>1. PICK i \in 1..Len(ps) :
          /\ ps[i].host = h /\ ps[i].attempt = n
          /\ ps[i].stage = "CatchAll" /\ ps[i].response # NoReply
          /\ VerdictOf("CatchAll", ps[i].response) = "undeliverable"
    BY <1>3 DEF Rejected
  <2>2. i # Len(ps)
    BY <1>3, <2>1 DEF LastOf
  <2>3. qs[i] = ps[i] /\ i \in 1..Len(qs)
    BY <2>2 DEF Keeps
  <2> QED BY <2>1, <2>3 DEF Rejected
<1> QED BY <1>2, <1>3 DEF Keeps

LEMMA AppendFollows ==
  ASSUME NEW ps \in Seq(ProbeRecord), NEW p,
         \A i \in 1..Len(ps) : i # Len(ps) => Told(ps[i]),
         Len(ps) > 0 => Told(LastOf(ps))
  PROVE  LET qs == Append(ps, p) IN
         /\ \A i \in 1..Len(qs) : i # Len(qs) => Told(qs[i])
         /\ \A h : Tried(ps, h) => Tried(qs, h)
         /\ \A h, n : Rejected(ps, h, n) => Rejected(qs, h, n)
         /\ LastOf(qs) = p /\ Len(qs) > 0
<1> DEFINE qs == Append(ps, p)
<1>1. /\ Len(qs) = Len(ps) + 1 /\ Len(ps) \in Nat /\ LastOf(qs) = p
      /\ \A i \in 1..Len(ps) : qs[i] = ps[i]
  BY AppendKeeps
<1> HIDE DEF qs
<1>2. \A i \in 1..Len(qs) : i # Len(qs) => Told(qs[i])
  BY <1>1 DEF LastOf
<1>3. 1..Len(ps) \subseteq 1..Len(qs) /\ Len(qs) > 0
  BY <1>1
<1>4. \A h : Tried(ps, h) => Tried(qs, h)
  BY <1>1, <1>3 DEF Tried
<1>5. \A h, n : Rejected(ps, h, n) => Rejected(qs, h, n)
  BY <1>1, <1>3 DEF Rejected
<1> QED BY <1>1, <1>2, <1>3, <1>4, <1>5 DEF qs

LEMMA DuePlain ==
  ASSUME NEW h, NEW n, NEW c, NEW s
  PROVE  /\ Plain(Due(h, n, c, s)) /\ Due(h, n, c, s).host = h
         /\ Due(h, n, c, s).attempt = n /\ Due(h, n, c, s).stage = s
BY DEF Due, Plain
-----------------------------------------------------------------------------
LEMMA BeginRecords ==
  ASSUME NEW h \in 1..LastHost, NEW n, NEW qs \in Seq(ProbeRecord), Begin(h, n, qs),
         \A i \in 1..Len(qs) : i # Len(qs) => Told(qs[i]),
         Len(qs) > 0 => Told(LastOf(qs)),
         \A g \in 1..(h - 1) : Tried(qs, g)
  PROVE  RecordInv'
<1> DEFINE p == Due(h, Retries + 1 - n, 1, FirstStage(h))
<1>1. /\ pc' = "dial" /\ host' = h /\ probes' = Append(qs, p)
  BY DEF Begin
<1>2. Plain(p) /\ p.stage = FirstStage(h)
  BY DuePlain
<1> HIDE DEF p
<1>3. /\ \A i \in 1..Len(probes') : i # Len(probes') => Told(probes'[i])
      /\ \A g : Tried(qs, g) => Tried(probes', g)
      /\ LastOf(probes') = p
  BY <1>1, AppendFollows
<1>4. Current' = p
  BY <1>3 DEF Current, LastOf
<1>5. Recorded'
  BY <1>1, <1>2, <1>3, <1>4 DEF Recorded
<1>6. Screened'
  BY <1>1, <1>2, <1>4 DEF Screened, FirstStage, Conversed
<1>7. Exhausted'
  BY <1>1, <1>3 DEF Exhausted
<1> QED BY <1>5, <1>6, <1>7 DEF RecordInv

LEMMA FailRecords ==
  ASSUME IInv, RecordInv, Active, NEW e \in Error, NEW ps,
         Keeps(probes, ps), Plain(LastOf(ps)), Fail(e, ps)
  PROVE  RecordInv'
<1> DEFINE qs == Explained(ps)
           backup == ~MayRetry(e) /\ host < LastHost /\ ~Spoken(qs)
                       /\ HostUnreachable(e)
<1>1. /\ ps \in Seq(ProbeRecord) /\ Len(ps) > 0 /\ LastOf(ps).attempt = Attempt
      /\ LastOf(ps).host = host
  BY ActiveFacts DEF Keeps, LastOf, Current
<1>2. Keeps(ps, qs) /\ Told(LastOf(qs))
  BY <1>1, ExplainedKeeps
<1>3. /\ \/ MayRetry(e) /\ Begin(host, count - 1, qs)
         \/ backup /\ Begin(host + 1, Retries, qs)
         \/ /\ ~MayRetry(e) /\ ~backup
            /\ pc' = "done" /\ probes' = qs /\ result' = e /\ host' = host
  BY DEF Fail
<1> HIDE DEF qs
<1>4. Keeps(probes, qs) /\ qs \in Seq(ProbeRecord) /\ Len(qs) = Len(probes) /\ Len(qs) > 0
  BY <1>2, KeepsTransitive DEF Keeps
<1>5. /\ \A i \in 1..Len(qs) : i # Len(qs) => Told(qs[i])
      /\ \A h : Tried(probes, h) => Tried(qs, h)
  BY <1>4, KeepsFacts DEF RecordInv, Recorded
<1>6. /\ host \in 1..LastHost /\ count \in 0..Retries /\ (count = 0 => Retries = 0)
      /\ \A h \in 1..(host - 1) : Tried(qs, h)
  BY <1>5 DEF IInv, TypeOK, Stepping, RecordInv, Exhausted
<1>7. ASSUME ~MayRetry(e), ~e.described PROVE Tried(qs, host)
  <2>1. count <= 1 /\ Retries \in Nat
    BY <1>6, <1>7, ConstantFacts DEF MayRetry
  <2>2. Attempt = Attempts
    BY <1>6, <2>1 DEF Attempt, Attempts
  <2>3. Len(qs) \in 1..Len(qs) /\ LastOf(qs).host = host /\ LastOf(qs).attempt = Attempt
    BY <1>1, <1>2, <1>4 DEF Keeps
  <2> QED BY <2>2, <2>3 DEF Tried, LastOf
<1>8. CASE MayRetry(e) /\ Begin(host, count - 1, qs)
  BY <1>2, <1>4, <1>5, <1>6, <1>8, BeginRecords
<1>9. CASE backup /\ Begin(host + 1, Retries, qs)
  <2>1. host + 1 \in 1..LastHost /\ (host + 1) - 1 = host
    BY <1>6, <1>9, ConstantFacts
  <2>2. \A h \in 1..host : Tried(qs, h)
    <3>1. Tried(qs, host)
      BY <1>7, <1>9 DEF HostUnreachable
    <3> QED BY <1>6, <3>1, ConstantFacts
  <2> QED BY <1>2, <1>4, <1>5, <1>9, <2>1, <2>2, BeginRecords
<1>10. CASE /\ ~MayRetry(e) /\ ~backup
            /\ pc' = "done" /\ probes' = qs /\ result' = e /\ host' = host
  <2>1. Recorded'
    BY <1>2, <1>5, <1>10 DEF Recorded, Current, LastOf, Told, Plain
  <2>2. Screened'
    BY <1>10, FindingsAreNoErrors DEF Screened, Active
  <2>3. Exhausted'
    BY <1>6, <1>7, <1>10 DEF Exhausted
  <2> QED BY <2>1, <2>2, <2>3 DEF RecordInv
<1> QED BY <1>3, <1>8, <1>9, <1>10

(* A reply that ends a session: the recipient's, or the last one.          *)
LEMMA AnsweringRecords ==
  ASSUME IInv, RecordInv, NEW r \in Replies, pc = "rcpt",
         CatchAllAccepted(r) \/ RecipientAnswered(r) \/ RecipientInterrupted(r)
  PROVE  RecordInv'
<1>1. /\ probes' = Answered(r) /\ pc' \in {"quit", "bye"}
      /\ UNCHANGED <<host, count, result, cached>>
      /\ Current.stage = "CatchAll" => pc' = "bye"
  BY DEF CatchAllAccepted, RecipientAnswered, RecipientInterrupted
<1>2. TypeOK /\ Active /\ Len(probes) > 0 /\ Current.stage \in Stage
  BY ActiveFacts DEF Active, IInv
<1>3. Keeps(probes, probes') /\ Told(LastOf(probes'))
  BY <1>1, <1>2, AnsweredKeeps
<1>4. /\ \A i \in 1..Len(probes') : i # Len(probes') => Told(probes'[i])
      /\ \A h : Tried(probes, h) => Tried(probes', h)
      /\ LastOf(probes).stage = "Recipient" =>
           \A h, n : Rejected(probes, h, n) => Rejected(probes', h, n)
  BY <1>3, KeepsFacts DEF RecordInv, Recorded
<1>5. Current' = LastOf(probes') /\ Current = LastOf(probes) /\ Attempt' = Attempt
  BY <1>1 DEF Current, LastOf, Attempt
<1>6. Recorded'
  BY <1>3, <1>4, <1>5 DEF Recorded, Told, Plain
<1>7. Screened'
  <2>1. Current'.stage = Current.stage
    BY <1>3, <1>5 DEF Keeps
  <2> QED BY <1>1, <1>2, <1>4, <1>5, <2>1 DEF RecordInv, Screened, Conversed, Stage
<1>8. Exhausted'
  BY <1>1, <1>4 DEF RecordInv, Exhausted
<1> QED BY <1>6, <1>7, <1>8 DEF RecordInv

(* The rejection of the made-up address is what the recipient needs.       *)
LEMMA RejectingRecords ==
  ASSUME IInv, RecordInv, NEW r \in Replies, CatchAllRejected(r)
  PROVE  RecordInv'
<1> DEFINE qs == Answered(r)
           p == Due(host, Attempt, conn, "Recipient")
<1>1. /\ pc = "rcpt" /\ Current.stage = "CatchAll"
      /\ VerdictOf("CatchAll", r) = "undeliverable"
      /\ \/ pc' = "quit" /\ probes' = qs
         \/ pc' = pc /\ probes' = Append(qs, p)
      /\ UNCHANGED <<host, count, result, cached>>
  BY DEF CatchAllRejected
<1>2. Plain(p)
  BY DuePlain
<1>3. TypeOK /\ Active /\ Len(probes) > 0
  BY <1>1, ActiveFacts DEF Active, IInv
<1>4. HasResponse(r) /\ r # NoReply
  BY <1>1, VerdictFacts, ReplyAssumption DEF Stage
<1>5. Keeps(probes, qs) /\ Told(LastOf(qs)) /\ LastOf(qs).response = r
  BY <1>3, <1>4, AnsweredKeeps
<1> HIDE DEF qs, p
<1>6. /\ qs \in Seq(ProbeRecord) /\ Len(qs) > 0
      /\ \A i \in 1..Len(qs) : i # Len(qs) => Told(qs[i])
      /\ \A h : Tried(probes, h) => Tried(qs, h)
  BY <1>5, KeepsFacts DEF Keeps, RecordInv, Recorded
<1>7. Rejected(qs, host, Attempt)
  <2>1. LastOf(qs).host = host /\ LastOf(qs).attempt = Attempt
          /\ LastOf(qs).stage = "CatchAll"
    BY <1>1, <1>3, <1>5, ActiveFacts DEF Keeps, LastOf, Current
  <2>2. Len(qs) \in 1..Len(qs)
    BY <1>6
  <2> QED BY <1>1, <1>4, <1>5, <2>1, <2>2 DEF Rejected, LastOf
<1>8. /\ \A i \in 1..Len(probes') : i # Len(probes') => Told(probes'[i])
      /\ \A h : Tried(qs, h) => Tried(probes', h)
      /\ Rejected(probes', host, Attempt)
      /\ Plain(LastOf(probes')) /\ (pc' = "quit" => Told(LastOf(probes')))
  <2>1. Told(LastOf(qs)) => Plain(LastOf(qs))
    BY DEF Told, Plain
  <2>2. CASE pc' = "quit" /\ probes' = qs
    BY <1>5, <1>6, <1>7, <2>1, <2>2
  <2>3. CASE pc' = pc /\ probes' = Append(qs, p)
    BY <1>1, <1>2, <1>5, <1>6, <1>7, <2>3, AppendFollows
  <2> QED BY <1>1, <2>2, <2>3
<1>9. Current' = LastOf(probes') /\ Attempt' = Attempt
  BY <1>1 DEF Current, LastOf, Attempt
<1>10. Recorded'
  BY <1>1, <1>8, <1>9 DEF Recorded
<1>11. Screened' /\ Exhausted'
  BY <1>1, <1>6, <1>8, <1>9 DEF RecordInv, Screened, Exhausted, Conversed
<1> QED BY <1>10, <1>11 DEF RecordInv

LEMMA ReconnectRecords ==
  ASSUME IInv, RecordInv, Reconnect
  PROVE  RecordInv'
<1> DEFINE p == Due(host, Attempt, conn + 1, "Recipient")
<1>1. /\ pc = "quit" /\ pc' = "dial" /\ probes' = Append(probes, p)
      /\ UNCHANGED <<host, count, result, cached>>
  BY DEF Reconnect
<1>2. Plain(p)
  BY DuePlain
<1> HIDE DEF p
<1>3. Active /\ Len(probes) > 0 /\ probes \in Seq(ProbeRecord)
  BY <1>1, ActiveFacts DEF Active
<1>4. /\ \A i \in 1..Len(probes) : i # Len(probes) => Told(probes[i])
      /\ Told(LastOf(probes))
  BY <1>1, <1>3 DEF RecordInv, Recorded, LastOf, Current
<1>5. /\ \A i \in 1..Len(probes') : i # Len(probes') => Told(probes'[i])
      /\ \A h : Tried(probes, h) => Tried(probes', h)
      /\ \A h, n : Rejected(probes, h, n) => Rejected(probes', h, n)
      /\ LastOf(probes') = p
  BY <1>1, <1>3, <1>4, AppendFollows
<1>6. Current' = p /\ Attempt' = Attempt
  BY <1>1, <1>5 DEF Current, LastOf, Attempt
<1>7. Recorded'
  BY <1>1, <1>2, <1>5, <1>6 DEF Recorded
<1>8. Screened' /\ Exhausted'
  BY <1>1, <1>3, <1>5, <1>6 DEF RecordInv, Screened, Exhausted, Conversed
<1> QED BY <1>7, <1>8 DEF RecordInv

LEMMA QuietRecords ==
  ASSUME IInv, RecordInv, Dial \/ Return \/ Lookup \/ UNCHANGED vars
  PROVE  RecordInv'
<1>1. CASE Dial \/ UNCHANGED vars
  <2>1. /\ UNCHANGED <<host, count, result, cached, probes>>
        /\ \/ pc' = pc
           \/ pc = "dial" /\ pc' = "rcpt"
    BY <1>1 DEF Dial, vars
  <2>2. Current' = Current /\ Attempt' = Attempt
    BY <2>1 DEF Current, Attempt
  <2> QED BY <2>1, <2>2 DEF RecordInv, Recorded, Screened, Exhausted, Active, Conversed
<1>2. CASE Return
  <2>1. /\ pc = "bye" /\ pc' = "done" /\ result' = found
        /\ UNCHANGED <<host, count, cached, probes>>
    BY <1>2 DEF Return
  <2>2. Current' = Current /\ Active
    BY <2>1 DEF Current, Active
  <2>3. Current.host = host /\ Current.attempt = Attempt /\ found \in Finding
    BY <2>1, <2>2, ActiveFacts DEF IInv, Evidence
  <2>4. Recorded'
    BY <2>1, <2>2 DEF RecordInv, Recorded
  <2>5. Screened'
    BY <2>1, <2>2, <2>3 DEF RecordInv, Screened, Active
  <2>6. Exhausted'
    BY <2>1, <2>3, FindingsAreNoErrors DEF RecordInv, Exhausted
  <2> QED BY <2>4, <2>5, <2>6 DEF RecordInv
<1>3. CASE Lookup
  <2>1. pc = "start" /\ probes = <<>> /\ host = 1
    BY <1>3 DEF Lookup, IInv, Stepping
  <2>2. CASE Begin(1, Retries, <<>>)
    <3>1. 1 \in 1..LastHost /\ <<>> \in Seq(ProbeRecord) /\ Len(<<>>) = 0
      BY ConstantFacts
    <3>2. /\ \A i \in 1..Len(<<>>) : i # Len(<<>>) => Told((<<>>)[i])
          /\ \A g \in 1..(1 - 1) : Tried(<<>>, g)
          /\ ~(Len(<<>>) > 0)
      BY <3>1
    <3> QED BY <2>2, <3>1, <3>2, BeginRecords
  <2>3. CASE /\ cached' = TRUE /\ pc' = "done" /\ UNCHANGED <<host, probes>>
             /\ result' = [catchAll |-> TRUE, verdict |-> "deliverable"]
    <3>1. result' \in Finding
      BY <2>3 DEF Finding, Verdict
    <3>2. result' \notin Error
      BY <3>1, FindingsAreNoErrors
    <3> QED BY <2>1, <2>3, <3>1, <3>2
         DEF RecordInv, Recorded, Screened, Exhausted, Active, Conversed
  <2> QED BY <1>3, <2>2, <2>3 DEF Lookup
<1> QED BY <1>1, <1>2, <1>3

LEMMA FailingRecords ==
  ASSUME IInv, RecordInv, \/ \E e \in DialError : DialFails(e)
                          \/ TimeOut
                          \/ \E r \in Replies : ProbeFails(r)
  PROVE  RecordInv'
<1>1. ASSUME Active PROVE Keeps(probes, probes) /\ Plain(LastOf(probes))
  BY <1>1, ActiveFacts DEF Keeps, LastOf, RecordInv, Recorded, Current
<1>2. CASE \E e \in DialError : DialFails(e)
  <2>1. Active
    BY <1>2 DEF Active, DialFails
  <2> QED BY <1>1, <1>2, <2>1, FailRecords DEF DialFails, DialError
<1>3. CASE TimeOut
  <2>1. Active /\ [kind |-> "timeout", described |-> FALSE] \in Error
    BY <1>3 DEF Active, TimeOut, Error
  <2> QED BY <1>1, <1>3, <2>1, FailRecords DEF TimeOut
<1>4. ASSUME NEW r \in Replies, ProbeFails(r) PROVE RecordInv'
  <2>1. Active /\ TypeOK
    BY <1>4 DEF Active, ProbeFails, IInv
  <2>2. ErrorOf(r) \in Error
    <3>1. Described(r) \in BOOLEAN
      BY DEF Described
    <3> QED BY <3>1 DEF ErrorOf, Error
  <2>3. Keeps(probes, Answered(r)) /\ Told(LastOf(Answered(r)))
    BY <2>1, ActiveFacts, AnsweredKeeps
  <2>4. Plain(LastOf(Answered(r)))
    BY <2>3 DEF Told, Plain
  <2> QED BY <1>4, <2>1, <2>2, <2>3, <2>4, FailRecords DEF ProbeFails
<1> QED BY <1>2, <1>3, <1>4

LEMMA RecordsKept == Spec => []RecordInv
<1>1. Init => RecordInv
  BY FindingsAreNoErrors
     DEF Init, RecordInv, Recorded, Screened, Exhausted, Active, Conversed
<1>2. IInv /\ RecordInv /\ [Next]_vars => RecordInv'
  <2>1. ASSUME IInv, RecordInv, NEW r \in Replies,
               \/ CatchAllAccepted(r) \/ RecipientAnswered(r)
               \/ RecipientInterrupted(r)
        PROVE  RecordInv'
    BY <2>1, AnsweringRecords
       DEF CatchAllAccepted, RecipientAnswered, RecipientInterrupted
  <2> QED BY <2>1, QuietRecords, FailingRecords, ReconnectRecords, RejectingRecords DEF Next
<1> QED BY <1>1, <1>2, Invariance, PTL DEF Spec

(* Whatever times out, breaks off or is retried, every probe of a finished *)
(* check has its reply or its error (check_smtp_with_retry).               *)
THEOREM ProbesAreExplained == Spec => []ProbesExplained
<1>1. IInv /\ RecordInv => ProbesExplained
  <2> SUFFICES ASSUME IInv, RecordInv, pc = "done", NEW i \in 1..Len(probes)
               PROVE  Told(probes[i])
    BY DEF ProbesExplained, Told
  <2>1. Len(probes) \in Nat
    BY DEF IInv, TypeOK
  <2> QED BY <2>1 DEF RecordInv, Recorded, Current
<1> QED BY <1>1, Invariance, RecordsKept, PTL

(* "Safe" takes the rejection of a made-up address in the same attempt, or *)
(* the rule that forbids asking for one (create_smtp_future).              *)
THEOREM SafeIsProbed == Spec => []SafeMeansProbed
<1>1. ASSUME IInv, RecordInv, Conversed, Reachable(FALSE, result) = "safe"
      PROVE  Current.host \in Skip \/ Rejected(probes, Current.host, Current.attempt)
  <2>1. result \notin Error
    BY <1>1, FindingsAreNoErrors DEF Reachable
  <2>2. result \in Finding
    BY <1>1, <2>1 DEF RecordInv, Exhausted, Conversed
  <2>3. ~result.catchAll
    <3>1. CalculateReachable({}, SmtpDetails(result)) = "safe"
      BY <1>1, <2>1 DEF Reachable
    <3>2. "is_catch_all" \notin SmtpDetails(result)
      BY <3>1 DEF CalculateReachable
    <3>3. result.catchAll => "is_catch_all" \in SmtpDetails(result)
      BY DEF SmtpDetails
    <3> QED BY <3>2, <3>3
  <2>4. Current \in ProbeRecord
    BY <1>1 DEF IInv, TypeOK, Stepping, Conversed, Current
  <2>5. Current.stage = "Recipient"
    BY <1>1, <2>2, <2>3, <2>4 DEF IInv, Evidence, Supports, ProbeRecord, Stage
  <2> QED BY <1>1, <2>2, <2>5 DEF RecordInv, Screened
<1>2. IInv /\ RecordInv => SafeMeansProbed
  BY <1>1 DEF SafeMeansProbed, Rejected
<1> QED BY <1>2, Invariance, RecordsKept, PTL

(* An error that cannot be named had all attempts at its host, and every   *)
(* host before it had them too (check_smtp, check_smtp_with_retry).        *)
THEOREM RetriesAreExhausted == Spec => []RetriesExhausted
<1>1. IInv /\ RecordInv => RetriesExhausted
  <2> SUFFICES ASSUME IInv, RecordInv, pc = "done", NEW h \in 1..host,
                      h < host \/ (result \in Error /\ ~result.described)
               PROVE  Tried(probes, h)
    BY DEF RetriesExhausted, Tried
  <2>1. host \in Nat
    BY ConstantFacts DEF IInv, TypeOK
  <2> QED BY <2>1 DEF RecordInv, Exhausted
<1> QED BY <1>1, Invariance, RecordsKept, PTL
-----------------------------------------------------------------------------
(* How long a check can take                                               *)

(* How far the present attempt has come: its connections one after the     *)
(* other, and each from the greeting to QUIT.                              *)
Place == IF pc = "dial" THEN 0
         ELSE IF pc = "rcpt" THEN IF Current.stage = "CatchAll" THEN 1 ELSE 2
         ELSE IF pc = "quit" THEN 3 ELSE 4

Position == 5 * conn + Place

(* A step ends the check, goes on to a later host, uses up an attempt at   *)
(* this one, or comes further within the attempt, which has 15 positions.  *)
Advances ==
  \/ pc = "start" /\ pc' # "start"
  \/ pc # "done" /\ pc' = "done"
  \/ /\ Active /\ Active'
     /\ \/ host' > host /\ host' <= LastHost
        \/ host' = host /\ count' < count /\ count' >= 0
        \/ /\ host' = host /\ count' = count
           /\ Position' > Position /\ Position' <= 19

LEMMA FailAdvances ==
  ASSUME IInv, Active, NEW e \in Error, NEW ps, Fail(e, ps)
  PROVE  Advances
<1>1. /\ host \in 1..LastHost /\ count \in 0..Retries /\ LastHost \in Nat
      /\ Retries \in Nat
  BY ConstantFacts DEF IInv, TypeOK
<1>2. CASE MayRetry(e) /\ Begin(host, count - 1, Explained(ps))
  BY <1>1, <1>2 DEF Advances, Active, Begin, MayRetry
<1>3. CASE host < LastHost /\ Begin(host + 1, Retries, Explained(ps))
  BY <1>1, <1>3 DEF Advances, Active, Begin
<1>4. CASE pc' = "done"
  BY <1>4 DEF Advances, Active
<1> QED BY <1>2, <1>3, <1>4 DEF Fail

(* Within an attempt the position rises.                                   *)
LEMMA RiseAdvances ==
  ASSUME IInv, IInv', Active, Active', host' = host, count' = count,
         Position' > Position
  PROVE  Advances
<1>1. conn' \in 1..3
  BY DEF IInv, TypeOK
<1>2. Place' \in 0..4
  BY DEF Place
<1>3. Position' <= 19
  <2>1. Position' = 5 * conn' + Place'
    BY DEF Position
  <2>2. \A n \in 1..3, k \in 0..4 : 5 * n + k <= 19
    OBVIOUS
  <2> QED BY <1>1, <1>2, <2>1, <2>2
<1> QED BY <1>3 DEF Advances

LEMMA StepAdvances ==
  ASSUME IInv, IInv', Next
  PROVE  Advances
<1> USE DEF Active
<1>1. conn \in 1..3
  BY DEF IInv, TypeOK
<1>2. CASE Lookup
  BY <1>2 DEF Lookup, Begin, Advances
<1>3. CASE Dial
  <2>1. pc = "dial" /\ pc' = "rcpt" /\ UNCHANGED <<host, count, conn>>
    BY <1>3 DEF Dial
  <2>2. Position' > Position
    BY <1>1, <2>1 DEF Position, Place
  <2> QED BY <2>1, <2>2, RiseAdvances
<1>4. CASE Reconnect
  <2>1. /\ pc = "quit" /\ pc' = "dial" /\ conn' = conn + 1
        /\ UNCHANGED <<host, count>>
    BY <1>4 DEF Reconnect
  <2>2. Position' > Position
    BY <1>1, <2>1 DEF Position, Place
  <2> QED BY <2>1, <2>2, RiseAdvances
<1>5. CASE Return
  BY <1>5 DEF Return, Advances
<1>6. CASE TimeOut
  BY <1>6, FailAdvances DEF TimeOut, Error
<1>7. ASSUME NEW e \in DialError, DialFails(e) PROVE Advances
  BY <1>7, FailAdvances DEF DialFails, DialError
<1>8. ASSUME NEW r \in Replies, ProbeFails(r) PROVE Advances
  <2>1. ErrorOf(r) \in Error
    <3>1. Described(r) \in BOOLEAN
      BY DEF Described
    <3> QED BY <3>1 DEF ErrorOf, Error
  <2> QED BY <1>8, <2>1, FailAdvances DEF ProbeFails
<1>9. ASSUME NEW r \in Replies,
             \/ CatchAllAccepted(r) \/ RecipientAnswered(r) \/ RecipientInterrupted(r)
      PROVE  Advances
  <2>1. /\ pc = "rcpt" /\ pc' \in {"quit", "bye"} /\ UNCHANGED <<host, count, conn>>
    BY <1>9 DEF CatchAllAccepted, RecipientAnswered, RecipientInterrupted
  <2>2. Position' > Position
    BY <1>1, <2>1 DEF Position, Place
  <2> QED BY <2>1, <2>2, RiseAdvances
<1>10. ASSUME NEW r \in Replies, CatchAllRejected(r) PROVE Advances
  <2>1. /\ pc = "rcpt" /\ Current.stage = "CatchAll" /\ UNCHANGED <<host, count, conn>>
    BY <1>10 DEF CatchAllRejected
  <2>2. CASE pc' = "quit"
    <3>1. Position' > Position
      BY <1>1, <2>1, <2>2 DEF Position, Place
    <3> QED BY <2>1, <2>2, <3>1, RiseAdvances
  <2>3. CASE /\ UNCHANGED pc
             /\ probes' = Append(Answered(r), Due(host, Attempt, conn, "Recipient"))
    <3>1. Answered(r) \in Seq(ProbeRecord)
      BY <2>1, AnsweringFacts
    <3>2. Current' = Due(host, Attempt, conn, "Recipient")
      <4> DEFINE qs == Answered(r)
                 p == Due(host, Attempt, conn, "Recipient")
      <4>1. qs \in Seq(ProbeRecord) /\ probes' = Append(qs, p)
        BY <2>3, <3>1
      <4> HIDE DEF qs, p
      <4>2. Append(qs, p)[Len(Append(qs, p))] = p
        BY <4>1
      <4> QED BY <4>1, <4>2 DEF Current, p
    <3>3. Current'.stage = "Recipient"
      BY <3>2 DEF Due
    <3>4. Position' > Position
      BY <1>1, <2>1, <2>3, <3>3 DEF Position, Place
    <3> QED BY <2>1, <2>3, <3>4, RiseAdvances
  <2> QED BY <1>10, <2>2, <2>3 DEF CatchAllRejected
<1> QED BY <1>2, <1>3, <1>4, <1>5, <1>6, <1>7, <1>8, <1>9, <1>10 DEF Next

(* Whatever the servers answer, however often attempts fail and hosts are  *)
(* changed: no step leads back.  With hosts, attempts and positions all    *)
(* bounded, a check has finitely many steps (check_smtp and the recursion  *)
(* of check_smtp_with_retry).                                              *)
THEOREM ChecksOnlyAdvance == Spec => [][Advances]_vars
<1>1. IInv /\ IInv' /\ [Next]_vars => [Advances]_vars
  BY StepAdvances
<1> QED BY <1>1, Invariance, PTL DEF Spec
-----------------------------------------------------------------------------
(* What its caller sees of a check                                         *)

(* A finding is reported by the details that stand for it, and by no other.*)
LEMMA DetailsFacts ==
  ASSUME NEW f \in Finding, f.catchAll => f.verdict = "deliverable"
  PROVE  /\ SmtpDetails(f) \in Conv!Found
         /\ "is_catch_all" \in SmtpDetails(f) <=> f.catchAll
         /\ f.catchAll => SmtpDetails(f) = Conv!CatchAllDetails
<1>1. f.catchAll \in BOOLEAN /\ f.verdict \in {"deliverable", "undeliverable", "disabled", "full"}
  BY DEF Finding, Verdict
<1>2. CASE f.catchAll
  <2>1. SmtpDetails(f) = {"can_connect_smtp", "is_catch_all", "is_deliverable"}
    BY <1>2 DEF SmtpDetails
  <2> QED BY <1>2, <2>1 DEF Conv!Found, Conv!CatchAllDetails
<1>3. CASE ~f.catchAll
  <2> DEFINE more == CASE f.verdict = "deliverable" -> {"is_deliverable"}
                       [] f.verdict = "disabled" -> {"is_disabled"}
                       [] f.verdict = "full" -> {"has_full_inbox"}
                       [] f.verdict = "undeliverable" -> {}
  <2>1. more \in {{}, {"is_deliverable"}, {"is_disabled"}, {"has_full_inbox"}}
    BY <1>1
  <2>2. SmtpDetails(f) = {"can_connect_smtp"} \cup more
    BY <1>3 DEF SmtpDetails
  <2> HIDE DEF more
  <2>3. "is_catch_all" \notin more
    BY <2>1
  <2>4. SmtpDetails(f) \in Conv!Found
    BY <2>1, <2>2 DEF Conv!Found
  <2>5. "is_catch_all" \notin SmtpDetails(f)
    BY <2>2, <2>3
  <2> QED BY <1>3, <2>4, <2>5
<1> QED BY <1>1, <1>2, <1>3

LEMMA OutcomeFacts ==
  /\ result = NoResult => Outcome = Conv!Pending
  /\ result \in Error => Outcome = Conv!Failure
  /\ result \in Finding => Outcome = Conv!Details(SmtpDetails(result))
BY FindingsAreNoErrors
   DEF Outcome, Conv!Pending, Conv!Failure, Conv!Details

(* Before it is done a check has returned nothing and remembered nothing.  *)
LEMMA SilentFacts ==
  ASSUME IInv, pc # "done"
  PROVE  result = NoResult /\ remembered = FALSE /\ Outcome = Conv!Pending
<1>1. result = NoResult /\ remembered = FALSE
  BY DEF IInv, TypeOK, Evidence, Conversed
<1> QED BY <1>1, OutcomeFacts

LEMMA SilentStep ==
  ASSUME result' = result, remembered' = remembered
  PROVE  UNCHANGED Conv!vars
BY DEF Conv!vars, Outcome

LEMMA FailingStep ==
  ASSUME IInv, Active, NEW e \in Error, NEW ps, Fail(e, ps)
  PROVE  Conv!Fail \/ UNCHANGED Conv!vars
<1>1. remembered' = remembered /\ (result' = result \/ result' = e)
  BY DEF Fail, Begin
<1>2. CASE result' = e
  <2>1. Outcome' = Conv!Failure
    BY <1>2, OutcomeFacts, FindingsAreNoErrors DEF Outcome, Conv!Failure
  <2>2. Outcome = Conv!Pending
    BY SilentFacts DEF Active
  <2> QED BY <1>1, <2>1, <2>2 DEF Conv!Fail
<1> QED BY <1>1, <1>2, SilentStep

LEMMA LookupStep ==
  ASSUME IInv, Lookup
  PROVE  Conv!Cached \/ UNCHANGED Conv!vars
<1>1. remembered' = remembered /\ Outcome = Conv!Pending
  BY SilentFacts DEF Lookup
<1> DEFINE f == [catchAll |-> TRUE, verdict |-> "deliverable"]
<1>2. CASE result' = f
  <2>1. f \in Finding /\ f.catchAll = TRUE /\ f.verdict = "deliverable"
    BY DEF Finding, Verdict
  <2> HIDE DEF f
  <2>2. SmtpDetails(f) = Conv!CatchAllDetails
    BY <2>1, DetailsFacts
  <2>3. Outcome' = Conv!Details(SmtpDetails(f))
    BY <1>2, <2>1, FindingsAreNoErrors DEF Outcome, Conv!Details
  <2> QED BY <1>1, <2>2, <2>3 DEF Conv!Cached
<1>3. CASE result' = result
  BY <1>1, <1>3, SilentStep
<1> QED BY <1>2, <1>3 DEF Lookup, Begin

LEMMA ReturnStep ==
  ASSUME IInv, Return
  PROVE  Conv!Answer
<1>1. /\ result' = found /\ remembered' = found.catchAll /\ pc = "bye"
  BY DEF Return
<1>2. found \in Finding /\ (found.catchAll => found.verdict = "deliverable")
  BY <1>1 DEF IInv, Evidence, Supports
<1>3. found.catchAll \in BOOLEAN
  BY <1>2 DEF Finding
<1>4. Outcome' = Conv!Details(SmtpDetails(found))
  BY <1>1, <1>2, FindingsAreNoErrors DEF Outcome, Conv!Details
<1>5. Outcome = Conv!Pending
  BY <1>1, SilentFacts
<1>6. remembered' = ("is_catch_all" \in SmtpDetails(found))
  BY <1>1, <1>2, <1>3, DetailsFacts
<1>7. SmtpDetails(found) \in Conv!Found
  BY <1>2, DetailsFacts
<1> QED BY <1>4, <1>5, <1>6, <1>7 DEF Conv!Answer

(* Through any number of hosts, attempts and sessions a check reports once,*)
(* never takes it back, and enters the domain in the cache with the answer *)
(* that makes it a catch-all, and with no other: what CheckEmail takes for *)
(* one step is what check_smtp does.                                       *)
THEOREM OneReportPerCheck == Spec => Conv!Spec
<1>1. Init => Conv!Init
  BY OutcomeFacts DEF Init, Conv!Init
<1>2. IInv /\ [Next]_vars => [Conv!Next]_(Conv!vars)
  <2> SUFFICES ASSUME IInv, Next \/ UNCHANGED vars
               PROVE  Conv!Next \/ UNCHANGED Conv!vars
    OBVIOUS
  <2> USE DEF Conv!Next
  <2>1. CASE Lookup
    BY <2>1, LookupStep
  <2>2. CASE Return
    BY <2>2, ReturnStep
  <2>3. CASE Dial \/ Reconnect \/ UNCHANGED vars
    BY <2>3, SilentStep DEF Dial, Reconnect, vars
  <2>4. CASE TimeOut
    BY <2>4, FailingStep DEF TimeOut, Error, Active
  <2>5. ASSUME NEW e \in DialError, DialFails(e) PROVE Conv!Fail \/ UNCHANGED Conv!vars
    BY <2>5, FailingStep DEF DialFails, DialError, Active
  <2>6. ASSUME NEW r \in Replies, ProbeFails(r) PROVE Conv!Fail \/ UNCHANGED Conv!vars
    <3>1. ErrorOf(r) \in Error
      <4>1. Described(r) \in BOOLEAN
        BY DEF Described
      <4> QED BY <4>1 DEF ErrorOf, Error
    <3> QED BY <2>6, <3>1, FailingStep DEF ProbeFails, Active
  <2>7. ASSUME NEW r \in Replies,
               \/ CatchAllAccepted(r) \/ CatchAllRejected(r)
               \/ RecipientAnswered(r) \/ RecipientInterrupted(r)
        PROVE  UNCHANGED Conv!vars
    BY <2>7, SilentStep
       DEF CatchAllAccepted, CatchAllRejected, RecipientAnswered, RecipientInterrupted
  <2> QED BY <2>1, <2>2, <2>3, <2>4, <2>5, <2>6, <2>7 DEF Next
<1> QED BY <1>1, <1>2, Invariance, PTL DEF Spec, Conv!Spec
-----------------------------------------------------------------------------
(* The two classifications                                                 *)

(* What blames our sender is no verdict, of either probe.                  *)
LEMMA SenderBlamed ==
  ASSUME NEW r \in Reply, BlamesSender(r)
  PROVE  \A s \in Stage : VerdictOf(s, r) = "error"
<1>1. r \in Refusal
  BY DEF Reply, Other, BlamesSender, Says
<1>2. r.kind \notin {"accepted", "unclear"}
  BY <1>1 DEF Refusal
<1>3. Dismissed(r)
  BY DEF Dismissed
<1> QED BY <1>2, <1>3 DEF VerdictOf, CatchAllVerdict, RecipientVerdict

(* Nor is what blames our IP's reputation, if it says nothing else: no     *)
(* code but a leading 5.1.1 is believed, and that one is left out.         *)
LEMMA IpBlamed ==
  ASSUME NEW r \in Reply, BlamesIpAlone(r)
  PROVE  \A s \in Stage : VerdictOf(s, r) = "error"
<1>1. r \in Refusal
  BY DEF Reply, Other, BlamesIpAlone, MentionsIpReputation, Says
<1>2. r.kind \notin {"accepted", "unclear"}
  BY <1>1 DEF Refusal
<1>3. Coded(r) = "none"
  BY DEF Coded, BlamesIpAlone
<1>4. /\ ~IsUnverifiedRecipient(r) /\ ~IsFullInbox(r) /\ ~IsDisabledAccount(r)
      /\ ~(Permanent(r) /\ IsInvalid(r))
  BY DEF BlamesIpAlone, IsUnverifiedRecipient, IsFullInbox, IsDisabledAccount, IsInvalid,
         Permanent, Says
<1> QED BY <1>2, <1>3, <1>4
    DEF VerdictOf, CatchAllVerdict, RecipientVerdict, VerdictByWording

(* What rejects a made-up address is no acceptance of a recipient, and     *)
(* leaves nothing open.                                                    *)
LEMMA RejectionHoldsForBoth ==
  ASSUME NEW r \in Reply, VerdictOf("CatchAll", r) = "undeliverable"
  PROVE  VerdictOf("Recipient", r) \in {"undeliverable", "disabled", "full"}
<1>1. r.kind \notin {"accepted", "unclear"} /\ CatchAllVerdict(r) = "undeliverable"
  BY DEF VerdictOf
<1>2. /\ ~Dismissed(r)
      /\ IsUnverifiedRecipient(r) \/ (Permanent(r) /\ (Coded(r) = "none" => IsInvalid(r)))
  BY <1>1 DEF CatchAllVerdict
<1>3. Coded(r) \in {"undeliverable", "disabled", "full", "none"}
  BY DEF Coded, MailboxStatus
<1>4. RecipientVerdict(r) \in {"undeliverable", "disabled", "full"}
  BY <1>2, <1>3 DEF RecipientVerdict, VerdictByWording
<1> QED BY <1>1, <1>4 DEF VerdictOf

(* The same in every conversation: no result a check returns, of any host, *)
(* attempt or stage, rests on a reply that blames our sender, or our IP    *)
(* and nothing else.                                                       *)
THEOREM NoFindingRestsOnComplaints ==
  Spec => [](Conversed /\ result \in Finding =>
               ~BlamesSender(Current.response) /\ ~BlamesIpAlone(Current.response))
<1>1. ASSUME IInv, Conversed, result \in Finding,
             BlamesSender(Current.response) \/ BlamesIpAlone(Current.response)
      PROVE  FALSE
  <2>1. Current \in ProbeRecord
    BY <1>1 DEF IInv, TypeOK, Stepping, Conversed, Current
  <2>2. Current.response \in Reply /\ Current.stage \in Stage
    BY <1>1, <2>1, ReplyAssumption DEF IInv, Evidence, Supports, ProbeRecord
  <2>3. VerdictOf(Current.stage, Current.response) = "error"
    BY <1>1, <2>2, SenderBlamed, IpBlamed
  <2> QED BY <1>1, <2>3 DEF IInv, Evidence, Supports, Finding
<1>2. IInv => (Conversed /\ result \in Finding =>
                 ~BlamesSender(Current.response) /\ ~BlamesIpAlone(Current.response))
  BY <1>1
<1> QED BY <1>2, Invariance, PTL
-----------------------------------------------------------------------------
(* The same reply given to both probes                                     *)

(* A probe that has concluded has concluded what its classification says.  *)
ProbeInv ==
  /\ reply \in Reply
  /\ verdict \in [Stage -> Verdict \cup {"pending"}]
  /\ \A s \in Stage : verdict[s] \in {"pending", VerdictOf(s, reply)}

LEMMA ProbeInvariance == ProbeSpec => []ProbeInv
<1>1. ProbeInit => ProbeInv
  BY DEF ProbeInit, ProbeInv
<1>2. ProbeInv /\ [ProbeNext]_probeVars => ProbeInv'
  <2> SUFFICES ASSUME ProbeInv, [ProbeNext]_probeVars PROVE ProbeInv'
    OBVIOUS
  <2>1. ASSUME NEW s \in Stage, Probe(s) PROVE ProbeInv'
    <3>1. reply' = reply /\ verdict' = [verdict EXCEPT ![s] = VerdictOf(s, reply)]
      BY <2>1 DEF Probe
    <3>2. VerdictOf(s, reply) \in Verdict
      BY VerdictFacts DEF ProbeInv
    <3> QED BY <3>1, <3>2 DEF ProbeInv
  <2>2. CASE UNCHANGED probeVars
    BY <2>2 DEF probeVars, ProbeInv
  <2> QED BY <2>1, <2>2 DEF ProbeNext
<1> QED BY <1>1, <1>2, PTL DEF ProbeSpec

(* Every reply that blames our sender, over all codes and wordings, and    *)
(* every one that blames our IP alone, over all codes but a leading        *)
(* permanent 5.1.1, leaves both probes without a verdict.                  *)
THEOREM ComplaintsNeverDecide == ProbeSpec => []ComplaintsDecideNothing
<1>1. ProbeInv => ComplaintsDecideNothing
  BY SenderBlamed, IpBlamed DEF ProbeInv, ComplaintsDecideNothing
<1> QED BY <1>1, ProbeInvariance, PTL

(* The probe that excludes a catch-all never draws a verdict that the      *)
(* recipient's own classification of the same reply contradicts.           *)
THEOREM ProbesAlwaysAgree == ProbeSpec => []ProbesAgree
<1>1. ProbeInv => ProbesAgree
  BY RejectionHoldsForBoth DEF ProbeInv, ProbesAgree, Negative, Stage
<1> QED BY <1>1, ProbeInvariance, PTL
=============================================================================
