----------------------------- MODULE TaskLedger -----------------------------
(***************************************************************************)
(* What the worker mode promises a bulk job about its tasks, without       *)
(* queues, processes or failures: an accepted task gets one result, which  *)
(* never changes, or is set aside for inspection (parked), or the broker   *)
(* refused to keep it.  A task that was parked may still get a result from *)
(* another of its copies, and one with a result may still be parked.       *)
(***************************************************************************)
CONSTANTS Bulk, Outcome, NoResult

VARIABLES
  accepted,  \* tasks the broker took over
  result,    \* the stored result of each task
  parked,    \* tasks with a message in check_email.failed
  refused    \* tasks whose republished copy the broker refused

ledger == <<accepted, result, parked, refused>>

Init ==
  /\ accepted = {}
  /\ result = [t \in Bulk |-> NoResult]
  /\ parked = {}
  /\ refused = {}

Accept(t) ==
  /\ t \notin accepted
  /\ accepted' = accepted \cup {t}
  /\ UNCHANGED <<result, parked, refused>>

Record(t, o) ==
  /\ t \in accepted
  /\ result[t] = NoResult
  /\ result' = [result EXCEPT ![t] = o]
  /\ UNCHANGED <<accepted, parked, refused>>

Park(t) ==
  /\ t \in accepted
  /\ parked' = parked \cup {t}
  /\ UNCHANGED <<accepted, result, refused>>

Refuse(t) ==
  /\ t \in accepted
  /\ refused' = refused \cup {t}
  /\ UNCHANGED <<accepted, result, parked>>

Close(t) == (\E o \in Outcome : Record(t, o)) \/ Park(t) \/ Refuse(t)

Next == \E t \in Bulk : Accept(t) \/ Close(t)

Spec == Init /\ [][Next]_ledger

Closed(t) == result[t] # NoResult \/ t \in parked \/ t \in refused

(* An accepted task does not stay open for ever.                           *)
Progress == \A t \in Bulk : t \in accepted ~> Closed(t)

FairSpec == Spec /\ Progress
=============================================================================
