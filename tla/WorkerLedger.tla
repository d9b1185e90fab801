---------------------------- MODULE WorkerLedger ----------------------------
(***************************************************************************)
(* The worker implements the task ledger.                                  *)
(***************************************************************************)
EXTENDS Worker

CONSTANT NoResult
ASSUME ResultAssumption == NoResult \notin Outcome

accepted == {t \in Bulk : Published(t)}
result == [t \in Bulk |-> IF rows[t] = <<>> THEN NoResult ELSE Head(rows[t])]
parked == {t \in Bulk : \E m \in Msg : job[m] = t /\ at[m] = "parked"}
refused == {t \in Bulk : t \in nacked}

Ledger == INSTANCE TaskLedger

(* Every step of the broker and the processes is a step of the ledger, or  *)
(* none: a redelivery, a copy, a crash or a duplicate row never shows.     *)
LedgerSafe == Ledger!Spec

(* With the fairness of the runtime, the ledger also makes progress.       *)
LedgerProgress == Ledger!FairSpec
=============================================================================
