---------------------------- MODULE Conversation ----------------------------
(***************************************************************************)
(* check_smtp as its caller sees it: once, it reports details or fails,    *)
(* and what it reports decides what becomes of the cache.  These are the   *)
(* three outcomes that CheckEmail takes for one step each (Route with a    *)
(* known domain, Converse, Fail); SmtpCheck has them after any number of   *)
(* hosts, attempts and sessions.                                           *)
(***************************************************************************)
EXTENDS Reachability

VARIABLES
  outcome,    \* what check_smtp has returned
  remembered  \* whether it entered the domain in the catch-all cache

vars == <<outcome, remembered>>

Pending == [returned |-> "nothing", details |-> {}]
Failure == [returned |-> "error", details |-> {}]
Details(flags) == [returned |-> "details", details |-> flags]

Init ==
  /\ outcome = Pending
  /\ remembered = FALSE

(* The cache has answered; it learns nothing from that.                    *)
Cached ==
  /\ outcome = Pending
  /\ outcome' = Details(CatchAllDetails)
  /\ UNCHANGED remembered

(* A server has answered; if it accepts everything, that is remembered.    *)
Answer ==
  /\ outcome = Pending
  /\ \E flags \in Found :
       /\ outcome' = Details(flags)
       /\ remembered' = ("is_catch_all" \in flags)

Fail ==
  /\ outcome = Pending
  /\ outcome' = Failure
  /\ UNCHANGED remembered

Next == Cached \/ Answer \/ Fail

Spec == Init /\ [][Next]_vars
=============================================================================
