---------------------------- MODULE Reachability ----------------------------
(***************************************************************************)
(* What check_email makes of the details check_smtp reports: the pure part *)
(* that a single conversation (SmtpCheck) and the pipeline around it       *)
(* (CheckEmail) have in common.  Details are the set of the flags that are *)
(* true.                                                                   *)
(***************************************************************************)

Flag == {"can_connect_smtp", "has_full_inbox", "is_catch_all",
         "is_deliverable", "is_disabled"}
Misc == {"is_disposable", "is_role_account"}

(* catch_all_details: what a check decided from the cache reports.         *)
CatchAllDetails == {"can_connect_smtp", "is_catch_all", "is_deliverable"}

(* The details a mail server may be found to stand for: a catch-all, or    *)
(* the answer of check_email_deliverability.                               *)
Found ==
  {CatchAllDetails} \cup
  {{"can_connect_smtp"} \cup flags :
     flags \in {{}, {"is_deliverable"}, {"is_disabled"}, {"has_full_inbox"}}}

(* calculate_reachable, for a conversation that had a result.              *)
CalculateReachable(misc, smtp) ==
  IF \/ "is_disabled" \in smtp
     \/ "can_connect_smtp" \notin smtp
     \/ {"is_deliverable", "has_full_inbox"} \cap smtp = {}
  THEN "invalid"
  ELSE IF misc # {} \/ {"is_catch_all", "has_full_inbox"} \cap smtp # {}
       THEN "risky" ELSE "safe"
=============================================================================
