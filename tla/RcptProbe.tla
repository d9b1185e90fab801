----------------------------- MODULE RcptProbe -----------------------------
(***************************************************************************)
(* A server that gives one and the same reply to the catch-all probe and   *)
(* to the recipient probe: every reply is put to both classifications of   *)
(* RcptReply, so that the two can be compared.                             *)
(***************************************************************************)
EXTENDS RcptReply

VARIABLES
  reply,   \* the server's reply
  verdict  \* what each probe concluded from it

probeVars == <<reply, verdict>>

ProbeInit ==
  /\ reply \in Reply
  /\ verdict = [s \in Stage |-> "pending"]

Probe(s) ==
  /\ verdict[s] = "pending"
  /\ verdict' = [verdict EXCEPT ![s] = VerdictOf(s, reply)]
  /\ UNCHANGED reply

ProbeNext == \E s \in Stage : Probe(s)

ProbeSpec == ProbeInit /\ [][ProbeNext]_probeVars
-----------------------------------------------------------------------------
Negative == {"undeliverable", "disabled", "full"}

(* A reply that blames our IP's reputation and has no words about the      *)
(* mailbox.  A permanent one that begins with 5.1.1 is left out: the code  *)
(* is one of the wordings that is_invalid looks for, whatever follows it.  *)
BlamesIpAlone(r) ==
  /\ MentionsIpReputation(r)
  /\ ~Says(r, {"user unknown", "recipient address rejected", "unverified address",
               "mailbox full", "mailbox disabled"})
  /\ ~(Permanent(r) /\ r.codes[1] = "5.1.1")

(* A reply about our sender is never a verdict about a recipient, whatever *)
(* codes and recipient-like wording it carries; and one about our IP is    *)
(* none on account of its status codes, with the exception that            *)
(* BlamesIpAlone makes (connect.rs:302, 305).                              *)
ComplaintsDecideNothing ==
  BlamesSender(reply) \/ BlamesIpAlone(reply) =>
    \A s \in Stage : verdict[s] \in {"pending", "error"}

(* A reply that shows the made-up address does not exist would never show  *)
(* the recipient to exist, or leave it open: where nobody exists, the      *)
(* probe that excludes a catch-all does not make the recipient look better.*)
ProbesAgree ==
  verdict["CatchAll"] = "undeliverable" =>
    verdict["Recipient"] \in Negative \cup {"pending"}
=============================================================================
