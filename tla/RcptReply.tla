----------------------------- MODULE RcptReply -----------------------------
(***************************************************************************)
(* What check_email_deliverability (core/src/smtp/connect.rs) concludes    *)
(* from the reply to a RCPT command.  A reply is reduced to what the       *)
(* parser looks at: its kind, the enhanced status code each line starts    *)
(* with, and which phrases occur.  One phrase stands for all the wordings  *)
(* that the same functions of parser.rs recognise.                         *)
(***************************************************************************)
EXTENDS Naturals

Stage == {"CatchAll", "Recipient"}
Verdict == {"deliverable", "undeliverable", "disabled", "full", "error"}

Code == {"none", "5.1.1", "5.1.6", "5.2.1", "4.2.2", "5.4.1", "5.7.1"}
Phrase == {"blacklist", "blocklist", "access denied", "reverse hostname",
           "sender address", "user unknown", "recipient address rejected",
           "unverified address", "in progress", "mailbox full",
           "mailbox disabled"}

(* "unclear" is a positive reply other than 250 and 251; after             *)
(* "incomplete", "broken" and "garbled" there is no reply at all.          *)
Refusal == [kind : {"transient", "permanent"},
            codes : [1..2 -> Code], words : SUBSET Phrase]
Other == [kind : {"accepted", "unclear", "incomplete", "broken", "garbled"},
          codes : [1..2 -> {"none"}], words : {{}}]
Reply == Refusal \cup Other

HasResponse(r) == r.kind \notin {"incomplete", "broken", "garbled"}
Says(r, phrases) == r.words \cap phrases # {}
-----------------------------------------------------------------------------
MentionsIpReputation(r) == Says(r, {"blacklist", "blocklist"})

SaysNoSuchMailbox(r) == Says(r, {"user unknown"}) /\ ~MentionsIpReputation(r)

BlamesSender(r) == Says(r, {"sender address"})

IsUnverifiedRecipient(r) ==
  Says(r, {"unverified address"}) /\ ~Says(r, {"in progress"})

IsFullInbox(r) == Says(r, {"mailbox full"})

IsDisabledAccount(r) == Says(r, {"mailbox disabled"})

IsInvalid(r) ==
  \/ Says(r, {"user unknown", "recipient address rejected"})
  \/ r.kind = "permanent" /\ r.codes[1] = "5.1.1"

(* get_description: the sender, the IP or its reverse DNS is named.        *)
Described(r) ==
  \/ BlamesSender(r) /\ ~MentionsIpReputation(r)
  \/ Says(r, {"blacklist", "access denied"})
  \/ Says(r, {"reverse hostname"})

EnhancedCode(r) == IF r.codes[1] # "none" THEN r.codes[1] ELSE r.codes[2]

MailboxStatus(r) ==
  IF \/ EnhancedCode(r) \in {"5.1.1", "5.1.6"}
     \/ EnhancedCode(r) = "5.4.1" /\ Says(r, {"recipient address rejected"})
  THEN "undeliverable"
  ELSE IF EnhancedCode(r) = "5.2.1" THEN "disabled"
  ELSE IF EnhancedCode(r) = "4.2.2" THEN "full"
  ELSE "none"
-----------------------------------------------------------------------------
Permanent(r) == r.kind = "permanent"

(* Faulty: a status code is believed whomever the reply blames.            *)
CodedAlways(r) == MailboxStatus(r)

(* The mailbox status code, unless the reply blames our IP's reputation.   *)
Coded(r) == IF MentionsIpReputation(r) THEN "none" ELSE MailboxStatus(r)

PolicyRefusal(r) ==
  ~SaysNoSuchMailbox(r) /\ \E i \in 1..2 : r.codes[i] = "5.7.1"

(* The reply is about us or the probe, and says nothing of the mailbox.    *)
Dismissed(r) ==
  \/ BlamesSender(r)
  \/ Coded(r) = "none" /\ (PolicyRefusal(r) \/ Described(r))

(* Faulty: temporary rejections count as well.                             *)
CatchAllVerdictTemporary(r) ==
  LET invalid == IF Coded(r) = "none" THEN IsInvalid(r)
                 ELSE Coded(r) = "undeliverable"
  IN  IF ~Dismissed(r) /\ (invalid \/ IsUnverifiedRecipient(r))
      THEN "undeliverable" ELSE "error"

(* Only an explicit rejection of the made-up address is a conclusion.      *)
CatchAllVerdict(r) ==
  LET invalid == IF Coded(r) = "none" THEN IsInvalid(r)
                 ELSE Coded(r) = "undeliverable"
  IN  IF ~Dismissed(r)
           /\ ((Permanent(r) /\ invalid) \/ IsUnverifiedRecipient(r))
      THEN "undeliverable" ELSE "error"

VerdictByWording(r) ==
  IF Permanent(r) /\ IsDisabledAccount(r) THEN "disabled"
  ELSE IF IsFullInbox(r) THEN "full"
  ELSE IF IsUnverifiedRecipient(r) \/ (Permanent(r) /\ IsInvalid(r))
       THEN "undeliverable"
  ELSE "error"

RecipientVerdict(r) ==
  IF Dismissed(r) THEN "error"
  ELSE IF Coded(r) # "none" THEN Coded(r)
  ELSE VerdictByWording(r)

(* The verdict about the address of the given probe.                       *)
VerdictOf(s, r) ==
  IF r.kind = "accepted" THEN "deliverable"
  ELSE IF r.kind = "unclear" THEN "error"
  ELSE IF s = "CatchAll" THEN CatchAllVerdict(r)
  ELSE RecipientVerdict(r)
=============================================================================
