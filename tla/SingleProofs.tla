---------------------------- MODULE SingleProofs ----------------------------
(***************************************************************************)
(* What holds of single checks for any number of callers, bulk tasks,      *)
(* slots and deliveries: results are stored before they are handed out,    *)
(* and verifications are counted.                                          *)
(***************************************************************************)
EXTENDS SingleCheck, FiniteSetTheorems, TLAPS

(* The result of c may be handed out.                                      *)
Kept(c) == c \in stored \/ (enabled /\ failures[c] > 0)

(* With a worker, only /v0 is served in the handler; without, no task is   *)
(* published.                                                              *)
Served ==
  \A c \in Caller :
    /\ caller[c] \in Direct => Alone(c)
    /\ task[c] # "unborn" => enabled /\ c \notin legacy

(* From the store to the caller, along both ways.                          *)
Backed ==
  \A c \in Caller \ legacy :
    /\ caller[c] = "uploading" => c \in stored
    /\ task[c] = "replying" => Kept(c)
    /\ reply[c].says = "ok" => Kept(c)
    /\ answer[c] = "ok" => Kept(c)

(* Whoever waits for a slot has a reservation; no one else needs one.      *)
Reserved ==
  /\ \A t \in Task : spare[t] >= 0
  /\ \A c \in Caller : caller[c] = "admitted" => spare[c] >= 1
  /\ \A t \in Task \ legacy : enabled => spare[t] = 0

IInv == TypeOK /\ Served /\ Backed /\ Reserved

LEMMA InitIInv == Init => IInv
<1> SUFFICES ASSUME Init PROVE IInv
  OBVIOUS
<1>1. TypeOK
  BY DEF Init, TypeOK, NoReply, Answer
<1>2. Served /\ Backed /\ Reserved
  BY SingleAssumption DEF Init, Served, Backed, Reserved, NoReply, Direct, Task
<1> QED BY <1>1, <1>2 DEF IInv

LEMMA FinishType ==
  ASSUME TypeOK, NEW c \in Caller, NEW a \in Answer, Finish(c, a)
  PROVE  /\ caller' \in [Caller -> {"new", "done"} \cup Waiting]
         /\ answer' \in [Caller -> Answer]
         /\ reply' \in [Caller -> [at : {"none", "queued", "channel"}, says : Answer]]
BY DEF TypeOK, Finish, Quit, NoReply, Answer

(* What a deadline leaves of the reply depends on where it was.            *)
LEMMA DeadlineShape ==
  ASSUME TypeOK, NEW c \in Caller, Deadline(c)
  PROVE  /\ UNCHANGED <<enabled, legacy, task, redelivered, stored, failures, spare>>
         /\ caller[c] \in Waiting
         /\ \/ caller[c] # "delivered" /\ Finish(c, "504")
            \/ caller[c] = "delivered" /\ Quit(c, "504") /\ reply' = reply
BY DEF Deadline, config

LEMMA SendType ==
  ASSUME TypeOK, NEW c \in Caller, NEW a \in Answer, Send(c, a)
  PROVE  reply' \in [Caller -> [at : {"none", "queued", "channel"}, says : Answer]]
BY DEF TypeOK, Send

LEMMA HandlerType ==
  ASSUME TypeOK, NEW c \in Caller,
         \/ Refuse(c) \/ Admit(c) \/ TakeSlot(c) \/ Checked(c) \/ Stored(c)
         \/ NotStored(c) \/ Uploaded(c) \/ Deadline(c) \/ Consume(c)
         \/ DeliverReply(c) \/ TakeReply(c)
  PROVE  TypeOK'
<1> USE DEF config
<1>a. c \in Task
  BY DEF Task
<1>b. {"ok", "error", "429", "504"} \subseteq Answer /\ reply[c].says \in Answer
  BY DEF Answer, TypeOK
<1>1. CASE Refuse(c)
  BY <1>1, <1>b, FinishType DEF Refuse, TypeOK
<1>2. CASE Admit(c)
  BY <1>2, <1>a DEF Admit, TypeOK, Count, Waiting, Direct
<1>3. CASE TakeSlot(c)
  BY <1>3, <1>a DEF TakeSlot, TypeOK, Waiting, Direct
<1>4. CASE Checked(c)
  <2>1. CASE c \in legacy
    BY <1>4, <1>b, <2>1, FinishType DEF Checked, TypeOK
  <2>2. CASE c \notin legacy
    BY <1>4, <2>2 DEF Checked, TypeOK, Waiting, Direct
  <2> QED BY <2>1, <2>2
<1>5. CASE Stored(c)
  BY <1>5 DEF Stored, TypeOK, Waiting, Direct
<1>6. CASE NotStored(c)
  BY <1>6, <1>a, <1>b, FinishType DEF NotStored, TypeOK, Count
<1>7. CASE Uploaded(c)
  BY <1>7, <1>b, FinishType DEF Uploaded, TypeOK
<1>8. CASE Deadline(c)
  <2>1. CASE Finish(c, "504")
    BY <1>8, <1>b, <2>1, FinishType, DeadlineShape DEF TypeOK
  <2>2. CASE Quit(c, "504") /\ reply' = reply
    BY <1>8, <1>b, <2>2, DeadlineShape DEF TypeOK, Quit
  <2> QED BY <1>8, <2>1, <2>2, DeadlineShape
<1>9. CASE Consume(c)
  BY <1>9 DEF Consume, TypeOK, Waiting
<1>10. CASE DeliverReply(c)
  BY <1>10 DEF DeliverReply, TypeOK, Waiting
<1>11. CASE TakeReply(c)
  BY <1>11, <1>b, FinishType DEF TakeReply, TypeOK
<1> QED BY <1>1, <1>2, <1>3, <1>4, <1>5, <1>6, <1>7, <1>8, <1>9, <1>10, <1>11

LEMMA WorkerType ==
  ASSUME TypeOK, NEW t \in Task,
         \/ Expire(t) \/ Deliver(t) \/ Throttled(t) \/ RequeueThrottled(t) \/ Start(t)
         \/ RequeueUnknown(t) \/ RunEnds(t) \/ StoreAndAck(t) \/ StoreFails(t)
         \/ (t \in Caller /\ Reply(t))
  PROVE  TypeOK'
<1> USE DEF config
<1>b. {"ok", "error", "429", "504"} \subseteq Answer
  BY DEF Answer
<1>c. t \in Bulk \/ t \in Caller
  BY DEF Task
<1>1. CASE Expire(t)
  BY <1>1 DEF Expire, TypeOK
<1>2. CASE Deliver(t)
  BY <1>2 DEF Deliver, TypeOK, Held
<1>3. CASE Throttled(t)
  <2>1. CASE t \in Bulk
    BY <1>3, <2>1 DEF Throttled, TypeOK, Held
  <2>2. CASE t \notin Bulk
    BY <1>3, <1>b, <1>c, <2>2, SendType DEF Throttled, TypeOK
  <2> QED BY <2>1, <2>2
<1>4. CASE RequeueThrottled(t)
  BY <1>4 DEF RequeueThrottled, TypeOK
<1>5. CASE Start(t)
  BY <1>5 DEF Start, TypeOK, Held
<1>6. CASE RequeueUnknown(t)
  BY <1>6 DEF RequeueUnknown, TypeOK
<1>7. CASE RunEnds(t)
  BY <1>7 DEF RunEnds, TypeOK, Held
<1>8. CASE StoreAndAck(t)
  BY <1>8, <1>c DEF StoreAndAck, TypeOK
<1>9. CASE StoreFails(t)
  <2>1. failures' \in [Task -> Nat]
    BY <1>9 DEF StoreFails, TypeOK, Count
  <2>2. task' \in [Task -> {"unborn", "queued", "gone", "replying"} \cup Held]
    BY <1>9 DEF StoreFails, TypeOK
  <2>3. redelivered' \in [Task -> BOOLEAN]
    BY <1>9, Zenon DEF StoreFails, TypeOK
  <2> QED BY <1>9, <2>1, <2>2, <2>3 DEF StoreFails, TypeOK
<1>10. CASE t \in Caller /\ Reply(t)
  BY <1>10, <1>b, SendType DEF Reply, TypeOK
<1> QED BY <1>1, <1>2, <1>3, <1>4, <1>5, <1>6, <1>7, <1>8, <1>9, <1>10

LEMMA StepType ==
  ASSUME TypeOK, [Next]_vars
  PROVE  TypeOK'
<1>1. CASE UNCHANGED vars
  BY <1>1 DEF TypeOK, vars, config
<1> QED BY <1>1, HandlerType, WorkerType DEF Next, Handle, Process, Work
-----------------------------------------------------------------------------
(* Who does the work                                                       *)

LEMMA HandlerServed ==
  ASSUME TypeOK, Served, NEW c \in Caller,
         \/ Refuse(c) \/ Admit(c) \/ TakeSlot(c) \/ Checked(c) \/ Stored(c)
         \/ NotStored(c) \/ Uploaded(c) \/ Deadline(c) \/ Consume(c)
         \/ DeliverReply(c) \/ TakeReply(c)
  PROVE  Served'
<1> USE DEF config
<1>1. enabled' = enabled /\ legacy' = legacy
  BY DEF Refuse, Admit, TakeSlot, Checked, Stored, NotStored, Uploaded, Deadline, Consume,
         DeliverReply, TakeReply
<1>2. \A d \in Caller : d # c => caller'[d] = caller[d] /\ task'[d] = task[d]
  BY DEF Refuse, Admit, TakeSlot, Checked, Stored, NotStored, Uploaded, Deadline, Consume,
         DeliverReply, TakeReply, Finish, Quit, TypeOK, Task
<1>3. caller'[c] \in Direct => Alone(c)
  BY DEF Refuse, Admit, TakeSlot, Checked, Stored, NotStored, Uploaded, Deadline, Consume,
         DeliverReply, TakeReply, Finish, Quit, TypeOK, Served, Direct
<1>4. task'[c] # "unborn" => enabled /\ c \notin legacy
  BY DEF Refuse, Admit, TakeSlot, Checked, Stored, NotStored, Uploaded, Deadline, Consume,
         DeliverReply, TakeReply, TypeOK, Served, Alone, Task
<1> QED BY <1>1, <1>2, <1>3, <1>4 DEF Served, Alone

LEMMA WorkerServed ==
  ASSUME TypeOK, Served, NEW t \in Task,
         \/ Expire(t) \/ Deliver(t) \/ Throttled(t) \/ RequeueThrottled(t) \/ Start(t)
         \/ RequeueUnknown(t) \/ RunEnds(t) \/ StoreAndAck(t) \/ StoreFails(t)
         \/ (t \in Caller /\ Reply(t))
  PROVE  Served'
<1> USE DEF config
<1>1. UNCHANGED <<enabled, legacy, caller>>
  BY DEF Expire, Deliver, Throttled, RequeueThrottled, Start, RequeueUnknown, RunEnds,
         StoreAndAck, StoreFails, Reply
<1>2. \A d \in Task : d # t => task'[d] = task[d]
  BY DEF Expire, Deliver, Throttled, RequeueThrottled, Start, RequeueUnknown, RunEnds,
         StoreAndAck, StoreFails, Reply, TypeOK
<1>3. task[t] # "unborn"
  BY DEF Expire, Deliver, Throttled, RequeueThrottled, Start, RequeueUnknown, RunEnds,
         StoreAndAck, StoreFails, Reply
<1> QED BY <1>1, <1>2, <1>3 DEF Served, Alone, Task
-----------------------------------------------------------------------------
(* Results on their way                                                    *)

LEMMA KeptStored ==
  ASSUME TypeOK, [Next]_vars
  PROVE  /\ enabled' = enabled /\ stored \subseteq stored'
         /\ \A c \in Caller : failures'[c] >= failures[c]
<1> USE DEF config, TypeOK, Task
<1>1. ASSUME NEW c \in Caller, Refuse(c) \/ Admit(c) \/ Handle(c) \/ Deadline(c)
      PROVE  /\ enabled' = enabled /\ stored \subseteq stored'
             /\ \A d \in Caller : failures'[d] >= failures[d]
  BY <1>1 DEF Refuse, Admit, Handle, TakeSlot, Checked, Stored, NotStored, Uploaded,
              Deadline, Count
<1>2. ASSUME NEW c \in Caller, Consume(c) \/ DeliverReply(c) \/ TakeReply(c)
      PROVE  /\ enabled' = enabled /\ stored \subseteq stored'
             /\ \A d \in Caller : failures'[d] >= failures[d]
  BY <1>2 DEF Consume, DeliverReply, TakeReply
<1>3. ASSUME NEW t \in Task, Deliver(t) \/ Process(t) \/ Expire(t)
      PROVE  /\ enabled' = enabled /\ stored \subseteq stored'
             /\ \A d \in Caller : failures'[d] >= failures[d]
  BY <1>3 DEF Deliver, Process, Throttled, Start, Work, Expire, RequeueThrottled, RequeueUnknown,
              RunEnds, StoreAndAck, StoreFails, Reply, Count
<1>4. CASE UNCHANGED vars
  BY <1>4 DEF vars
<1> QED BY <1>1, <1>2, <1>3, <1>4 DEF Next

(* What was kept stays kept.                                               *)
LEMMA KeptOn ==
  ASSUME TypeOK, [Next]_vars
  PROVE  \A c \in Caller : Kept(c) => Kept(c)'
<1>1. /\ enabled' = enabled /\ stored \subseteq stored'
      /\ \A c \in Caller : failures'[c] >= failures[c]
  BY KeptStored
<1>2. \A c \in Caller : failures[c] \in Nat
  BY DEF TypeOK, Task
<1>3. \A c \in Caller : failures'[c] \in Nat
  BY StepType DEF TypeOK, Task
<1> QED BY <1>1, <1>2, <1>3 DEF Kept

(* What Finish does to the others, and what a reply says.                  *)
LEMMA FinishBacked ==
  ASSUME TypeOK, Backed, [Next]_vars, legacy' = legacy, NEW c \in Caller, NEW a, Finish(c, a),
         task' = task,
         c \notin legacy /\ a = "ok" => Kept(c)'
  PROVE  Backed'
<1> SUFFICES ASSUME NEW d \in Caller \ legacy
             PROVE  /\ caller'[d] = "uploading" => d \in stored'
                    /\ task'[d] = "replying" => Kept(d)'
                    /\ reply'[d].says = "ok" => Kept(d)'
                    /\ answer'[d] = "ok" => Kept(d)'
  BY DEF Backed
<1>1. Kept(d) => Kept(d)'
  BY KeptOn
<1>2. d \in stored => d \in stored'
  BY KeptStored
<1>3. CASE d = c
  BY <1>1, <1>3 DEF Finish, Quit, TypeOK, Backed, NoReply
<1>4. CASE d # c
  BY <1>1, <1>2, <1>4 DEF Finish, Quit, TypeOK, Backed
<1> QED BY <1>3, <1>4

LEMMA HandlerBacked ==
  ASSUME TypeOK, Served, Backed, [Next]_vars, NEW c \in Caller,
         \/ Refuse(c) \/ Admit(c) \/ TakeSlot(c) \/ Checked(c) \/ Stored(c)
         \/ NotStored(c) \/ Uploaded(c) \/ Deadline(c) \/ Consume(c)
         \/ DeliverReply(c) \/ TakeReply(c)
  PROVE  Backed'
<1> USE DEF config
<1>0. \A d \in Caller : /\ Kept(d) => Kept(d)'
                        /\ d \in stored => d \in stored'
  BY KeptOn, KeptStored
<1>1. CASE Refuse(c) \/ NotStored(c)
  BY <1>1, FinishBacked DEF Refuse, NotStored
<1>2. CASE Admit(c)
  <2>1. \A d \in Caller : /\ caller'[d] = "uploading" => caller[d] = "uploading"
                          /\ task'[d] = "replying" => task[d] = "replying"
    BY <1>2 DEF Admit, TypeOK, Task
  <2> QED BY <1>0, <1>2, <2>1 DEF Admit, Backed
<1>3. CASE TakeSlot(c) \/ Consume(c) \/ DeliverReply(c)
  <2>1. \A d \in Caller : /\ caller'[d] = "uploading" => caller[d] = "uploading"
                          /\ reply'[d].says = reply[d].says
    BY <1>3 DEF TakeSlot, Consume, DeliverReply, TypeOK
  <2>2. UNCHANGED <<legacy, task, answer>>
    BY <1>3 DEF TakeSlot, Consume, DeliverReply
  <2> QED BY <1>0, <2>1, <2>2 DEF Backed
<1>4. CASE Checked(c)
  <2>1. CASE c \in legacy
    BY <1>4, <2>1, FinishBacked DEF Checked
  <2>2. CASE c \notin legacy
    <3>1. \A d \in Caller : caller'[d] = "uploading" => caller[d] = "uploading"
      BY <1>4, <2>2 DEF Checked, TypeOK
    <3>2. UNCHANGED <<legacy, task, answer, reply>>
      BY <1>4, <2>2 DEF Checked
    <3> QED BY <1>0, <3>1, <3>2 DEF Backed
  <2> QED BY <2>1, <2>2
<1>5. CASE Stored(c)
  <2>1. \A d \in Caller : caller'[d] = "uploading" => caller[d] = "uploading" \/ d \in stored'
    BY <1>5 DEF Stored, TypeOK
  <2>2. UNCHANGED <<legacy, task, answer, reply>>
    BY <1>5 DEF Stored
  <2> QED BY <1>0, <2>1, <2>2 DEF Backed
<1>6. CASE Uploaded(c)
  <2>1. c \notin legacy => Kept(c)'
    BY <1>0, <1>6 DEF Uploaded, Backed, Kept
  <2> QED BY <1>6, <2>1, FinishBacked DEF Uploaded
<1>7. CASE TakeReply(c)
  <2>1. c \notin legacy /\ reply[c].says = "ok" => Kept(c)'
    BY <1>0, <1>7 DEF Backed
  <2> QED BY <1>7, <2>1, FinishBacked DEF TakeReply
<1>8. CASE Deadline(c)
  <2>1. CASE Finish(c, "504")
    BY <1>8, <2>1, DeadlineShape, FinishBacked
  <2>2. CASE Quit(c, "504") /\ reply' = reply
    <3>1. \A d \in Caller : /\ caller'[d] = "uploading" => caller[d] = "uploading"
                            /\ answer'[d] = "ok" => answer[d] = "ok"
      BY <2>2 DEF Quit, TypeOK
    <3>2. UNCHANGED <<legacy, task, reply>>
      BY <1>8, <2>2, DeadlineShape
    <3> QED BY <1>0, <3>1, <3>2 DEF Backed
  <2> QED BY <1>8, <2>1, <2>2, DeadlineShape
<1> QED BY <1>1, <1>2, <1>3, <1>4, <1>5, <1>6, <1>7, <1>8

LEMMA SendBacked ==
  ASSUME TypeOK, Backed, [Next]_vars, NEW c \in Caller, NEW a, Send(c, a),
         UNCHANGED <<legacy, caller, answer>>,
         \A d \in Caller : task'[d] = "replying" => task[d] = "replying",
         a = "ok" => Kept(c)'
  PROVE  Backed'
<1> SUFFICES ASSUME NEW d \in Caller \ legacy
             PROVE  /\ caller'[d] = "uploading" => d \in stored'
                    /\ task'[d] = "replying" => Kept(d)'
                    /\ reply'[d].says = "ok" => Kept(d)'
                    /\ answer'[d] = "ok" => Kept(d)'
  BY DEF Backed
<1>1. Kept(d) => Kept(d)'
  BY KeptOn
<1>2. d \in stored => d \in stored'
  BY KeptStored
<1>3. reply'[d] = reply[d] \/ (d = c /\ reply'[d].says = a)
  BY DEF Send, TypeOK
<1> QED BY <1>1, <1>2, <1>3 DEF Backed

LEMMA WorkerBacked ==
  ASSUME TypeOK, Served, Backed, [Next]_vars, NEW t \in Task,
         \/ Expire(t) \/ Deliver(t) \/ Throttled(t) \/ RequeueThrottled(t) \/ Start(t)
         \/ RequeueUnknown(t) \/ RunEnds(t) \/ StoreAndAck(t) \/ StoreFails(t)
         \/ (t \in Caller /\ Reply(t))
  PROVE  Backed'
<1> USE DEF config
<1>0. \A d \in Caller : /\ Kept(d) => Kept(d)'
                        /\ d \in stored => d \in stored'
  BY KeptOn, KeptStored
<1>1. CASE Throttled(t) /\ t \notin Bulk
  <2>1. t \in Caller /\ Send(t, "429") /\ UNCHANGED <<legacy, caller, answer>>
    BY <1>1 DEF Throttled, Task
  <2>2. \A d \in Caller : task'[d] = "replying" => task[d] = "replying"
    BY <1>1 DEF Throttled, TypeOK, Task
  <2> QED BY <2>1, <2>2, SendBacked
<1>2. CASE t \in Caller /\ Reply(t)
  <2>1. PICK says \in {"ok", "504"} : Send(t, says)
    BY <1>2 DEF Reply
  <2>2. \A d \in Caller : task'[d] = "replying" => task[d] = "replying"
    BY <1>2 DEF Reply, TypeOK, Task
  <2>3. Kept(t)' /\ UNCHANGED <<legacy, caller, answer>>
    BY <1>0, <1>2 DEF Reply, Backed, Served
  <2> QED BY <1>2, <2>1, <2>2, <2>3, SendBacked
<1>3. CASE \/ Expire(t) \/ Deliver(t) \/ (Throttled(t) /\ t \in Bulk)
           \/ RequeueThrottled(t) \/ Start(t) \/ RequeueUnknown(t) \/ RunEnds(t)
  <2>1. UNCHANGED <<legacy, caller, answer, reply>>
    BY <1>3 DEF Expire, Deliver, Throttled, RequeueThrottled, Start, RequeueUnknown, RunEnds
  <2>2. \A d \in Caller : task'[d] = "replying" => task[d] = "replying"
    BY <1>3 DEF Expire, Deliver, Throttled, RequeueThrottled, Start, RequeueUnknown, RunEnds,
                TypeOK, Task
  <2> QED BY <1>0, <2>1, <2>2 DEF Backed
<1>4. CASE StoreAndAck(t)
  <2>1. UNCHANGED <<legacy, caller, answer, reply>>
    BY <1>4 DEF StoreAndAck
  <2>2. \A d \in Caller : task'[d] = "replying" => task[d] = "replying" \/ Kept(d)'
    BY <1>4, SingleAssumption DEF StoreAndAck, TypeOK, Task, Kept
  <2> QED BY <1>0, <2>1, <2>2 DEF Backed
<1>5. CASE StoreFails(t)
  <2>1. UNCHANGED <<legacy, enabled, caller, answer, reply>>
    BY <1>5 DEF StoreFails
  <2>2. \A d \in Caller : task'[d] = "replying" =>
           task[d] = "replying" \/ (d = t /\ task[t] # "unborn")
    BY <1>5 DEF StoreFails, TypeOK, Task
  <2>3. failures'[t] > 0
    BY <1>5 DEF StoreFails, Count, TypeOK
  <2>4. \A d \in Caller : task'[d] = "replying" => task[d] = "replying" \/ Kept(d)'
    BY <2>1, <2>2, <2>3 DEF Kept, Served
  <2> QED BY <1>0, <2>1, <2>4 DEF Backed
<1> QED BY <1>1, <1>2, <1>3, <1>4, <1>5
-----------------------------------------------------------------------------
(* Counting                                                                *)

LEMMA StepReserved ==
  ASSUME TypeOK, Served, Reserved, [Next]_vars
  PROVE  Reserved'
<1> USE DEF config
<1>1. ASSUME spare' = spare, UNCHANGED <<enabled, legacy>>,
             \A c \in Caller : caller'[c] = "admitted" => caller[c] = "admitted"
      PROVE  Reserved'
  BY <1>1 DEF Reserved
<1>2. ASSUME NEW c \in Caller,
             \/ Refuse(c) \/ Checked(c) \/ Stored(c) \/ NotStored(c) \/ Uploaded(c)
             \/ Deadline(c) \/ Consume(c) \/ DeliverReply(c) \/ TakeReply(c)
      PROVE  Reserved'
  <2>1. spare' = spare /\ UNCHANGED <<enabled, legacy>>
    BY <1>2 DEF Refuse, Checked, Stored, NotStored, Uploaded, Deadline, Consume,
                DeliverReply, TakeReply
  <2>2. \A d \in Caller : caller'[d] = "admitted" => caller[d] = "admitted"
    BY <1>2 DEF Refuse, Checked, Stored, NotStored, Uploaded, Deadline, Consume,
                DeliverReply, TakeReply, Finish, Quit, TypeOK
  <2> QED BY <1>1, <2>1, <2>2
<1>3. ASSUME NEW c \in Caller, Admit(c) PROVE Reserved'
  <2>1. CASE Alone(c)
    <3>1. /\ spare' = [spare EXCEPT ![c] = @ + 1] /\ UNCHANGED <<enabled, legacy>>
          /\ caller' = [caller EXCEPT ![c] = "admitted"]
      BY <1>3, <2>1 DEF Admit, Count
    <3>2. spare'[c] = spare[c] + 1 /\ \A t \in Task : t # c => spare'[t] = spare[t]
      BY <3>1 DEF TypeOK, Task
    <3>3. \A t \in Task : spare[t] \in Int
      BY DEF TypeOK
    <3>4. \A d \in Caller : d # c => caller'[d] = caller[d]
      BY <3>1 DEF TypeOK
    <3> QED BY <2>1, <3>1, <3>2, <3>3, <3>4 DEF Reserved, Alone, Task
  <2>2. CASE ~Alone(c)
    <3>1. /\ spare' = spare /\ UNCHANGED <<enabled, legacy>>
          /\ \A d \in Caller : caller'[d] = "admitted" => caller[d] = "admitted"
      BY <1>3, <2>2 DEF Admit, TypeOK
    <3> QED BY <1>1, <3>1
  <2> QED BY <2>1, <2>2
<1>4. ASSUME NEW c \in Caller, TakeSlot(c) PROVE Reserved'
  <2>1. /\ spare' = [spare EXCEPT ![c] = @ - 1] /\ UNCHANGED <<enabled, legacy>>
        /\ caller' = [caller EXCEPT ![c] = "checking"] /\ caller[c] = "admitted"
    BY <1>4 DEF TakeSlot
  <2>2. spare'[c] = spare[c] - 1 /\ \A t \in Task : t # c => spare'[t] = spare[t]
    BY <2>1 DEF TypeOK, Task
  <2>3. \A t \in Task : spare[t] \in Int
    BY DEF TypeOK
  <2>4. Alone(c) /\ spare[c] >= 1
    BY <2>1 DEF Served, Direct, Reserved
  <2>5. \A d \in Caller : caller'[d] = "admitted" => d # c /\ caller[d] = "admitted"
    BY <2>1 DEF TypeOK
  <2> QED BY <2>1, <2>2, <2>3, <2>4, <2>5 DEF Reserved, Alone, Task
<1>5. ASSUME NEW t \in Task, Deliver(t) \/ Process(t) \/ Expire(t)
      PROVE  Reserved'
  <2>1. spare' = spare /\ UNCHANGED <<enabled, legacy, caller>>
    BY <1>5 DEF Deliver, Process, Throttled, Start, Work, Expire, RequeueThrottled, RequeueUnknown,
                RunEnds, StoreAndAck, StoreFails, Reply
  <2> QED BY <1>1, <2>1
<1>6. CASE UNCHANGED vars
  BY <1>1, <1>6 DEF vars
<1> QED BY <1>2, <1>3, <1>4, <1>5, <1>6 DEF Next, Handle
-----------------------------------------------------------------------------
LEMMA IInvInductive == Spec => []IInv
<1>1. IInv /\ [Next]_vars => IInv'
  <2> SUFFICES ASSUME IInv, [Next]_vars PROVE IInv'
    OBVIOUS
  <2> USE DEF IInv
  <2>1. TypeOK' /\ Reserved'
    BY StepType, StepReserved
  <2>2. CASE UNCHANGED vars
    BY <2>2 DEF vars, config, Served, Backed, Kept, Alone, TypeOK, Reserved
  <2>3. Served'
    BY <2>2, HandlerServed, WorkerServed DEF Next, Handle, Process, Work
  <2>4. Backed'
    BY <2>2, HandlerBacked, WorkerBacked DEF Next, Handle, Process, Work
  <2> QED BY <2>1, <2>3, <2>4
<1> QED BY InitIInv, <1>1, PTL DEF Spec

(* The variables keep their types.                                         *)
THEOREM SingleTyped == Spec => []TypeOK
<1>1. IInv => TypeOK
  BY DEF IInv
<1> QED BY <1>1, IInvInductive, PTL

(* A result that /v1 hands out is stored by then, unless a worker could    *)
(* not store it, whatever else the handlers and the worker are doing.      *)
THEOREM AnswersAreStored == Spec => []StoredBeforeAnswered
<1>1. IInv => StoredBeforeAnswered
  BY DEF IInv, Backed, StoredBeforeAnswered, Kept
<1> QED BY <1>1, IInvInductive, PTL

(* No verification runs without its reservation in the throttle, and with  *)
(* a worker none is reserved twice.                                        *)
THEOREM RunsAreCounted == Spec => []CountedPerRun
<1>1. IInv => CountedPerRun
  BY DEF IInv, Reserved, CountedPerRun
<1> QED BY <1>1, IInvInductive, PTL
-----------------------------------------------------------------------------
(* Waiting                                                                 *)

(* Where the task and the reply of a handler are.  One that waits for a    *)
(* worker has its task with the broker or the worker, or its reply with    *)
(* the broker; a reply on the channel is one that its handler is about to  *)
(* take, or did not live to take, and no second one is on its way.         *)
Pursued ==
  \A c \in Caller :
    /\ caller[c] \in {"new"} \cup Direct => task[c] = "unborn"
    /\ caller[c] \in {"published", "consuming"} =>
         task[c] \in {"queued", "replying"} \cup Held \/ reply[c].at = "queued"
    /\ caller[c] = "delivered" => reply[c].at = "channel"
    /\ reply[c].at = "channel" => caller[c] \in {"delivered", "done"}
    /\ caller[c] = "done" => reply[c].at # "queued"
    /\ reply[c].at # "none" => task[c] = "gone"

(* The guards of what a handler may do, its deadline aside, and of what    *)
(* broker and worker may do for a task.                                    *)
HandlerMoves(c) ==
  \/ caller[c] = "admitted" /\ FreeSlots > 0
  \/ caller[c] \in InSlot \cup {"published", "delivered"}
  \/ caller[c] = "consuming" /\ reply[c].at = "queued" /\ Unacked < Concurrency

TaskMoves(t) ==
  \/ task[t] = "queued" /\ Unacked < Concurrency
  \/ task[t] = "buffered" /\ LoopFree
  \/ task[t] \in {"throttled", "running", "storing", "replying"}

(* Somebody in a slot or with a delivery is able to give it back.          *)
SomeHolderMoves ==
  \/ \E c \in Caller : caller[c] \in InSlot \cup {"delivered"} /\ HandlerMoves(c)
  \/ \E t \in Task : task[t] \in Held /\ TaskMoves(t)

LEMMA InitPursued == Init => Pursued
BY SingleAssumption DEF Init, Pursued, NoReply, Direct, Task

(* Nothing but the state of the one handler and its task counts.           *)
LEMMA OthersPursued ==
  ASSUME Pursued, NEW c \in Caller,
         \A d \in Caller \ {c} : /\ caller'[d] = caller[d] /\ task'[d] = task[d]
                                 /\ reply'[d] = reply[d],
         /\ caller'[c] \in {"new"} \cup Direct => task'[c] = "unborn"
         /\ caller'[c] \in {"published", "consuming"} =>
              task'[c] \in {"queued", "replying"} \cup Held \/ reply'[c].at = "queued"
         /\ caller'[c] = "delivered" => reply'[c].at = "channel"
         /\ reply'[c].at = "channel" => caller'[c] \in {"delivered", "done"}
         /\ caller'[c] = "done" => reply'[c].at # "queued"
         /\ reply'[c].at # "none" => task'[c] = "gone"
  PROVE  Pursued'
<1> SUFFICES ASSUME NEW d \in Caller
             PROVE  /\ caller'[d] \in {"new"} \cup Direct => task'[d] = "unborn"
                    /\ caller'[d] \in {"published", "consuming"} =>
                         task'[d] \in {"queued", "replying"} \cup Held
                           \/ reply'[d].at = "queued"
                    /\ caller'[d] = "delivered" => reply'[d].at = "channel"
                    /\ reply'[d].at = "channel" => caller'[d] \in {"delivered", "done"}
                    /\ caller'[d] = "done" => reply'[d].at # "queued"
                    /\ reply'[d].at # "none" => task'[d] = "gone"
  BY DEF Pursued
<1>1. CASE d = c
  BY <1>1
<1>2. CASE d # c
  BY <1>2 DEF Pursued
<1> QED BY <1>1, <1>2

LEMMA HandlerPursued ==
  ASSUME TypeOK, Pursued, NEW c \in Caller,
         \/ Refuse(c) \/ Admit(c) \/ TakeSlot(c) \/ Checked(c) \/ Stored(c)
         \/ NotStored(c) \/ Uploaded(c) \/ Deadline(c) \/ Consume(c)
         \/ DeliverReply(c) \/ TakeReply(c)
  PROVE  Pursued'
<1>1. ASSUME NEW a, Finish(c, a), task' = task PROVE Pursued'
  <2>1. \A d \in Caller \ {c} : /\ caller'[d] = caller[d] /\ task'[d] = task[d]
                                /\ reply'[d] = reply[d]
    BY <1>1 DEF Finish, Quit, TypeOK
  <2>2. caller'[c] = "done" /\ reply'[c].at = "none"
    BY <1>1 DEF Finish, Quit, TypeOK, NoReply
  <2> QED BY <2>1, <2>2, OthersPursued DEF Direct
<1>2. CASE Refuse(c) \/ NotStored(c) \/ Uploaded(c) \/ TakeReply(c)
  BY <1>1, <1>2 DEF Refuse, NotStored, Uploaded, TakeReply
<1>3. CASE Admit(c)
  <2>1. caller[c] = "new" /\ task[c] = "unborn" /\ reply' = reply /\ reply[c].at = "none"
    BY <1>3 DEF Admit, Pursued
  <2>2. \A d \in Caller \ {c} : caller'[d] = caller[d] /\ task'[d] = task[d]
    BY <1>3 DEF Admit, TypeOK, Task
  <2>3. \/ caller'[c] = "admitted" /\ task'[c] = "unborn"
        \/ caller'[c] = "published" /\ task'[c] = "queued"
    BY <1>3, <2>1 DEF Admit, TypeOK, Task
  <2> QED BY <2>1, <2>2, <2>3, OthersPursued DEF Direct
<1>4. CASE TakeSlot(c) \/ Stored(c) \/ (Checked(c) /\ c \notin legacy)
  <2>1. caller[c] \in Direct /\ caller'[c] \in Direct /\ UNCHANGED <<task, reply>>
    BY <1>4 DEF TakeSlot, Stored, Checked, TypeOK, Direct
  <2>2. \A d \in Caller \ {c} : caller'[d] = caller[d]
    BY <1>4 DEF TakeSlot, Stored, Checked, TypeOK
  <2> QED BY <2>1, <2>2, OthersPursued DEF Direct, Pursued
<1>5. CASE Checked(c) /\ c \in legacy
  BY <1>1, <1>5 DEF Checked
<1>6. CASE Consume(c)
  <2>1. /\ caller[c] = "published" /\ caller'[c] = "consuming" /\ UNCHANGED <<task, reply>>
        /\ \A d \in Caller \ {c} : caller'[d] = caller[d]
    BY <1>6 DEF Consume, TypeOK
  <2> QED BY <2>1, OthersPursued DEF Direct, Pursued
<1>7. CASE DeliverReply(c)
  <2>1. /\ caller'[c] = "delivered" /\ UNCHANGED task
        /\ \A d \in Caller \ {c} : caller'[d] = caller[d] /\ reply'[d] = reply[d]
        /\ reply[c].at = "queued" /\ reply'[c].at = "channel"
    BY <1>7 DEF DeliverReply, TypeOK
  <2> QED BY <2>1, OthersPursued DEF Direct, Pursued
<1>8. CASE Deadline(c)
  <2>1. CASE Finish(c, "504")
    BY <1>1, <1>8, <2>1, DeadlineShape
  <2>2. CASE caller[c] = "delivered" /\ Quit(c, "504") /\ reply' = reply
    <3>1. /\ caller'[c] = "done" /\ reply'[c].at = "channel" /\ task'[c] = "gone"
          /\ \A d \in Caller \ {c} : /\ caller'[d] = caller[d] /\ task'[d] = task[d]
                                    /\ reply'[d] = reply[d]
      BY <1>8, <2>2, DeadlineShape DEF Quit, TypeOK, Pursued
    <3> QED BY <3>1, OthersPursued DEF Direct
  <2> QED BY <1>8, <2>1, <2>2, DeadlineShape
<1> QED BY <1>2, <1>3, <1>4, <1>5, <1>6, <1>7, <1>8

LEMMA WorkerPursued ==
  ASSUME TypeOK, Pursued, NEW t \in Task,
         \/ Expire(t) \/ Deliver(t) \/ Throttled(t) \/ RequeueThrottled(t) \/ Start(t)
         \/ RequeueUnknown(t) \/ RunEnds(t) \/ StoreAndAck(t) \/ StoreFails(t)
         \/ (t \in Caller /\ Reply(t))
  PROVE  Pursued'
<1>1. CASE t \notin Caller
  <2>1. UNCHANGED <<caller, reply>>
    BY <1>1, SingleAssumption DEF Expire, Deliver, Throttled, RequeueThrottled, Start,
         RequeueUnknown, RunEnds, StoreAndAck, StoreFails, Reply, Task
  <2>2. \A d \in Caller : task'[d] = task[d]
    BY <1>1 DEF Expire, Deliver, Throttled, RequeueThrottled, Start, RequeueUnknown, RunEnds,
         StoreAndAck, StoreFails, Reply, TypeOK, Task
  <2> QED BY <2>1, <2>2 DEF Pursued
<1>2. ASSUME t \in Caller,
             \/ Expire(t) \/ Deliver(t) \/ RequeueThrottled(t) \/ Start(t)
             \/ RequeueUnknown(t) \/ RunEnds(t) \/ StoreAndAck(t) \/ StoreFails(t)
      PROVE  Pursued'
  <2>1. UNCHANGED <<caller, reply>>
    BY <1>2 DEF Expire, Deliver, RequeueThrottled, Start, RequeueUnknown, RunEnds,
                StoreAndAck, StoreFails
  <2>2. \A d \in Caller \ {t} : task'[d] = task[d]
    BY <1>2 DEF Expire, Deliver, RequeueThrottled, Start, RequeueUnknown, RunEnds,
                StoreAndAck, StoreFails, TypeOK, Task
  <2>3. /\ task[t] \in {"queued"} \cup Held
        /\ \/ task'[t] \in {"queued", "replying"} \cup Held
           \/ task'[t] = "gone" /\ caller[t] = "done"
    BY <1>2 DEF Expire, Deliver, RequeueThrottled, Start, RequeueUnknown, RunEnds,
                StoreAndAck, StoreFails, TypeOK, Held
  <2>4. reply[t].at = "none" /\ caller[t] \notin {"new"} \cup Direct
    BY <1>2, <2>3 DEF Pursued, Held
  <2> QED BY <1>2, <2>1, <2>2, <2>3, <2>4, OthersPursued DEF Pursued
<1>3. ASSUME t \in Caller, Throttled(t) \/ Reply(t) PROVE Pursued'
  <2>1. /\ t \notin Bulk /\ caller' = caller /\ task[t] \in {"buffered", "replying"}
        /\ task' = [task EXCEPT ![t] = "gone"]
        /\ \E says \in Answer : Send(t, says)
    BY <1>3, SingleAssumption DEF Throttled, Reply, Answer
  <2>2. reply[t].at = "none" /\ caller[t] \notin {"new", "delivered"} \cup Direct
    BY <1>3, <2>1 DEF Pursued, TypeOK
  <2>3. /\ caller[t] = "done" => reply'[t].at = "none"
        /\ caller[t] # "done" => reply'[t].at = "queued"
        /\ \A d \in Caller \ {t} : reply'[d] = reply[d]
    BY <1>3, <2>1, <2>2 DEF Send, TypeOK
  <2>4. task'[t] = "gone" /\ \A d \in Caller \ {t} : task'[d] = task[d]
    BY <2>1 DEF TypeOK, Task
  <2> QED BY <1>3, <2>1, <2>2, <2>3, <2>4, OthersPursued
<1> QED BY <1>1, <1>2, <1>3

LEMMA AlwaysPursued == Spec => []Pursued
<1>1. TypeOK /\ Pursued /\ [Next]_vars => Pursued'
  <2> SUFFICES ASSUME TypeOK, Pursued, [Next]_vars PROVE Pursued'
    OBVIOUS
  <2>1. CASE UNCHANGED vars
    BY <2>1 DEF vars, Pursued
  <2> QED BY <2>1, HandlerPursued, WorkerPursued DEF Next, Handle, Process, Work
<1> QED BY <1>1, InitPursued, SingleTyped, PTL DEF Spec

(* As long as fewer replies are lost than the prefetch limit allows        *)
(* deliveries, it is only reached with one that somebody settles.          *)
LEMMA FullMoves ==
  ASSUME TypeOK, Pursued, Unacked >= Concurrency, ~(Cardinality(Lost) >= Concurrency)
  PROVE  SomeHolderMoves
<1> DEFINE T == {t \in Task : task[t] \in Held}
<1> DEFINE C == {c \in Caller : reply[c].at = "channel"}
<1>1. T # {} \/ \E c \in C : caller[c] = "delivered"
  <2> SUFFICES ASSUME T = {}, \A c \in C : caller[c] # "delivered" PROVE FALSE
    OBVIOUS
  <2>1. Cardinality(T) = 0
    BY FS_EmptySet
  <2>2. C = Lost
    BY DEF Pursued, Lost
  <2>3. Unacked = Cardinality(T) + Cardinality(C)
    BY DEF Unacked
  <2>4. IsFiniteSet(Lost)
    <3>1. IsFiniteSet(Caller)
      BY SingleAssumption, FS_Subset
    <3> QED BY <3>1, FS_Subset DEF Lost
  <2>5. Cardinality(Lost) \in Nat
    BY <2>4, FS_CardinalityType
  <2>6. Concurrency \in Nat
    BY SingleAssumption
  <2>7. Unacked = Cardinality(Lost)
    <3> HIDE DEF T, C
    <3> QED BY <2>1, <2>2, <2>3, <2>5
  <2> QED BY <2>5, <2>6, <2>7
<1>2. ASSUME NEW c \in C, caller[c] = "delivered" PROVE SomeHolderMoves
  BY <1>2 DEF SomeHolderMoves, HandlerMoves
<1>3. ASSUME NEW t \in T PROVE SomeHolderMoves
  <2>1. CASE LoopFree \/ task[t] # "buffered"
    BY <1>3, <2>1 DEF SomeHolderMoves, TaskMoves, Held
  <2>2. CASE ~LoopFree
    BY <2>2 DEF SomeHolderMoves, TaskMoves, Held, LoopFree
  <2> QED BY <2>1, <2>2
<1> QED BY <1>1, <1>2, <1>3

(* Whoever waits, for a slot, its task or its reply: that can be had, or   *)
(* somebody who holds a slot or a delivery is able to give it back - until *)
(* as many callers gave up with their replies in hand as there are places  *)
(* under the prefetch limit, which nobody gives back.  Bulk tasks,         *)
(* throttled tasks and other callers' replies never close a circle,        *)
(* however few slots and deliveries there are.                             *)
THEOREM NobodyWaitsInVain ==
  Spec => [](\A c \in Caller : caller[c] \in Waiting =>
               \/ HandlerMoves(c) \/ TaskMoves(c) \/ SomeHolderMoves
               \/ Cardinality(Lost) >= Concurrency)
<1>1. ASSUME TypeOK, Pursued, ~(Cardinality(Lost) >= Concurrency),
             NEW c \in Caller, caller[c] \in Waiting
      PROVE  HandlerMoves(c) \/ TaskMoves(c) \/ SomeHolderMoves
  <2>1. CASE caller[c] \in InSlot \cup {"published", "delivered"}
    BY <2>1 DEF HandlerMoves
  <2>2. CASE caller[c] = "admitted" /\ ~(FreeSlots > 0)
    <3> DEFINE S == {d \in Caller : caller[d] \in InSlot}
    <3>1. S # {}
      <4> SUFFICES ASSUME S = {} PROVE FALSE
        OBVIOUS
      <4>1. Cardinality(S) = 0
        BY FS_EmptySet
      <4> QED BY <2>2, <4>1, SingleAssumption DEF FreeSlots
    <3> QED BY <3>1 DEF SomeHolderMoves, HandlerMoves
  <2>3. CASE caller[c] = "admitted" /\ FreeSlots > 0
    BY <2>3 DEF HandlerMoves
  <2>4. CASE caller[c] = "consuming"
    <3>1. Unacked \in Int
      <4>1. IsFiniteSet(Task) /\ IsFiniteSet(Caller)
        BY SingleAssumption, FS_Subset DEF Task
      <4>2. /\ IsFiniteSet({t \in Task : task[t] \in Held})
            /\ IsFiniteSet({d \in Caller : reply[d].at = "channel"})
        BY <4>1, FS_Subset
      <4> QED BY <4>2, FS_CardinalityType DEF Unacked
    <3>2. Unacked < Concurrency \/ Unacked >= Concurrency
      BY <3>1, SingleAssumption
    <3>3. CASE Unacked < Concurrency
      <4>1. task[c] \in {"queued", "replying"} \cup Held \/ reply[c].at = "queued"
        BY <1>1, <2>4 DEF Pursued
      <4>2. CASE task[c] = "buffered" /\ ~LoopFree
        BY <4>2 DEF SomeHolderMoves, TaskMoves, Held, LoopFree
      <4> QED BY <2>4, <3>3, <4>1, <4>2 DEF HandlerMoves, TaskMoves, Held
    <3> QED BY <1>1, <3>2, <3>3, FullMoves
  <2> QED BY <1>1, <2>1, <2>2, <2>3, <2>4 DEF Waiting, Direct, InSlot
<1>2. TypeOK /\ Pursued =>
        \A c \in Caller : caller[c] \in Waiting =>
          \/ HandlerMoves(c) \/ TaskMoves(c) \/ SomeHolderMoves
          \/ Cardinality(Lost) >= Concurrency
  BY <1>1
<1> QED BY <1>2, SingleTyped, AlwaysPursued, PTL

LEMMA LostOnward ==
  ASSUME TypeOK, [Next]_vars, NEW c \in Caller, caller[c] = "done"
  PROVE  caller'[c] = "done" /\ reply'[c] = reply[c]
<1>1. ASSUME NEW d \in Caller, Refuse(d) \/ Admit(d) \/ Handle(d) \/ Deadline(d)
      PROVE  caller'[c] = "done" /\ reply'[c] = reply[c]
  BY <1>1 DEF Refuse, Admit, Handle, TakeSlot, Checked, Stored, NotStored, Uploaded,
              Deadline, Finish, Quit, TypeOK, Waiting, Direct
<1>2. ASSUME NEW d \in Caller, Consume(d) \/ DeliverReply(d) \/ TakeReply(d)
      PROVE  caller'[c] = "done" /\ reply'[c] = reply[c]
  BY <1>2 DEF Consume, DeliverReply, TakeReply, Finish, Quit, TypeOK
<1>3. ASSUME NEW t \in Task, Deliver(t) \/ Process(t) \/ Expire(t)
      PROVE  caller'[c] = "done" /\ reply'[c] = reply[c]
  BY <1>3 DEF Deliver, Process, Throttled, Start, Work, Expire, RequeueThrottled,
              RequeueUnknown, RunEnds, StoreAndAck, StoreFails, Reply, Send, TypeOK
<1>4. CASE UNCHANGED vars
  BY <1>4 DEF vars
<1> QED BY <1>1, <1>2, <1>3, <1>4 DEF Next

(* A place under the prefetch limit that a caller took along when it gave  *)
(* up does not come back: no handler, no delivery and no deadline touches  *)
(* it, as long as the channel lasts (post.rs:223).                         *)
THEOREM LostPlacesStayLost == Spec => [][Lost \subseteq Lost']_vars
<1>1. TypeOK /\ [Next]_vars => Lost \subseteq Lost'
  BY LostOnward DEF Lost
<1> QED BY <1>1, SingleTyped, PTL DEF Spec
=============================================================================
