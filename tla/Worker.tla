------------------------------- MODULE Worker -------------------------------
(***************************************************************************)
(* The RabbitMQ worker of the backend (backend/src/worker/consume.rs and   *)
(* do_work.rs): several worker processes consume the queue "check_email",  *)
(* verify an address, store the result in Postgres and only then           *)
(* acknowledge, answer the caller and notify the webhook.  A connection    *)
(* may break and a process may exit between any two steps.                 *)
(*                                                                         *)
(* A message is a broker message: a task starts as one message and gets a  *)
(* further one each time a storage failure republishes it.  A run is what  *)
(* a process does with one delivery; it can outlive the broker's           *)
(* ownership of that delivery, when the connection broke and the process   *)
(* has not noticed yet.  Crash is LoseConnection followed by Exit.         *)
(***************************************************************************)
EXTENDS Naturals, Sequences, FiniteSets

CONSTANTS
  Worker,              \* worker processes, one channel each
  Msg,                 \* broker messages that can ever exist (model bound)
  Task,                \* queued tasks
  Bulk,                \* tasks of bulk jobs
  Single,              \* tasks of POST /v1/check_email; the rest is malformed
  Untagged,            \* bulk tasks published before task_id existed
  Concurrency,         \* worker.rabbitmq.concurrency, the channel's prefetch
  MaxStorageAttempts,  \* MAX_STORAGE_ATTEMPTS, 20 in the code
  MaxLosses,           \* how many connections may break (model bound)
  BrokerMayNack,       \* whether the broker may refuse a republished copy
  NoTask

Place == {"unborn", "ready", "gone", "parked"}
Outcome == {"known", "unknown", "timeout"}

ASSUME TaskAssumption ==
  /\ Bulk \cup Single \subseteq Task
  /\ Bulk \cap Single = {}
  /\ Untagged \subseteq Bulk
  /\ NoTask \notin Task
ASSUME PlaceAssumption == Worker \cap Place = {}
ASSUME NumberAssumption ==
  /\ Concurrency \in Nat \ {0}
  /\ MaxStorageAttempts \in Nat \ {0}
  /\ MaxLosses \in Nat
  /\ BrokerMayNack \in BOOLEAN

VARIABLES
  at,           \* where the broker has a message: a place, or its holder
  job,          \* the task a message carries
  attempts,     \* header x-reacher-storage-attempts of a message
  redelivered,  \* the broker's redelivered flag of a message
  link,         \* connection of a process: up, broken but unnoticed, down
  run,          \* what a process does with a delivery
  rows,         \* rows of v1_task_result per task, in insertion order
  losses        \* connections broken so far
(***************************************************************************)
(* What the outside sees, kept as history: tasks whose copy the broker     *)
(* refused, replies to the caller, tasks whose webhook was notified.       *)
(***************************************************************************)
VARIABLES nacked, replies, notified

broker == <<at, job, attempts, redelivered>>
effects == <<nacked, replies, notified>>
vars == <<broker, link, run, rows, losses, effects>>

Phase == {"idle", "buffered", "waiting", "refusing", "checking", "storing",
          "stored", "unstored", "copied", "replying", "notifying"}
(* The phases in which the delivery is not settled yet.                    *)
Owning == {"buffered", "waiting", "checking", "storing", "stored",
           "unstored", "copied"}
(* The phases in which the consumer loop itself is busy.                   *)
InLoop == {"waiting", "refusing"}

Run == [pc : Phase, again : BOOLEAN, out : Outcome \cup {"none"}]
NoRun == [pc |-> "idle", again |-> FALSE, out |-> "none"]

TypeOK ==
  /\ at \in [Msg -> Place \cup Worker]
  /\ job \in [Msg -> Task \cup {NoTask}]
  /\ attempts \in [Msg -> Nat]
  /\ redelivered \in [Msg -> BOOLEAN]
  /\ link \in [Worker -> {"up", "broken", "down"}]
  /\ run \in [Worker -> [Msg -> Run]]
  /\ rows \in [Task -> Seq(Outcome)]
  /\ losses \in Nat
  /\ nacked \in SUBSET Task
  /\ replies \in [Task -> Nat]
  /\ notified \in SUBSET (Task \cup {NoTask})

Init ==
  /\ at = [m \in Msg |-> "unborn"]
  /\ job = [m \in Msg |-> NoTask]
  /\ attempts = [m \in Msg |-> 0]
  /\ redelivered = [m \in Msg |-> FALSE]
  /\ link = [w \in Worker |-> "up"]
  /\ run = [w \in Worker |-> [m \in Msg |-> NoRun]]
  /\ rows = [t \in Task |-> <<>>]
  /\ losses = 0
  /\ nacked = {}
  /\ replies = [t \in Task |-> 0]
  /\ notified = {}
-----------------------------------------------------------------------------
(* Helpers                                                                 *)

Published(t) == \E m \in Msg : job[m] = t
Unacked(w) == {m \in Msg : at[m] = w}
LoopFree(w) == \A m \in Msg : run[w][m].pc \notin InLoop
Unborn == {m \in Msg : at[m] = "unborn"}
Fresh == CHOOSE m \in Unborn : TRUE

Goto(w, m, pc) == run' = [run EXCEPT ![w][m].pc = pc]
Finish(w, m) == run' = [run EXCEPT ![w][m] = NoRun]

(* A frame on a broken connection is written without an error and never    *)
(* arrives; the broker has already put the message back.                   *)
Settle(w, m) ==
  /\ at' = IF link[w] = "up" THEN [at EXCEPT ![m] = "gone"] ELSE at
  /\ UNCHANGED <<job, attempts, redelivered>>

Requeue(w, m) ==
  /\ IF link[w] = "up"
     THEN /\ at' = [at EXCEPT ![m] = "ready"]
          /\ redelivered' = [redelivered EXCEPT ![m] = TRUE]
     ELSE UNCHANGED <<at, redelivered>>
  /\ UNCHANGED <<job, attempts>>

(* A new message of task t: the original, or a copy.                       *)
Enqueue(t, n, place) ==
  /\ Unborn # {}
  /\ at' = [at EXCEPT ![Fresh] = place]
  /\ job' = [job EXCEPT ![Fresh] = t]
  /\ attempts' = [attempts EXCEPT ![Fresh] = n]
  /\ UNCHANGED redelivered

(* Faulty: no unique task_id.                                              *)
InsertedAlways(t, o) == [rows EXCEPT ![t] = Append(@, o)]

(* Faulty: ON CONFLICT (task_id) DO UPDATE.                                *)
InsertedReplacing(t, o) ==
  [rows EXCEPT ![t] = IF t \in Untagged THEN Append(@, o) ELSE <<o>>]

(* INSERT ... ON CONFLICT (task_id) DO NOTHING; rows without a task_id     *)
(* never conflict.                                                         *)
Inserted(t, o) ==
  IF t \in Untagged \/ rows[t] = <<>>
  THEN [rows EXCEPT ![t] = Append(@, o)]
  ELSE rows
-----------------------------------------------------------------------------
(* The broker                                                              *)

Publish(t) ==
  /\ ~Published(t)
  /\ Enqueue(t, 0, "ready")
  /\ UNCHANGED <<link, run, rows, losses, effects>>

Deliver(w, m) ==
  /\ link[w] = "up"
  /\ at[m] = "ready"
  /\ Cardinality(Unacked(w)) < Concurrency
  /\ at' = [at EXCEPT ![m] = w]
  /\ run' = [run EXCEPT ![w][m] =
               [pc |-> "buffered", again |-> redelivered[m], out |-> "none"]]
  /\ UNCHANGED <<job, attempts, redelivered, link, rows, losses, effects>>

(* A single-shot message still queued at the request deadline is dropped.  *)
Expire(m) ==
  /\ at[m] = "ready"
  /\ job[m] \in Single
  /\ at' = [at EXCEPT ![m] = "gone"]
  /\ UNCHANGED <<job, attempts, redelivered, link, run, rows, losses, effects>>

LoseConnection(w) ==
  /\ link[w] = "up"
  /\ losses < MaxLosses
  /\ losses' = losses + 1
  /\ link' = [link EXCEPT ![w] = "broken"]
  /\ at' = [m \in Msg |-> IF at[m] = w THEN "ready" ELSE at[m]]
  /\ redelivered' = [m \in Msg |-> redelivered[m] \/ at[m] = w]
  /\ UNCHANGED <<job, attempts, run, rows, effects>>
-----------------------------------------------------------------------------
(* The consumer loop                                                       *)

(* Faulty: a message that cannot be decoded is put back.                   *)
DropMalformedRequeueing(w, m) ==
  /\ run[w][m].pc = "buffered" /\ LoopFree(w)
  /\ job[m] \notin Bulk \cup Single
  /\ Requeue(w, m)
  /\ Finish(w, m)
  /\ UNCHANGED <<link, rows, losses, effects>>

DropMalformed(w, m) ==
  /\ run[w][m].pc = "buffered" /\ LoopFree(w)
  /\ job[m] \notin Bulk \cup Single
  /\ Settle(w, m)
  /\ Finish(w, m)
  /\ UNCHANGED <<link, rows, losses, effects>>

(* No throttle capacity: a single-shot task is rejected and then refused.  *)
RejectThrottled(w, m) ==
  /\ run[w][m].pc = "buffered" /\ LoopFree(w)
  /\ job[m] \in Single
  /\ Settle(w, m)
  /\ Goto(w, m, "refusing")
  /\ UNCHANGED <<link, rows, losses, effects>>

(* No throttle capacity: with a bulk task the loop sleeps first ...        *)
WaitThrottled(w, m) ==
  /\ run[w][m].pc = "buffered" /\ LoopFree(w)
  /\ job[m] \in Bulk
  /\ Goto(w, m, "waiting")
  /\ UNCHANGED <<broker, link, rows, losses, effects>>

(* Faulty: the loop goes on without putting the message back.              *)
ForgetThrottled(w, m) ==
  /\ run[w][m].pc = "waiting"
  /\ Finish(w, m)
  /\ UNCHANGED <<broker, link, rows, losses, effects>>

(* ... and then puts the message back.                                     *)
RequeueThrottled(w, m) ==
  /\ run[w][m].pc = "waiting"
  /\ Requeue(w, m)
  /\ Finish(w, m)
  /\ UNCHANGED <<link, rows, losses, effects>>

(* Faulty: the delivery is acknowledged before it is worked on.            *)
StartAcknowledging(w, m) ==
  /\ run[w][m].pc = "buffered" /\ LoopFree(w)
  /\ job[m] \in Bulk \cup Single
  /\ Settle(w, m)
  /\ Goto(w, m, "checking")
  /\ UNCHANGED <<link, rows, losses, effects>>

Start(w, m) ==
  /\ run[w][m].pc = "buffered" /\ LoopFree(w)
  /\ job[m] \in Bulk \cup Single
  /\ Goto(w, m, "checking")
  /\ UNCHANGED <<broker, link, rows, losses, effects>>
-----------------------------------------------------------------------------
(* The spawned task                                                        *)

(* A first delivery whose result is Unknown goes back to the queue.        *)
RequeueUnknown(w, m) ==
  /\ run[w][m].pc = "checking"
  /\ ~run[w][m].again
  /\ Requeue(w, m)
  /\ Finish(w, m)
  /\ UNCHANGED <<link, rows, losses, effects>>

CheckDone(w, m, o) ==
  /\ run[w][m].pc = "checking"
  /\ o = "unknown" => run[w][m].again
  /\ run' = [run EXCEPT ![w][m] = [@ EXCEPT !.pc = "storing", !.out = o]]
  /\ UNCHANGED <<broker, link, rows, losses, effects>>

Store(w, m) ==
  /\ run[w][m].pc = "storing"
  /\ rows' = Inserted(job[m], run[w][m].out)
  /\ Goto(w, m, "stored")
  /\ UNCHANGED <<broker, link, losses, effects>>

(* The store call returns an error; the row may be there all the same.     *)
StoreFails(w, m) ==
  /\ run[w][m].pc = "storing"
  /\ rows' \in {rows, Inserted(job[m], run[w][m].out)}
  /\ Goto(w, m, "unstored")
  /\ UNCHANGED <<broker, link, losses, effects>>

(* Faulty: the caller is answered without an acknowledgement.              *)
AckForgotten(w, m) ==
  /\ run[w][m].pc = "stored"
  /\ IF job[m] \in Single THEN Goto(w, m, "replying")
     ELSE IF run[w][m].out = "timeout" THEN Finish(w, m)
     ELSE Goto(w, m, "notifying")
  /\ UNCHANGED <<broker, link, rows, losses, effects>>

(* Acknowledged; a caller is answered next, a webhook notified unless the  *)
(* check timed out.                                                        *)
Ack(w, m) ==
  /\ run[w][m].pc = "stored"
  /\ Settle(w, m)
  /\ IF job[m] \in Single THEN Goto(w, m, "replying")
     ELSE IF run[w][m].out = "timeout" THEN Finish(w, m)
     ELSE Goto(w, m, "notifying")
  /\ UNCHANGED <<link, rows, losses, effects>>

(* A single-shot result that cannot be stored is sent to the caller.       *)
RejectUnstored(w, m) ==
  /\ run[w][m].pc = "unstored"
  /\ job[m] \in Single
  /\ Settle(w, m)
  /\ Goto(w, m, "replying")
  /\ UNCHANGED <<link, rows, losses, effects>>

(* retry_after_storage_failure: a copy with one attempt more goes to the   *)
(* queue or, at the limit, to check_email.failed.  A refused copy looks    *)
(* like a published one: the confirmation is awaited and not examined.     *)
Republish(w, m) ==
  LET n == attempts[m] + 1
      place == IF n >= MaxStorageAttempts THEN "parked" ELSE "ready"
  IN  /\ run[w][m].pc = "unstored"
      /\ job[m] \in Bulk
      /\ \/ /\ link[w] = "up"
            /\ Enqueue(job[m], n, place)
            /\ Goto(w, m, "copied")
            /\ UNCHANGED nacked
         \/ /\ link[w] = "up" /\ BrokerMayNack
            /\ nacked' = nacked \cup {job[m]}
            /\ Goto(w, m, "copied")
            /\ UNCHANGED broker
         \/ /\ link[w] # "up"
            /\ Finish(w, m)
            /\ UNCHANGED <<broker, nacked>>
      /\ UNCHANGED <<link, rows, losses, replies, notified>>

AckOriginal(w, m) ==
  /\ run[w][m].pc = "copied"
  /\ Settle(w, m)
  /\ Finish(w, m)
  /\ UNCHANGED <<link, rows, losses, effects>>

Reply(w, m) ==
  /\ run[w][m].pc \in {"replying", "refusing"}
  /\ replies' = [replies EXCEPT ![job[m]] = IF link[w] = "up" THEN @ + 1 ELSE @]
  /\ Finish(w, m)
  /\ UNCHANGED <<broker, link, rows, losses, nacked, notified>>

(* Faulty: the webhook is notified of a result that is not stored yet.     *)
NotifyBeforeStore(w, m) ==
  /\ run[w][m].pc = "storing"
  /\ job[m] \notin notified
  /\ notified' = notified \cup {job[m]}
  /\ UNCHANGED <<broker, link, run, rows, losses, nacked, replies>>

(* send_webhook_with tries three times, and what it sends may arrive       *)
(* although it looks like a failure: delivered, once or more, or given up. *)
Notify(w, m) ==
  /\ run[w][m].pc = "notifying"
  /\ notified' \in {notified, notified \cup {job[m]}}
  /\ Finish(w, m)
  /\ UNCHANGED <<broker, link, rows, losses, nacked, replies>>
-----------------------------------------------------------------------------
(* The process                                                             *)

(* The consumer stream ends, main returns and every spawned task dies.     *)
Exit(w) ==
  /\ link[w] = "broken"
  /\ link' = [link EXCEPT ![w] = "down"]
  /\ run' = [run EXCEPT ![w] = [m \in Msg |-> NoRun]]
  /\ UNCHANGED <<broker, rows, losses, effects>>

(* A supervisor starts it again.                                           *)
Restart(w) ==
  /\ link[w] = "down"
  /\ link' = [link EXCEPT ![w] = "up"]
  /\ UNCHANGED <<broker, run, rows, losses, effects>>

Loop(w, m) ==
  \/ DropMalformed(w, m) \/ RejectThrottled(w, m) \/ WaitThrottled(w, m)
  \/ RequeueThrottled(w, m) \/ Start(w, m)

Work(w, m) ==
  \/ RequeueUnknown(w, m)
  \/ \E o \in Outcome : CheckDone(w, m, o)
  \/ Store(w, m) \/ StoreFails(w, m) \/ Ack(w, m)
  \/ RejectUnstored(w, m) \/ Republish(w, m) \/ AckOriginal(w, m)
  \/ Reply(w, m) \/ Notify(w, m)

Next ==
  \/ \E t \in Task : Publish(t)
  \/ \E m \in Msg : Expire(m)
  \/ \E w \in Worker : LoseConnection(w) \/ Exit(w) \/ Restart(w)
  \/ \E w \in Worker, m \in Msg : Deliver(w, m) \/ Loop(w, m) \/ Work(w, m)

Spec == Init /\ [][Next]_vars

(***************************************************************************)
(* What the runtime guarantees: a supervisor restarts a process, a broken  *)
(* connection is noticed (heartbeats), a spawned task is polled until it   *)
(* ends (every wait in it has a deadline), the loop takes what is          *)
(* buffered, and the broker delivers a message that keeps being at the     *)
(* head of its queue with prefetch to spare.  Throttle windows reset, so a *)
(* message that keeps coming back finds capacity at some time.             *)
(***************************************************************************)
Fairness ==
  /\ \A w \in Worker : WF_vars(Exit(w)) /\ WF_vars(Restart(w))
  /\ \A w \in Worker : WF_vars(\E m \in Msg : Loop(w, m))
  /\ \A w \in Worker : WF_vars(\E m \in Msg : Work(w, m))
  /\ \A m \in Msg : SF_vars(\E w \in Worker : Deliver(w, m))
  /\ \A m \in Msg : SF_vars(\E w \in Worker : Start(w, m))

FairSpec == Spec /\ Fairness
-----------------------------------------------------------------------------
(* Safety                                                                  *)

InFlight(m) == at[m] \in {"ready", "parked"} \cup Worker

(* A task that was accepted is never lost: at any moment, whatever broke,  *)
(* its result is stored, or the broker still has one of its messages       *)
(* (queued, delivered or parked), or the broker refused its copy.  Storing *)
(* before acknowledging and publishing the copy before acknowledging the   *)
(* original are what this is about (do_check_email_work,                   *)
(* retry_after_storage_failure).                                           *)
NoLostTask ==
  \A t \in Bulk : Published(t) =>
    \/ rows[t] # <<>>
    \/ \E m \in Msg : job[m] = t /\ InFlight(m)
    \/ t \in nacked

(* A task with a task_id has at most one row, however often it is          *)
(* redelivered, copied, or stored by a process whose answer got lost: the  *)
(* progress of a bulk job counts these rows.                               *)
OneRowPerTask == \A t \in Task \ Untagged : Len(rows[t]) <= 1

(* The broker and the processes agree on who works on what: on a working   *)
(* connection a process holds exactly the deliveries it has not settled,   *)
(* and no message is held through a broken one.                            *)
OwnedDeliveries ==
  \A w \in Worker, m \in Msg :
    /\ at[m] = w => link[w] = "up"
    /\ link[w] = "up" => (at[m] = w <=> run[w][m].pc \in Owning)

(* A webhook is notified only of a task whose result is stored.            *)
NotifiedAfterStored == \A t \in notified : rows[t] # <<>>

(* A caller gets at most one reply, although its task may be verified by   *)
(* two processes: the reply of one the broker dropped does not arrive.     *)
OneReplyPerCaller == \A t \in Task : replies[t] <= 1

-----------------------------------------------------------------------------
(* Liveness; that every bulk task is settled in the end is the progress    *)
(* property of WorkerLedger.                                               *)

(* The queue runs empty in the end: no malformed, throttled, bounced or    *)
(* unstored message circulates for ever.                                   *)
QueueDrains == <>[](\A m \in Msg : at[m] \in {"unborn", "gone", "parked"})
-----------------------------------------------------------------------------
(* do_work.rs: "The original message is acked only after the copy is       *)
(* published, so a failure here still redelivers it."  The run worker_nack *)
(* refutes it.                                                             *)
UnpublishedCopyRedelivers ==
  \A t \in Bulk : Published(t) =>
    rows[t] # <<>> \/ \E m \in Msg : job[m] = t /\ InFlight(m)
=============================================================================
