---------------------------- MODULE SingleCheck ----------------------------
(***************************************************************************)
(* Single checks, seen from the caller: POST /v1/check_email               *)
(* (backend/src/http/v1/check_email/post.rs) and POST /v0/check_email      *)
(* (backend/src/http/v0/check_email/post.rs).  A direct check is done in   *)
(* the handler, in one of a limited number of slots; otherwise the handler *)
(* publishes a task and waits for the reply.                               *)
(*                                                                         *)
(* Publishing, the worker and the waiting handlers share one channel of    *)
(* one process, and its prefetch limit is global: deliveries of tasks and  *)
(* of replies count together.  Handlers end by an answer or by their       *)
(* deadline, and with them go their slot or their reply queue; but a reply *)
(* that was delivered to a handler and not acknowledged stays with the     *)
(* channel.  What happens when connections break is in module Worker.      *)
(***************************************************************************)
EXTENDS Integers, FiniteSets

CONSTANTS
  Caller,       \* callers of /v1/check_email and /v0/check_email
  Bulk,         \* tasks of bulk jobs in the same queue
  Concurrency,  \* worker.rabbitmq.concurrency, the prefetch limit
  Slots,        \* verification slots for direct checks, the same number
  MaxFailures   \* how often the store may fail for a task (model bound)

Task == Caller \cup Bulk

ASSUME SingleAssumption ==
  /\ Caller \cap Bulk = {}
  /\ IsFiniteSet(Caller \cup Bulk)
  /\ {Concurrency, Slots} \subseteq Nat \ {0}
  /\ MaxFailures \in Nat

VARIABLES
  enabled,      \* worker.enable
  legacy,       \* callers of /v0
  caller,       \* where a handler is
  answer,       \* what its caller got
  task,         \* where the message of a task is
  redelivered,  \* its redelivered flag
  reply,        \* the reply of a task, and what it says
  stored,       \* callers whose result is stored
  failures,     \* failed stores
  spare         \* reservations in the throttle, less verifications begun

config == <<enabled, legacy>>
vars == <<config, caller, answer, task, redelivered, reply, stored, failures,
          spare>>

(* The phases of a handler with a deadline, those with a slot, and those   *)
(* of a delivery that is not settled.                                      *)
Direct == {"admitted", "checking", "storing", "uploading"}
InSlot == {"checking", "storing", "uploading"}
Waiting == Direct \cup {"published", "consuming", "delivered"}
Held == {"buffered", "throttled", "running", "storing"}
Answer == {"none", "ok", "error", "429", "504"}

TypeOK ==
  /\ enabled \in BOOLEAN
  /\ legacy \subseteq Caller
  /\ caller \in [Caller -> {"new", "done"} \cup Waiting]
  /\ answer \in [Caller -> Answer]
  /\ task \in [Task -> {"unborn", "queued", "gone", "replying"} \cup Held]
  /\ redelivered \in [Task -> BOOLEAN]
  /\ reply \in [Caller -> [at : {"none", "queued", "channel"}, says : Answer]]
  /\ stored \subseteq Caller
  /\ failures \in [Task -> Nat]
  /\ spare \in [Task -> Int]

NoReply == [at |-> "none", says |-> "none"]

Init ==
  /\ enabled \in BOOLEAN
  /\ legacy \in SUBSET Caller
  /\ caller = [c \in Caller |-> "new"]
  /\ answer = [c \in Caller |-> "none"]
  /\ task = [t \in Task |-> IF t \in Bulk /\ enabled THEN "queued" ELSE "unborn"]
  /\ redelivered = [t \in Task |-> FALSE]
  /\ reply = [c \in Caller |-> NoReply]
  /\ stored = {}
  /\ failures = [t \in Task |-> 0]
  /\ spare = failures
-----------------------------------------------------------------------------
(* Helpers                                                                 *)

(* What the channel has been sent and not yet settled.                     *)
Unacked == Cardinality({t \in Task : task[t] \in Held})
             + Cardinality({c \in Caller : reply[c].at = "channel"})
LoopFree == \A t \in Task : task[t] # "throttled"
FreeSlots == Slots - Cardinality({c \in Caller : caller[c] \in InSlot})

(* Whether the handler does the check itself.                              *)
Alone(c) == c \in legacy \/ ~enabled

Count(f, t) == [f EXCEPT ![t] = @ + 1]

(* Replies that were delivered and that nobody is left to acknowledge.     *)
Lost == {c \in Caller : caller[c] = "done" /\ reply[c].at = "channel"}

(* The handler returns, and its slot is released.                          *)
Quit(c, a) ==
  /\ caller' = [caller EXCEPT ![c] = "done"]
  /\ answer' = [answer EXCEPT ![c] = a]

(* Its reply queue is deleted too, or its reply acknowledged.              *)
Finish(c, a) ==
  /\ Quit(c, a)
  /\ reply' = [d \in Caller |-> IF d = c THEN NoReply ELSE reply[d]]

(* A reply for a caller who is gone goes nowhere.                          *)
Send(c, says) ==
  reply' = IF caller[c] = "done" THEN reply
           ELSE [reply EXCEPT ![c] = [at |-> "queued", says |-> says]]
-----------------------------------------------------------------------------
(* The handler of a direct check: any /v0 request, and /v1 without worker  *)

(* validate() refused, or the throttle.                                    *)
Refuse(c) ==
  /\ caller[c] = "new"
  /\ \E a \in {"error", "429"} :
       /\ a = "429" => Alone(c)
       /\ Finish(c, a)
  /\ UNCHANGED <<config, task, redelivered, stored, failures, spare>>

(* Faulty: a request is counted whoever does the work.                     *)
AdmitTwice(c) ==
  /\ caller[c] = "new"
  /\ IF Alone(c)
     THEN /\ caller' = [caller EXCEPT ![c] = "admitted"]
          /\ spare' = Count(spare, c)
          /\ UNCHANGED task
     ELSE /\ caller' = [caller EXCEPT ![c] = "published"]
          /\ task' = [task EXCEPT ![c] = "queued"]
          /\ spare' = Count(spare, c)
  /\ UNCHANGED <<config, answer, redelivered, reply, stored, failures>>

(* A direct check reserves its share of the throttle at once; otherwise    *)
(* the reply queue is declared and the task published, to be counted by    *)
(* the worker.                                                             *)
Admit(c) ==
  /\ caller[c] = "new"
  /\ IF Alone(c)
     THEN /\ caller' = [caller EXCEPT ![c] = "admitted"]
          /\ spare' = Count(spare, c)
          /\ UNCHANGED task
     ELSE /\ caller' = [caller EXCEPT ![c] = "published"]
          /\ task' = [task EXCEPT ![c] = "queued"]
          /\ UNCHANGED spare
  /\ UNCHANGED <<config, answer, redelivered, reply, stored, failures>>

TakeSlot(c) ==
  /\ caller[c] = "admitted"
  /\ FreeSlots > 0
  /\ caller' = [caller EXCEPT ![c] = "checking"]
  /\ spare' = [spare EXCEPT ![c] = @ - 1]
  /\ UNCHANGED <<config, answer, task, redelivered, reply, stored, failures>>

(* /v0 answers now; /v1 stores first.                                      *)
Checked(c) ==
  /\ caller[c] = "checking"
  /\ IF c \in legacy THEN Finish(c, "ok")
     ELSE caller' = [caller EXCEPT ![c] = "storing"] /\ UNCHANGED <<answer, reply>>
  /\ UNCHANGED <<config, task, redelivered, stored, failures, spare>>

Stored(c) ==
  /\ caller[c] = "storing"
  /\ caller' = [caller EXCEPT ![c] = "uploading"]
  /\ stored' = stored \cup {c}
  /\ UNCHANGED <<config, answer, task, redelivered, reply, failures, spare>>

(* Faulty: the caller gets the result all the same, as from a worker.      *)
NotStoredAnswering(c) ==
  /\ caller[c] = "storing"
  /\ Finish(c, "ok")
  /\ failures' = Count(failures, c)
  /\ UNCHANGED <<config, task, redelivered, stored, spare>>

NotStored(c) ==
  /\ caller[c] = "storing"
  /\ Finish(c, "error")
  /\ failures' = Count(failures, c)
  /\ UNCHANGED <<config, task, redelivered, stored, spare>>

(* send_to_reacher fails the request although the result is stored.        *)
Uploaded(c) ==
  /\ caller[c] = "uploading"
  /\ \E a \in {"ok", "error"} : Finish(c, a)
  /\ UNCHANGED <<config, task, redelivered, stored, failures, spare>>

(* request_timeout elapsed, or the client hung up; whatever the handler    *)
(* was waiting for is dropped.  A reply it had in hand is acknowledged by  *)
(* nobody, and keeps its place under the prefetch limit.                   *)
Deadline(c) ==
  /\ caller[c] \in Waiting
  /\ IF caller[c] = "delivered" THEN Quit(c, "504") /\ UNCHANGED reply
     ELSE Finish(c, "504")
  /\ UNCHANGED <<config, task, redelivered, stored, failures, spare>>
-----------------------------------------------------------------------------
(* The handler that waits for a worker                                     *)

Consume(c) ==
  /\ caller[c] = "published"
  /\ caller' = [caller EXCEPT ![c] = "consuming"]
  /\ UNCHANGED <<config, answer, task, redelivered, reply, stored, failures, spare>>

DeliverReply(c) ==
  /\ caller[c] = "consuming" /\ reply[c].at = "queued"
  /\ Unacked < Concurrency
  /\ caller' = [caller EXCEPT ![c] = "delivered"]
  /\ reply' = [reply EXCEPT ![c].at = "channel"]
  /\ UNCHANGED <<config, answer, task, redelivered, stored, failures, spare>>

TakeReply(c) ==
  /\ caller[c] = "delivered"
  /\ Finish(c, reply[c].says)
  /\ UNCHANGED <<config, task, redelivered, stored, failures, spare>>

(* The message outlived the deadline of its caller while it was queued.    *)
Expire(t) ==
  /\ task[t] = "queued" /\ t \in Caller /\ caller[t] = "done"
  /\ task' = [task EXCEPT ![t] = "gone"]
  /\ UNCHANGED <<config, caller, answer, redelivered, reply, stored, failures, spare>>
-----------------------------------------------------------------------------
(* The worker, one step per settled delivery                               *)

(* Faulty: single checks are published without a priority.                 *)
DeliverAnyOrder(t) ==
  /\ task[t] = "queued"
  /\ Unacked < Concurrency
  /\ task' = [task EXCEPT ![t] = "buffered"]
  /\ UNCHANGED <<config, caller, answer, redelivered, reply, stored, failures, spare>>

(* Single checks have the highest priority.                                *)
Deliver(t) ==
  /\ task[t] = "queued"
  /\ t \in Bulk => \A c \in Caller : task[c] # "queued"
  /\ Unacked < Concurrency
  /\ task' = [task EXCEPT ![t] = "buffered"]
  /\ UNCHANGED <<config, caller, answer, redelivered, reply, stored, failures, spare>>

(* The loop waits for a throttled bulk task, whatever is buffered behind   *)
(* it, and puts it back; a single check is answered at once.               *)
Throttled(t) ==
  /\ task[t] = "buffered" /\ LoopFree
  /\ IF t \in Bulk
     THEN task' = [task EXCEPT ![t] = "throttled"] /\ UNCHANGED reply
     ELSE task' = [task EXCEPT ![t] = "gone"] /\ Send(t, "429")
  /\ UNCHANGED <<config, caller, answer, redelivered, stored, failures, spare>>

RequeueThrottled(t) ==
  /\ task[t] = "throttled"
  /\ task' = [task EXCEPT ![t] = "queued"]
  /\ redelivered' = [redelivered EXCEPT ![t] = TRUE]
  /\ UNCHANGED <<config, caller, answer, reply, stored, failures, spare>>

(* One reservation, one run.                                               *)
Start(t) ==
  /\ task[t] = "buffered" /\ LoopFree
  /\ task' = [task EXCEPT ![t] = "running"]
  /\ UNCHANGED <<config, caller, answer, redelivered, reply, stored, failures, spare>>

(* An Unknown result is tried once more.                                   *)
RequeueUnknown(t) ==
  /\ task[t] = "running" /\ ~redelivered[t]
  /\ task' = [task EXCEPT ![t] = "queued"]
  /\ redelivered' = [redelivered EXCEPT ![t] = TRUE]
  /\ UNCHANGED <<config, caller, answer, reply, stored, failures, spare>>

RunEnds(t) ==
  /\ task[t] = "running"
  /\ task' = [task EXCEPT ![t] = "storing"]
  /\ UNCHANGED <<config, caller, answer, redelivered, reply, stored, failures, spare>>

(* Stored, then acknowledged; the reply follows.                           *)
StoreAndAck(t) ==
  /\ task[t] = "storing"
  /\ stored' = IF t \in Bulk THEN stored ELSE stored \cup {t}
  /\ task' = [task EXCEPT ![t] = IF t \in Caller THEN "replying" ELSE "gone"]
  /\ UNCHANGED <<config, caller, answer, redelivered, reply, failures, spare>>

(* A single check is answered without being stored; a bulk task is         *)
(* republished, and the copy starts anew.                                  *)
StoreFails(t) ==
  /\ task[t] = "storing" /\ failures[t] < MaxFailures
  /\ failures' = Count(failures, t)
  /\ IF t \in Caller
     THEN task' = [task EXCEPT ![t] = "replying"] /\ UNCHANGED redelivered
     ELSE /\ task' = [task EXCEPT ![t] = "queued"]
          /\ redelivered' = [redelivered EXCEPT ![t] = FALSE]
  /\ UNCHANGED <<config, caller, answer, reply, stored, spare>>

(* The result, or the worker's own deadline.                               *)
Reply(t) ==
  /\ task[t] = "replying"
  /\ \E says \in {"ok", "504"} : Send(t, says)
  /\ task' = [task EXCEPT ![t] = "gone"]
  /\ UNCHANGED <<config, caller, answer, redelivered, stored, failures, spare>>
-----------------------------------------------------------------------------
Handle(c) ==
  \/ TakeSlot(c) \/ Checked(c) \/ Stored(c) \/ NotStored(c) \/ Uploaded(c)
Work(t) ==
  \/ RequeueThrottled(t) \/ RequeueUnknown(t) \/ RunEnds(t)
  \/ StoreAndAck(t) \/ StoreFails(t) \/ (t \in Caller /\ Reply(t))
Process(t) == Throttled(t) \/ Start(t) \/ Work(t)

Next ==
  \/ \E c \in Caller : Refuse(c) \/ Admit(c) \/ Handle(c) \/ Deadline(c)
  \/ \E c \in Caller : Consume(c) \/ DeliverReply(c) \/ TakeReply(c)
  \/ \E t \in Task : Deliver(t) \/ Process(t) \/ Expire(t)

Spec == Init /\ [][Next]_vars

(* Handlers and tasks run on, the loop takes what it was delivered in the  *)
(* order it came, so that nothing in its buffer is overtaken for ever, and *)
(* the broker lets a reply queue have its turn.  No deadline is assumed to *)
(* strike, and the throttle may never relent.                              *)
Fairness ==
  /\ \A c \in Caller : /\ WF_vars(Handle(c) \/ Consume(c) \/ TakeReply(c))
                       /\ SF_vars(DeliverReply(c))
                       /\ WF_vars(Deliver(c))
                       /\ SF_vars(Process(c))
  /\ \A b \in Bulk : WF_vars(Process(b))
FairSpec == Spec /\ Fairness
-----------------------------------------------------------------------------
(* Properties                                                              *)

(* A result that /v1 hands out is stored by then, unless a worker could    *)
(* not store it (do_work.rs:200): a direct check then fails instead.       *)
StoredBeforeAnswered ==
  \A c \in Caller \ legacy : answer[c] = "ok" =>
    c \in stored \/ (enabled /\ failures[c] > 0)

(* The throttle counts what is verified: with a worker every run once and  *)
(* nothing else, directly no run uncounted (post.rs:198, consume.rs:154).  *)
CountedPerRun ==
  /\ \A t \in Task : spare[t] >= 0
  /\ \A t \in Task \ legacy : enabled => spare[t] = 0

(* A request gets its answer without the help of its deadline, unless the  *)
(* callers before it gave up with their replies in hand as often as there  *)
(* are places under the prefetch limit (post.rs:223, consume.rs:92): bulk  *)
(* work, throttled work, other callers' replies and fewer such losses do   *)
(* not block it for ever.                                                  *)
EveryoneAnswered ==
  \A c \in Caller : (caller[c] \in Waiting) ~>
    (caller[c] = "done" \/ Cardinality(Lost) >= Concurrency)
=============================================================================
