---------------------------- MODULE WorkerProofs ----------------------------
(***************************************************************************)
(* Proofs about the worker, for every number of processes, messages and    *)
(* tasks, every prefetch and every number of broken connections.           *)
(***************************************************************************)
EXTENDS WorkerLedger, FiniteSetTheorems, TLAPS

(* A run that has a result to store, or has stored it, has a result.       *)
OutputKnown ==
  \A w \in Worker, m \in Msg :
    run[w][m].pc \in {"storing", "stored", "notifying"} => run[w][m].out \in Outcome

LEMMA FreshUnborn ==
  Unborn # {} => Fresh \in Msg /\ at[Fresh] = "unborn"
BY DEF Unborn, Fresh

LEMMA CountType ==
  ASSUME NEW S, NEW f \in [S -> Nat], NEW x
  PROVE  [f EXCEPT ![x] = @ + 1] \in [S -> Nat]
<1>1. CASE x \in S
  <2>1. f[x] + 1 \in Nat
    BY <1>1
  <2>2. QED
    BY <2>1
<1>2. CASE x \notin S
  BY <1>2
<1>3. QED
  BY <1>1, <1>2

LEMMA InsertedType ==
  ASSUME rows \in [Task -> Seq(Outcome)], NEW t, NEW o \in Outcome
  PROVE  Inserted(t, o) \in [Task -> Seq(Outcome)]
<1>1. CASE t \in Task
  <2>1. rows[t] \in Seq(Outcome)
    BY <1>1
  <2>2. Append(rows[t], o) \in Seq(Outcome)
    BY <2>1
  <2>3. QED
    BY <2>2 DEF Inserted
<1>2. CASE t \notin Task
  BY <1>2 DEF Inserted
<1>3. QED
  BY <1>1, <1>2

Runs == [Worker -> [Msg -> Run]]
OthersSame(w, m) ==
  \A v \in Worker, n \in Msg : <<v, n>> # <<w, m>> => run'[v][n] = run[v][n]

(* A step of one run leaves the others alone.                              *)
LEMMA RunUpdate ==
  ASSUME run \in Runs, NEW w \in Worker, NEW m \in Msg, NEW r \in Run,
         run' = [run EXCEPT ![w][m] = r]
  PROVE  run' \in Runs /\ run'[w][m] = r /\ OthersSame(w, m)
<1>1. run[w] \in [Msg -> Run]
  BY DEF Runs
<1>2. [run[w] EXCEPT ![m] = r] \in [Msg -> Run]
  BY <1>1
<1>3. run' = [run EXCEPT ![w] = [run[w] EXCEPT ![m] = r]]
  OBVIOUS
<1>4. QED
  BY <1>1, <1>2, <1>3 DEF Runs, OthersSame

LEMMA GotoEffect ==
  ASSUME run \in Runs, NEW w \in Worker, NEW m \in Msg, NEW pc \in Phase,
         Goto(w, m, pc)
  PROVE  /\ run' \in Runs
         /\ run'[w][m] = [run[w][m] EXCEPT !.pc = pc]
         /\ run'[w][m].pc = pc /\ run'[w][m].out = run[w][m].out
         /\ OthersSame(w, m)
<1>1. run[w][m] \in Run
  BY DEF Runs
<1>2. [run[w][m] EXCEPT !.pc = pc] \in Run
  BY <1>1 DEF Run
<1>3. run' = [run EXCEPT ![w][m] = [run[w][m] EXCEPT !.pc = pc]]
  BY DEF Goto
<1>4. run' \in Runs /\ run'[w][m] = [run[w][m] EXCEPT !.pc = pc] /\ OthersSame(w, m)
  BY <1>2, <1>3, RunUpdate
<1>5. QED
  BY <1>1, <1>4 DEF Run

LEMMA FinishEffect ==
  ASSUME run \in Runs, NEW w \in Worker, NEW m \in Msg, Finish(w, m)
  PROVE  /\ run' \in Runs
         /\ run'[w][m] = NoRun /\ run'[w][m].pc = "idle"
         /\ OthersSame(w, m)
<1>1. NoRun \in Run /\ NoRun.pc = "idle"
  BY DEF NoRun, Run, Phase
<1>2. QED
  BY <1>1, RunUpdate DEF Finish

LEMMA GotoKeeps ==
  ASSUME TypeOK, OutputKnown, NEW w \in Worker, NEW m \in Msg, NEW pc \in Phase,
         Goto(w, m, pc),
         pc \in {"storing", "stored", "notifying"} => run[w][m].out \in Outcome
  PROVE  run' \in Runs /\ OutputKnown'
<1>1. run \in Runs
  BY DEF TypeOK, Runs
<1>2. /\ run' \in Runs
      /\ run'[w][m].pc = pc /\ run'[w][m].out = run[w][m].out
      /\ OthersSame(w, m)
  BY <1>1, GotoEffect
<1>3. QED
  BY <1>2 DEF OutputKnown, OthersSame

LEMMA FinishKeeps ==
  ASSUME TypeOK, OutputKnown, NEW w \in Worker, NEW m \in Msg, Finish(w, m)
  PROVE  run' \in Runs /\ OutputKnown'
<1>1. run \in Runs
  BY DEF TypeOK, Runs
<1>2. run' \in Runs /\ run'[w][m].pc = "idle" /\ OthersSame(w, m)
  BY <1>1, FinishEffect
<1>3. QED
  BY <1>2 DEF OutputKnown, OthersSame

LEMMA InitType == Init => TypeOK /\ OutputKnown
BY NumberAssumption DEF Init, TypeOK, OutputKnown, Run, NoRun, Phase, Place

LEMMA BrokerType ==
  ASSUME TypeOK, OutputKnown,
         \/ \E t \in Task : Publish(t)
         \/ \E m \in Msg : Expire(m)
         \/ \E w \in Worker : LoseConnection(w) \/ Exit(w) \/ Restart(w)
         \/ \E w \in Worker, m \in Msg : Deliver(w, m)
  PROVE  TypeOK' /\ OutputKnown'
<1>1. ASSUME NEW t \in Task, Publish(t) PROVE TypeOK' /\ OutputKnown'
  BY <1>1, FreshUnborn DEF Publish, Enqueue, TypeOK, OutputKnown, effects, Place
<1>2. ASSUME NEW m \in Msg, Expire(m) PROVE TypeOK' /\ OutputKnown'
  BY <1>2 DEF Expire, TypeOK, OutputKnown, effects, Place
<1>3. ASSUME NEW w \in Worker, LoseConnection(w) PROVE TypeOK' /\ OutputKnown'
  BY <1>3 DEF LoseConnection, TypeOK, OutputKnown, effects, Place
<1>4. ASSUME NEW w \in Worker, Exit(w) PROVE TypeOK' /\ OutputKnown'
  BY <1>4 DEF Exit, TypeOK, OutputKnown, effects, broker, NoRun, Run, Phase
<1>5. ASSUME NEW w \in Worker, Restart(w) PROVE TypeOK' /\ OutputKnown'
  BY <1>5 DEF Restart, TypeOK, OutputKnown, effects, broker
<1>6. ASSUME NEW w \in Worker, NEW m \in Msg, Deliver(w, m)
      PROVE  TypeOK' /\ OutputKnown'
  BY <1>6 DEF Deliver, TypeOK, OutputKnown, effects, Run, Phase
<1>7. QED
  BY <1>1, <1>2, <1>3, <1>4, <1>5, <1>6

LEMMA LoopType ==
  ASSUME TypeOK, OutputKnown, NEW w \in Worker, NEW m \in Msg, Loop(w, m)
  PROVE  TypeOK' /\ OutputKnown'
<1>1. CASE DropMalformed(w, m)
  <2>1. run' \in Runs /\ OutputKnown'
    BY <1>1, FinishKeeps DEF DropMalformed
  <2>2. QED
    BY <1>1, <2>1 DEF DropMalformed, Settle, Place, effects, TypeOK, Runs
<1>2. CASE RejectThrottled(w, m)
  <2>1. run' \in Runs /\ OutputKnown'
    BY <1>2, GotoKeeps DEF RejectThrottled, Phase
  <2>2. QED
    BY <1>2, <2>1 DEF RejectThrottled, Settle, Place, effects, TypeOK, Runs
<1>3. CASE WaitThrottled(w, m)
  <2>1. run' \in Runs /\ OutputKnown'
    BY <1>3, GotoKeeps DEF WaitThrottled, Phase
  <2>2. QED
    BY <1>3, <2>1 DEF WaitThrottled, broker, effects, TypeOK, Runs
<1>4. CASE RequeueThrottled(w, m)
  <2>1. run' \in Runs /\ OutputKnown'
    BY <1>4, FinishKeeps DEF RequeueThrottled
  <2>2. QED
    BY <1>4, <2>1 DEF RequeueThrottled, Requeue, Place, effects, TypeOK, Runs
<1>5. CASE Start(w, m)
  <2>1. run' \in Runs /\ OutputKnown'
    BY <1>5, GotoKeeps DEF Start, Phase
  <2>2. QED
    BY <1>5, <2>1 DEF Start, broker, effects, TypeOK, Runs
<1>6. QED
  BY <1>1, <1>2, <1>3, <1>4, <1>5 DEF Loop

LEMMA WorkType ==
  ASSUME TypeOK, OutputKnown, NEW w \in Worker, NEW m \in Msg, Work(w, m)
  PROVE  TypeOK' /\ OutputKnown'
<1>1. CASE RequeueUnknown(w, m)
  <2>1. run' \in Runs /\ OutputKnown'
    BY <1>1, FinishKeeps DEF RequeueUnknown
  <2>2. QED
    BY <1>1, <2>1 DEF RequeueUnknown, Requeue, Place, effects, TypeOK, Runs
<1>2. ASSUME NEW o \in Outcome, CheckDone(w, m, o)
      PROVE  TypeOK' /\ OutputKnown'
  <2> DEFINE r == [run[w][m] EXCEPT !.pc = "storing", !.out = o]
  <2>1. run \in Runs /\ run[w][m] \in Run
    BY DEF TypeOK, Runs
  <2>2. r \in Run /\ r.out = o
    BY <2>1 DEF Run, Phase
  <2>3. run' = [run EXCEPT ![w][m] = r]
    BY <1>2 DEF CheckDone
  <2>4. run' \in Runs /\ run'[w][m] = r /\ OthersSame(w, m)
    BY <2>1, <2>2, <2>3, RunUpdate
  <2>5. OutputKnown'
    BY <2>2, <2>4 DEF OutputKnown, OthersSame
  <2>6. QED
    BY <1>2, <2>4, <2>5 DEF CheckDone, TypeOK, Runs, broker, effects
<1>3. CASE Store(w, m)
  <2>1. run' \in Runs /\ OutputKnown'
    BY <1>3, GotoKeeps DEF Store, OutputKnown, Phase
  <2>2. rows' \in [Task -> Seq(Outcome)]
    BY <1>3, InsertedType DEF Store, TypeOK, OutputKnown
  <2>3. QED
    BY <1>3, <2>1, <2>2 DEF Store, TypeOK, Runs, broker, effects
<1>4. CASE StoreFails(w, m)
  <2>1. run' \in Runs /\ OutputKnown'
    BY <1>4, GotoKeeps DEF StoreFails, Phase
  <2>2. rows' \in [Task -> Seq(Outcome)]
    BY <1>4, InsertedType DEF StoreFails, TypeOK, OutputKnown
  <2>3. QED
    BY <1>4, <2>1, <2>2 DEF StoreFails, TypeOK, Runs, broker, effects
<1>5. CASE Ack(w, m)
  <2>1. run' \in Runs /\ OutputKnown'
    BY <1>5, GotoKeeps, FinishKeeps DEF Ack, OutputKnown, Phase
  <2>2. QED
    BY <1>5, <2>1 DEF Ack, Settle, Place, effects, TypeOK, Runs
<1>6. CASE RejectUnstored(w, m)
  <2>1. run' \in Runs /\ OutputKnown'
    BY <1>6, GotoKeeps DEF RejectUnstored, Phase
  <2>2. QED
    BY <1>6, <2>1 DEF RejectUnstored, Settle, Place, effects, TypeOK, Runs
<1>7. CASE Republish(w, m)
  <2>1. run' \in Runs /\ OutputKnown'
    BY <1>7, GotoKeeps, FinishKeeps DEF Republish, OutputKnown, Phase
  <2>2. job[m] \in Task /\ attempts[m] + 1 \in Nat
    BY <1>7, TaskAssumption DEF Republish, TypeOK
  <2>3. /\ at' \in [Msg -> Place \cup Worker]
        /\ job' \in [Msg -> Task \cup {NoTask}]
        /\ attempts' \in [Msg -> Nat]
        /\ redelivered' \in [Msg -> BOOLEAN]
    <3>1. CASE UNCHANGED broker
      BY <3>1 DEF broker, TypeOK
    <3>2. CASE Enqueue(job[m], attempts[m] + 1, IF attempts[m] + 1 >= MaxStorageAttempts
                                                THEN "parked" ELSE "ready")
      BY <3>2, <2>2 DEF Enqueue, TypeOK, Place
    <3>3. QED
      BY <1>7, <3>1, <3>2 DEF Republish
  <2>4. nacked' \in SUBSET Task
    BY <1>7, <2>2 DEF Republish, TypeOK
  <2>5. QED
    BY <1>7, <2>1, <2>3, <2>4 DEF Republish, TypeOK, Runs
<1>8. CASE AckOriginal(w, m)
  <2>1. run' \in Runs /\ OutputKnown'
    BY <1>8, FinishKeeps DEF AckOriginal
  <2>2. QED
    BY <1>8, <2>1 DEF AckOriginal, Settle, Place, effects, TypeOK, Runs
<1>9. CASE Reply(w, m)
  <2>1. run' \in Runs /\ OutputKnown'
    BY <1>9, FinishKeeps DEF Reply
  <2>2. replies' \in [Task -> Nat]
    BY <1>9, CountType DEF Reply, TypeOK
  <2>3. QED
    BY <1>9, <2>1, <2>2 DEF Reply, broker, TypeOK, Runs
<1>10. CASE Notify(w, m)
  <2>1. job[m] \in Task \cup {NoTask}
    BY DEF TypeOK
  <2>2. run' \in Runs /\ OutputKnown'
    BY <1>10, FinishKeeps DEF Notify
  <2>3. QED
    BY <1>10, <2>1, <2>2 DEF Notify, TypeOK, Runs, broker
<1>11. QED
  BY <1>1, <1>2, <1>3, <1>4, <1>5, <1>6, <1>7, <1>8, <1>9, <1>10 DEF Work

LEMMA TypeStep ==
  ASSUME TypeOK, OutputKnown, [Next]_vars
  PROVE  TypeOK' /\ OutputKnown'
<1>1. CASE UNCHANGED vars
  BY <1>1 DEF vars, broker, effects, TypeOK, OutputKnown
<1>2. CASE Next
  BY <1>2, BrokerType, LoopType, WorkType DEF Next
<1>3. QED
  BY <1>1, <1>2

(* Every variable keeps its type; a process stores, and notifies of, only  *)
(* results it has.                                                         *)
THEOREM TypeCorrect == Spec => [](TypeOK /\ OutputKnown)
<1>1. TypeOK /\ OutputKnown /\ [Next]_vars => TypeOK' /\ OutputKnown'
  BY TypeStep
<1>2. QED
  BY <1>1, InitType, PTL DEF Spec
-----------------------------------------------------------------------------
(* Who works on what                                                       *)

IsIdle(w, m) == run[w][m].pc = "idle"

Owned ==
  /\ OwnedDeliveries
  /\ \A w \in Worker, m \in Msg : link[w] = "down" => IsIdle(w, m)
  /\ \A w \in Worker, m \in Msg : at[m] = "unborn" => IsIdle(w, m)

(* What a step of the loop or of a spawned task does to the messages and   *)
(* runs: nothing, to settle its own delivery, or to publish a new message. *)
Untouched(n) == at'[n] = at[n]
Created(n) == at[n] = "unborn" /\ at'[n] \in {"ready", "parked"}
StepShape(w, m) ==
  /\ link' = link
  /\ run' \in Runs /\ OthersSame(w, m)
  /\ run[w][m].pc # "idle"
  /\ \A n \in Msg : n # m => Untouched(n) \/ Created(n)
  /\ \/ /\ Untouched(m)
        /\ link[w] # "up" \/ (run'[w][m].pc \in Owning <=> run[w][m].pc \in Owning)
     \/ /\ link[w] = "up"
        /\ run[w][m].pc \in Owning /\ run'[w][m].pc \notin Owning
        /\ at'[m] \in {"gone", "ready"}

LEMMA GotoShape ==
  ASSUME TypeOK, NEW w \in Worker, NEW m \in Msg, NEW pc \in Phase, Goto(w, m, pc)
  PROVE  run' \in Runs /\ run'[w][m].pc = pc /\ OthersSame(w, m)
<1>1. run \in Runs
  BY DEF TypeOK, Runs
<1>2. QED
  BY <1>1, GotoEffect

LEMMA FinishShape ==
  ASSUME TypeOK, NEW w \in Worker, NEW m \in Msg, Finish(w, m)
  PROVE  run' \in Runs /\ run'[w][m].pc = "idle" /\ OthersSame(w, m)
<1>1. run \in Runs
  BY DEF TypeOK, Runs
<1>2. QED
  BY <1>1, FinishEffect

LEMMA SettleShape ==
  ASSUME TypeOK, NEW w \in Worker, NEW m \in Msg, Settle(w, m)
  PROVE  /\ \A n \in Msg : n # m => Untouched(n)
         /\ link[w] = "up" => at'[m] = "gone"
         /\ link[w] # "up" => Untouched(m)
BY DEF Settle, Untouched, TypeOK

LEMMA RequeueShape ==
  ASSUME TypeOK, NEW w \in Worker, NEW m \in Msg, Requeue(w, m)
  PROVE  /\ \A n \in Msg : n # m => Untouched(n)
         /\ link[w] = "up" => at'[m] = "ready"
         /\ link[w] # "up" => Untouched(m)
BY DEF Requeue, Untouched, TypeOK

LEMMA EnqueueShape ==
  ASSUME TypeOK, NEW t, NEW k, NEW place \in {"ready", "parked"},
         Enqueue(t, k, place)
  PROVE  /\ Fresh \in Msg /\ at[Fresh] = "unborn" /\ at'[Fresh] = place
         /\ job'[Fresh] = t /\ attempts'[Fresh] = k
         /\ \A n \in Msg : n # Fresh => /\ Untouched(n)
                                        /\ job'[n] = job[n]
                                        /\ attempts'[n] = attempts[n]
BY FreshUnborn DEF Enqueue, Untouched, TypeOK

LEMMA LoopShape ==
  ASSUME TypeOK, NEW w \in Worker, NEW m \in Msg, Loop(w, m)
  PROVE  StepShape(w, m)
<1>1. CASE DropMalformed(w, m)
  BY <1>1, FinishShape, SettleShape DEF DropMalformed, StepShape, Owning
<1>2. CASE RejectThrottled(w, m)
  BY <1>2, GotoShape, SettleShape DEF RejectThrottled, StepShape, Owning, Phase
<1>3. CASE WaitThrottled(w, m)
  BY <1>3, GotoShape DEF WaitThrottled, StepShape, Owning, Phase, Untouched, broker
<1>4. CASE RequeueThrottled(w, m)
  BY <1>4, FinishShape, RequeueShape DEF RequeueThrottled, StepShape, Owning
<1>5. CASE Start(w, m)
  BY <1>5, GotoShape DEF Start, StepShape, Owning, Phase, Untouched, broker
<1>6. QED
  BY <1>1, <1>2, <1>3, <1>4, <1>5 DEF Loop

LEMMA WorkShape ==
  ASSUME TypeOK, Owned, NEW w \in Worker, NEW m \in Msg, Work(w, m)
  PROVE  StepShape(w, m)
<1>1. CASE RequeueUnknown(w, m)
  BY <1>1, FinishShape, RequeueShape DEF RequeueUnknown, StepShape, Owning
<1>2. ASSUME NEW o \in Outcome, CheckDone(w, m, o)
      PROVE  StepShape(w, m)
  <2> DEFINE r == [run[w][m] EXCEPT !.pc = "storing", !.out = o]
  <2>1. run \in Runs /\ run[w][m] \in Run
    BY DEF TypeOK, Runs
  <2>2. r \in Run /\ r.pc = "storing"
    BY <2>1 DEF Run, Phase
  <2>3. run' = [run EXCEPT ![w][m] = r]
    BY <1>2 DEF CheckDone
  <2>4. run' \in Runs /\ run'[w][m] = r /\ OthersSame(w, m)
    BY <2>1, <2>2, <2>3, RunUpdate
  <2>5. QED
    BY <1>2, <2>2, <2>4 DEF CheckDone, StepShape, Owning, Untouched, broker
<1>3. CASE Store(w, m)
  BY <1>3, GotoShape DEF Store, StepShape, Owning, Phase, Untouched, broker
<1>4. CASE StoreFails(w, m)
  BY <1>4, GotoShape DEF StoreFails, StepShape, Owning, Phase, Untouched, broker
<1>5. CASE Ack(w, m)
  <2>1. run' \in Runs /\ OthersSame(w, m) /\ run'[w][m].pc \notin Owning
    BY <1>5, GotoShape, FinishShape DEF Ack, Owning, Phase
  <2>2. QED
    BY <1>5, <2>1, SettleShape DEF Ack, StepShape, Owning
<1>6. CASE RejectUnstored(w, m)
  BY <1>6, GotoShape, SettleShape DEF RejectUnstored, StepShape, Owning, Phase
<1>7. CASE Republish(w, m)
  <2> DEFINE place == IF attempts[m] + 1 >= MaxStorageAttempts THEN "parked" ELSE "ready"
  <2>1. CASE Enqueue(job[m], attempts[m] + 1, place) /\ Goto(w, m, "copied")
    <3>1. Fresh # m
      BY <1>7, <2>1, FreshUnborn DEF Republish, Enqueue, Owned, IsIdle
    <3>2. /\ Untouched(m)
          /\ \A n \in Msg : n # m => Untouched(n) \/ Created(n)
      BY <2>1, <3>1, EnqueueShape DEF Created
    <3>3. QED
      BY <1>7, <2>1, <3>2, GotoShape DEF Republish, StepShape, Owning, Phase
  <2>2. CASE UNCHANGED broker /\ Goto(w, m, "copied")
    BY <1>7, <2>2, GotoShape
       DEF Republish, StepShape, Owning, Phase, Untouched, broker
  <2>3. CASE UNCHANGED broker /\ link[w] # "up" /\ Finish(w, m)
    BY <1>7, <2>3, FinishShape DEF Republish, StepShape, Untouched, broker
  <2>4. QED
    BY <1>7, <2>1, <2>2, <2>3 DEF Republish
<1>8. CASE AckOriginal(w, m)
  BY <1>8, FinishShape, SettleShape DEF AckOriginal, StepShape, Owning
<1>9. CASE Reply(w, m)
  BY <1>9, FinishShape DEF Reply, StepShape, Owning, Untouched, broker
<1>10. CASE Notify(w, m)
  BY <1>10, FinishShape DEF Notify, StepShape, Owning, Untouched, broker
<1>11. QED
  BY <1>1, <1>2, <1>3, <1>4, <1>5, <1>6, <1>7, <1>8, <1>9, <1>10 DEF Work

LEMMA ShapeOwned ==
  ASSUME TypeOK, Owned, NEW w \in Worker, NEW m \in Msg, StepShape(w, m)
  PROVE  Owned'
<1>1. OwnedDeliveries'
  BY PlaceAssumption
     DEF StepShape, Owned, OwnedDeliveries, OthersSame, Untouched, Created, Place, TypeOK
<1>2. \A v \in Worker, n \in Msg : link'[v] = "down" => IsIdle(v, n)'
  BY DEF StepShape, Owned, OthersSame, IsIdle
<1>3. \A v \in Worker, n \in Msg : at'[n] = "unborn" => IsIdle(v, n)'
  BY DEF StepShape, Owned, OthersSame, IsIdle, Untouched, Created
<1>4. QED
  BY <1>1, <1>2, <1>3 DEF Owned

LEMMA BrokerOwned ==
  ASSUME TypeOK, Owned,
         \/ \E t \in Task : Publish(t)
         \/ \E m \in Msg : Expire(m)
         \/ \E w \in Worker : LoseConnection(w) \/ Exit(w) \/ Restart(w)
         \/ \E w \in Worker, m \in Msg : Deliver(w, m)
  PROVE  Owned'
<1>1. ASSUME NEW t \in Task, Publish(t) PROVE Owned'
  <2>1. \A n \in Msg : Untouched(n) \/ Created(n)
    BY <1>1, EnqueueShape DEF Publish, Created
  <2>2. QED
    BY <1>1, <2>1, PlaceAssumption
       DEF Publish, Owned, OwnedDeliveries, IsIdle, Untouched, Created, Place, TypeOK
<1>2. ASSUME NEW m \in Msg, Expire(m) PROVE Owned'
  BY <1>2, PlaceAssumption
     DEF Expire, Owned, OwnedDeliveries, IsIdle, Place, TypeOK
<1>3. ASSUME NEW w \in Worker, LoseConnection(w) PROVE Owned'
  BY <1>3, PlaceAssumption
     DEF LoseConnection, Owned, OwnedDeliveries, IsIdle, Place, TypeOK
<1>4. ASSUME NEW w \in Worker, Exit(w) PROVE Owned'
  BY <1>4 DEF Exit, Owned, OwnedDeliveries, IsIdle, NoRun, broker, TypeOK
<1>5. ASSUME NEW w \in Worker, Restart(w) PROVE Owned'
  BY <1>5 DEF Restart, Owned, OwnedDeliveries, IsIdle, Owning, broker, TypeOK
<1>6. ASSUME NEW w \in Worker, NEW m \in Msg, Deliver(w, m) PROVE Owned'
  <2> DEFINE r == [pc |-> "buffered", again |-> redelivered[m], out |-> "none"]
  <2>1. r \in Run /\ r.pc = "buffered"
    BY DEF Run, Phase, TypeOK
  <2>2. run' \in Runs /\ run'[w][m] = r /\ OthersSame(w, m)
    <3>1. run \in Runs
      BY DEF TypeOK, Runs
    <3>2. run' = [run EXCEPT ![w][m] = r]
      BY <1>6 DEF Deliver
    <3> HIDE DEF r
    <3>3. QED
      BY <2>1, <3>1, <3>2, RunUpdate
  <2>3. OwnedDeliveries'
    BY <1>6, <2>1, <2>2, PlaceAssumption
       DEF Deliver, Owned, OwnedDeliveries, OthersSame, Owning, Place, TypeOK
  <2>4. QED
    BY <1>6, <2>1, <2>2, <2>3, PlaceAssumption
       DEF Deliver, Owned, OthersSame, IsIdle, Place, TypeOK
<1>7. QED
  BY <1>1, <1>2, <1>3, <1>4, <1>5, <1>6

LEMMA OwnedStep ==
  ASSUME TypeOK, Owned, [Next]_vars
  PROVE  Owned'
<1>1. CASE UNCHANGED vars
  BY <1>1 DEF vars, broker, Owned, OwnedDeliveries, IsIdle
<1>2. ASSUME NEW w \in Worker, NEW m \in Msg, Loop(w, m) \/ Work(w, m)
      PROVE  Owned'
  BY <1>2, LoopShape, WorkShape, ShapeOwned
<1>3. QED
  BY <1>1, <1>2, BrokerOwned DEF Next

(* On a working connection the broker and the process agree on which       *)
(* deliveries are unsettled, and nothing is held through a broken one.     *)
THEOREM Ownership == Spec => []OwnedDeliveries
<1>1. Init => Owned
  BY PlaceAssumption DEF Init, Owned, OwnedDeliveries, IsIdle, NoRun, Owning, Place
<1>2. TypeOK /\ Owned /\ [Next]_vars => Owned'
  BY OwnedStep
<1>3. Owned => OwnedDeliveries
  BY DEF Owned
<1>4. QED
  BY <1>1, <1>2, <1>3, TypeCorrect, PTL DEF Spec
-----------------------------------------------------------------------------
(* No accepted task is lost                                                *)

(* What every step keeps: the task and attempt count of a message, stored  *)
(* rows and refusals; a message that gets a task is in flight.             *)
Frame ==
  /\ \A n \in Msg : at[n] # "unborn" => job'[n] = job[n] /\ attempts'[n] = attempts[n]
  /\ \A n \in Msg : job'[n] # job[n] => InFlight(n)'
  /\ \A t \in Task : rows[t] # <<>> => rows'[t] # <<>>
  /\ nacked \subseteq nacked'

LEMMA EnqueueFrame ==
  ASSUME TypeOK, NEW t, NEW k, NEW place \in {"ready", "parked"},
         Enqueue(t, k, place)
  PROVE  /\ \A n \in Msg : at[n] # "unborn" => job'[n] = job[n] /\ attempts'[n] = attempts[n]
         /\ \A n \in Msg : job'[n] # job[n] => InFlight(n)'
<1>1. /\ Fresh \in Msg /\ at[Fresh] = "unborn" /\ at'[Fresh] = place
      /\ \A n \in Msg : n # Fresh => job'[n] = job[n] /\ attempts'[n] = attempts[n]
  BY EnqueueShape
<1>2. QED
  BY <1>1 DEF InFlight

LEMMA InsertedGrows ==
  ASSUME TypeOK, NEW t \in Task, NEW o \in Outcome
  PROVE  /\ Inserted(t, o)[t] # <<>>
         /\ \A s \in Task : rows[s] # <<>> => Inserted(t, o)[s] # <<>>
<1>1. rows[t] \in Seq(Outcome)
  BY DEF TypeOK
<1>2. Len(Append(rows[t], o)) = Len(rows[t]) + 1 /\ Len(rows[t]) \in Nat
  BY <1>1
<1>3. Append(rows[t], o) # <<>>
  BY <1>2
<1>4. QED
  BY <1>3 DEF Inserted, TypeOK

(* Which kind of task a run in a given phase works on.                     *)
KindOf(w, m) ==
  /\ run[w][m].pc \notin {"idle", "buffered"} => job[m] \in Bulk \cup Single
  /\ run[w][m].pc \in {"copied", "notifying"} => job[m] \in Bulk
  /\ run[w][m].pc \in {"refusing", "replying"} => job[m] \in Single
Kinds == \A w \in Worker, m \in Msg : KindOf(w, m)

LEMMA FrameStep ==
  ASSUME TypeOK, OutputKnown, Kinds, [Next]_vars
  PROVE  Frame
<1>1. ASSUME NEW t \in Task, Publish(t) PROVE Frame
  BY <1>1, EnqueueFrame DEF Publish, Frame, effects
<1>2. ASSUME NEW w \in Worker, NEW m \in Msg, Store(w, m) \/ StoreFails(w, m)
      PROVE  Frame
  <2>1. job[m] \in Task /\ run[w][m].out \in Outcome
    BY <1>2, TaskAssumption DEF Store, StoreFails, Kinds, KindOf, OutputKnown
  <2>2. \A t \in Task : rows[t] # <<>> => rows'[t] # <<>>
    BY <1>2, <2>1, InsertedGrows DEF Store, StoreFails
  <2>3. QED
    BY <1>2, <2>2 DEF Store, StoreFails, Frame, effects, broker
<1>3. ASSUME NEW w \in Worker, NEW m \in Msg, Republish(w, m)
      PROVE  Frame
  <2>1. CASE UNCHANGED broker
    BY <1>3, <2>1 DEF Republish, Frame, broker
  <2>2. CASE Enqueue(job[m], attempts[m] + 1, IF attempts[m] + 1 >= MaxStorageAttempts
                                              THEN "parked" ELSE "ready")
    BY <1>3, <2>2, EnqueueFrame DEF Republish, Frame
  <2>3. QED
    BY <1>3, <2>1, <2>2 DEF Republish
<1>4. CASE UNCHANGED vars
  BY <1>4 DEF vars, broker, effects, Frame
<1>5. ASSUME NEW w \in Worker, NEW m \in Msg, Loop(w, m) PROVE Frame
  BY <1>5 DEF Loop, DropMalformed, RejectThrottled, WaitThrottled, RequeueThrottled,
              Start, Settle, Requeue, broker, effects, Frame
<1>6. ASSUME NEW w \in Worker, NEW m \in Msg, Work(w, m) PROVE Frame
  BY <1>2, <1>3, <1>6
     DEF Work, RequeueUnknown, CheckDone, Ack, RejectUnstored, AckOriginal, Reply,
         Notify, Settle, Requeue, broker, effects, Frame
<1>7. ASSUME NEW m \in Msg, Expire(m) PROVE Frame
  BY <1>7 DEF Expire, effects, Frame
<1>8. ASSUME NEW w \in Worker,
             \/ LoseConnection(w) \/ Exit(w) \/ Restart(w)
             \/ \E m \in Msg : Deliver(w, m)
      PROVE  Frame
  BY <1>8 DEF LoseConnection, Exit, Restart, Deliver, broker, effects, Frame
<1>9. QED
  BY <1>1, <1>4, <1>5, <1>6, <1>7, <1>8 DEF Next

LEMMA KindStep ==
  ASSUME TypeOK, Owned, Kinds, Frame, [Next]_vars
  PROVE  Kinds'
<1>1. ASSUME NEW w \in Worker, NEW m \in Msg, StepShape(w, m), KindOf(w, m)'
      PROVE  Kinds'
  <2>1. ASSUME NEW v \in Worker, NEW n \in Msg, <<v, n>> # <<w, m>>
        PROVE  KindOf(v, n)'
    <3>1. run'[v][n] = run[v][n] /\ KindOf(v, n)
      BY <1>1, <2>1 DEF StepShape, OthersSame, Kinds
    <3>2. CASE run[v][n].pc = "idle"
      BY <3>1, <3>2 DEF KindOf
    <3>3. CASE run[v][n].pc # "idle"
      <4>1. job'[n] = job[n]
        BY <3>3 DEF Owned, IsIdle, Frame
      <4>2. QED
        BY <3>1, <4>1 DEF KindOf
    <3>4. QED
      BY <3>2, <3>3
  <2>2. QED
    BY <1>1, <2>1 DEF Kinds
<1>2. ASSUME NEW w \in Worker, NEW m \in Msg, run[w][m].pc # "idle"
      PROVE  job'[m] = job[m]
  BY <1>2 DEF Owned, IsIdle, Frame
<1>3. ASSUME NEW w \in Worker, NEW m \in Msg, Loop(w, m) PROVE Kinds'
  <2>1. StepShape(w, m) /\ job'[m] = job[m] /\ KindOf(w, m)
    BY <1>2, <1>3, LoopShape DEF StepShape, Kinds
  <2>2. KindOf(w, m)'
    BY <1>3, <2>1, GotoShape, FinishShape
       DEF Loop, DropMalformed, RejectThrottled, WaitThrottled, RequeueThrottled,
           Start, KindOf, Phase
  <2>3. QED
    BY <1>1, <2>1, <2>2
<1>4. ASSUME NEW w \in Worker, NEW m \in Msg, Work(w, m) PROVE Kinds'
  <2>1. StepShape(w, m) /\ job'[m] = job[m] /\ KindOf(w, m)
    BY <1>2, <1>4, WorkShape DEF StepShape, Kinds
  <2>2. ASSUME NEW o \in Outcome, CheckDone(w, m, o) PROVE KindOf(w, m)'
    <3>1. run \in Runs /\ run[w][m] \in Run
      BY DEF TypeOK, Runs
    <3>2. run'[w][m].pc = "storing"
      BY <2>2, <3>1 DEF CheckDone, Runs, Run
    <3>3. QED
      BY <2>1, <2>2, <3>2 DEF CheckDone, KindOf
  <2>3. KindOf(w, m)'
    BY <1>4, <2>1, <2>2, GotoShape, FinishShape
       DEF Work, RequeueUnknown, Store, StoreFails, Ack, RejectUnstored, Republish,
           AckOriginal, Reply, Notify, KindOf, Phase
  <2>4. QED
    BY <1>1, <2>1, <2>3
<1>5. ASSUME NEW w \in Worker, NEW m \in Msg, Deliver(w, m) PROVE Kinds'
  <2> DEFINE r == [pc |-> "buffered", again |-> redelivered[m], out |-> "none"]
  <2>1. r \in Run /\ r.pc = "buffered"
    BY DEF Run, Phase, TypeOK
  <2>2. run' \in Runs /\ run'[w][m] = r /\ OthersSame(w, m) /\ job' = job
    <3>1. run \in Runs
      BY DEF TypeOK, Runs
    <3>2. run' = [run EXCEPT ![w][m] = r] /\ job' = job
      BY <1>5 DEF Deliver
    <3> HIDE DEF r
    <3>3. QED
      BY <2>1, <3>1, <3>2, RunUpdate
  <2>3. QED
    BY <2>1, <2>2 DEF Kinds, KindOf, OthersSame
<1>6. ASSUME NEW t \in Task, Publish(t) PROVE Kinds'
  <2>1. run' = run
    BY <1>6 DEF Publish
  <2>2. QED
    BY <1>2, <2>1 DEF Kinds, KindOf
<1>7. ASSUME NEW w \in Worker, Exit(w) PROVE Kinds'
  BY <1>7 DEF Exit, Kinds, KindOf, NoRun, broker, TypeOK
<1>8. CASE \/ \E m \in Msg : Expire(m)
           \/ \E w \in Worker : LoseConnection(w) \/ Restart(w)
           \/ UNCHANGED vars
  BY <1>8 DEF Expire, LoseConnection, Restart, vars, broker, Kinds, KindOf
<1>9. QED
  BY <1>3, <1>4, <1>5, <1>6, <1>7, <1>8 DEF Next

(* The task of message n is safe without n.                                *)
Covered(n) ==
  \/ rows[job[n]] # <<>>
  \/ job[n] \in nacked
  \/ \E c \in Msg : /\ job[c] = job[n] /\ InFlight(c)
                     /\ attempts[c] > attempts[n]

(* Before a run acknowledges, its result is stored or its copy is          *)
(* published; the copy counts one attempt more, so that two copies never   *)
(* cover only each other.                                                  *)
SafeToAck ==
  \A w \in Worker, m \in Msg :
    /\ run[w][m].pc = "stored" => rows[job[m]] # <<>>
    /\ run[w][m].pc = "copied" => Covered(m)

(* A message in flight stays so in the next state, or is not needed.       *)
Survives(n) == InFlight(n)' \/ Covered(n)'

LEMMA CoverMoves ==
  ASSUME TypeOK, TypeOK', Frame, NEW n \in Msg, at[n] # "unborn", job[n] \in Task,
         Covered(n),
         \A c \in Msg : InFlight(c) /\ job[c] = job[n] => Survives(c)
  PROVE  Covered(n)'
<1>1. job'[n] = job[n] /\ attempts'[n] = attempts[n]
  BY DEF Frame
<1>2. CASE rows[job[n]] # <<>> \/ job[n] \in nacked
  BY <1>1, <1>2 DEF Frame, Covered
<1>3. ASSUME NEW c \in Msg, job[c] = job[n], InFlight(c), attempts[c] > attempts[n]
      PROVE  Covered(n)'
  <2>1. at[c] # "unborn"
    BY <1>3, PlaceAssumption DEF InFlight, Place
  <2>2. job'[c] = job'[n] /\ attempts'[c] > attempts'[n]
    BY <1>1, <1>3, <2>1 DEF Frame
  <2>3. CASE InFlight(c)'
    BY <2>2, <2>3 DEF Covered
  <2>4. CASE rows'[job'[c]] # <<>> \/ job'[c] \in nacked'
    BY <2>2, <2>4 DEF Covered
  <2>5. ASSUME NEW d \in Msg, job'[d] = job'[c], InFlight(d)', attempts'[d] > attempts'[c]
        PROVE  Covered(n)'
    <3>1. attempts'[d] > attempts'[n]
      BY <1>3, <2>2, <2>5 DEF TypeOK
    <3>2. QED
      BY <2>2, <2>5, <3>1 DEF Covered
  <2>6. QED
    BY <1>3, <2>3, <2>4, <2>5 DEF Survives, Covered
<1>4. QED
  BY <1>2, <1>3 DEF Covered
LEMMA SurviveStep ==
  ASSUME TypeOK, Owned, Kinds, SafeToAck, Frame, [Next]_vars,
         NEW n \in Msg, InFlight(n), job[n] \in Bulk
  PROVE  Survives(n)
<1> at[n] # "unborn"
  BY PlaceAssumption DEF InFlight, Place
<1>1. job'[n] = job[n] /\ attempts'[n] = attempts[n] /\ job[n] \in Task
  BY TaskAssumption DEF Frame
<1>2. CASE at'[n] \in {"ready", "parked"} \cup Worker
  BY <1>2 DEF Survives, InFlight
<1>3. ASSUME NEW w \in Worker, NEW m \in Msg, Loop(w, m) PROVE Survives(n)
  <2>1. CASE Untouched(n)
    BY <2>1 DEF Untouched, Survives, InFlight
  <2>2. CASE ~Untouched(n)
    <3>1. n = m
      BY <1>3, <2>2, LoopShape DEF StepShape, Created
    <3>2. RequeueThrottled(w, m)
      BY <1>3, <2>2, <3>1, TaskAssumption
         DEF Loop, DropMalformed, RejectThrottled, WaitThrottled, Start, broker, Untouched
    <3>3. QED
      BY <1>2, <2>2, <3>1, <3>2, RequeueShape DEF RequeueThrottled
  <2>3. QED
    BY <2>1, <2>2
<1>4. ASSUME NEW w \in Worker, NEW m \in Msg, Work(w, m) PROVE Survives(n)
  <2>1. CASE Untouched(n)
    BY <2>1 DEF Untouched, Survives, InFlight
  <2>2. CASE ~Untouched(n)
    <3>1. n = m
      BY <1>4, <2>2, WorkShape DEF StepShape, Created
    <3>2. RequeueUnknown(w, m) \/ Ack(w, m) \/ AckOriginal(w, m)
      <4>1. ~Republish(w, m)
        BY <2>2, <3>1, EnqueueShape DEF Republish, broker, Untouched
      <4>2. QED
        BY <1>4, <2>2, <3>1, <4>1, TaskAssumption
           DEF Work, CheckDone, Store, StoreFails, RejectUnstored, Reply, Notify,
               broker, Untouched
    <3>3. CASE RequeueUnknown(w, m)
      BY <1>2, <2>2, <3>1, <3>3, RequeueShape DEF RequeueUnknown
    <3>4. CASE Ack(w, m)
      BY <1>1, <3>1, <3>4 DEF Ack, SafeToAck, Frame, Survives, Covered
    <3>5. CASE AckOriginal(w, m)
      <4>1. Covered(n)
        BY <3>1, <3>5 DEF AckOriginal, SafeToAck
      <4>2. rows' = rows /\ nacked' = nacked /\ job' = job /\ attempts' = attempts
        BY <3>5 DEF AckOriginal, Settle, effects
      <4>3. ASSUME NEW c \in Msg, job[c] = job[n], InFlight(c), attempts[c] > attempts[n]
            PROVE  Covered(n)'
        <5>1. c # n
          BY <4>3 DEF TypeOK
        <5>2. InFlight(c)'
          BY <3>1, <3>5, <4>3, <5>1, SettleShape DEF AckOriginal, Untouched, InFlight
        <5>3. QED
          BY <4>2, <4>3, <5>2 DEF Covered
      <4>4. QED
        BY <4>1, <4>2, <4>3 DEF Covered, Survives
    <3>6. QED
      BY <3>2, <3>3, <3>4, <3>5
  <2>3. QED
    BY <2>1, <2>2
<1>5. ASSUME NEW t \in Task, Publish(t) PROVE Survives(n)
  BY <1>5, EnqueueShape DEF Publish, Untouched, Survives, InFlight
<1>6. ASSUME NEW m \in Msg, Expire(m) PROVE Survives(n)
  BY <1>6, TaskAssumption DEF Expire, Survives, InFlight, TypeOK
<1>7. ASSUME NEW w \in Worker, LoseConnection(w) \/ Exit(w) \/ Restart(w)
      PROVE  Survives(n)
  BY <1>7 DEF LoseConnection, Exit, Restart, broker, Survives, InFlight
<1>8. ASSUME NEW w \in Worker, NEW m \in Msg, Deliver(w, m) PROVE Survives(n)
  BY <1>8 DEF Deliver, Survives, InFlight, TypeOK
<1>9. CASE UNCHANGED vars
  BY <1>9 DEF vars, broker, Survives, InFlight
<1>10. QED
  BY <1>3, <1>4, <1>5, <1>6, <1>7, <1>8, <1>9 DEF Next

(* A run reaches "stored" by storing and "copied" by publishing the copy   *)
(* or having it refused.                                                   *)
LEMMA NewlySafe ==
  ASSUME TypeOK, OutputKnown, Owned, Kinds, Frame, [Next]_vars,
         NEW w \in Worker, NEW m \in Msg, run'[w][m].pc \in {"stored", "copied"}
  PROVE  \/ run[w][m].pc = run'[w][m].pc
         \/ run'[w][m].pc = "stored" /\ rows'[job'[m]] # <<>>
         \/ run'[w][m].pc = "copied" /\ Covered(m)'
<1> DEFINE Goal == \/ run[w][m].pc = run'[w][m].pc
                   \/ run'[w][m].pc = "stored" /\ rows'[job'[m]] # <<>>
                   \/ run'[w][m].pc = "copied" /\ Covered(m)'
<1>1. ASSUME NEW v \in Worker, NEW n \in Msg, OthersSame(v, n), <<v, n>> # <<w, m>>
      PROVE  Goal
  BY <1>1 DEF OthersSame
<1>2. ASSUME NEW v \in Worker, NEW n \in Msg, Loop(v, n) PROVE Goal
  <2>1. CASE <<v, n>> # <<w, m>>
    BY <1>1, <1>2, <2>1, LoopShape DEF StepShape
  <2>2. CASE v = w /\ n = m
    BY <1>2, <2>2, GotoShape, FinishShape
       DEF Loop, DropMalformed, RejectThrottled, WaitThrottled, RequeueThrottled,
           Start, Phase
  <2>3. QED
    BY <2>1, <2>2
<1>3. ASSUME NEW v \in Worker, NEW n \in Msg, Work(v, n) PROVE Goal
  <2>1. CASE <<v, n>> # <<w, m>>
    BY <1>1, <1>3, <2>1, WorkShape DEF StepShape
  <2>2. CASE v = w /\ n = m
    <3>1. CASE Store(w, m)
      <4>1. job[m] \in Task /\ run[w][m].out \in Outcome /\ job' = job
        BY <3>1, TaskAssumption DEF Store, Kinds, KindOf, OutputKnown, broker
      <4>2. rows'[job'[m]] # <<>> /\ run'[w][m].pc = "stored"
        BY <3>1, <4>1, InsertedGrows, GotoShape DEF Store, Phase
      <4>3. QED
        BY <4>2
    <3>2. CASE Republish(w, m)
      <4>1. run[w][m].pc # "idle" /\ at[m] # "unborn"
        BY <3>2 DEF Republish, Owned, IsIdle
      <4>2. job'[m] = job[m] /\ attempts'[m] = attempts[m]
        BY <4>1 DEF Frame
      <4>3. CASE nacked' = nacked \cup {job[m]} /\ Goto(w, m, "copied")
        BY <4>2, <4>3, GotoShape DEF Covered, Phase
      <4>4. CASE Finish(w, m)
        BY <4>4, FinishShape
      <4>5. ASSUME Enqueue(job[m], attempts[m] + 1,
                           IF attempts[m] + 1 >= MaxStorageAttempts
                           THEN "parked" ELSE "ready"),
                   Goto(w, m, "copied")
            PROVE  Goal
        <5>1. /\ Fresh \in Msg /\ at'[Fresh] \in {"ready", "parked"}
              /\ job'[Fresh] = job[m] /\ attempts'[Fresh] = attempts[m] + 1
          BY <4>5, EnqueueShape
        <5>2. attempts'[Fresh] > attempts'[m]
          BY <4>2, <5>1 DEF TypeOK
        <5>3. Covered(m)'
          BY <4>2, <5>1, <5>2 DEF Covered, InFlight
        <5>4. QED
          BY <4>5, <5>3, GotoShape DEF Phase
      <4>6. QED
        BY <3>2, <4>3, <4>4, <4>5 DEF Republish
    <3>3. ASSUME NEW o \in Outcome, CheckDone(w, m, o) PROVE Goal
      <4>1. run \in Runs /\ run[w][m] \in Run
        BY DEF TypeOK, Runs
      <4>2. run'[w][m].pc = "storing"
        BY <3>3, <4>1 DEF CheckDone, Runs, Run
      <4>3. QED
        BY <4>2
    <3>4. QED
      BY <1>3, <2>2, <3>1, <3>2, <3>3, GotoShape, FinishShape
         DEF Work, RequeueUnknown, StoreFails, Ack, RejectUnstored, AckOriginal,
             Reply, Notify, Phase
  <2>3. QED
    BY <2>1, <2>2
<1>4. ASSUME NEW v \in Worker, NEW n \in Msg, Deliver(v, n) PROVE Goal
  <2> DEFINE r == [pc |-> "buffered", again |-> redelivered[n], out |-> "none"]
  <2>1. r \in Run /\ r.pc = "buffered"
    BY DEF Run, Phase, TypeOK
  <2>2. run'[v][n] = r /\ OthersSame(v, n)
    <3>1. run \in Runs
      BY DEF TypeOK, Runs
    <3>2. run' = [run EXCEPT ![v][n] = r]
      BY <1>4 DEF Deliver
    <3> HIDE DEF r
    <3>3. QED
      BY <2>1, <3>1, <3>2, RunUpdate
  <2>3. QED
    BY <1>1, <2>1, <2>2
<1>5. ASSUME NEW v \in Worker, Exit(v) PROVE Goal
  BY <1>5 DEF Exit, NoRun, TypeOK
<1>6. CASE \/ \E t \in Task : Publish(t)
           \/ \E n \in Msg : Expire(n)
           \/ \E v \in Worker : LoseConnection(v) \/ Restart(v)
           \/ UNCHANGED vars
  BY <1>6 DEF Publish, Expire, LoseConnection, Restart, vars
<1>7. QED
  BY <1>2, <1>3, <1>4, <1>5, <1>6 DEF Next

LEMMA SafeStep ==
  ASSUME TypeOK, TypeOK', OutputKnown, Owned, Kinds, SafeToAck, Frame, [Next]_vars
  PROVE  SafeToAck'
<1> SUFFICES ASSUME NEW w \in Worker, NEW m \in Msg
             PROVE  /\ run'[w][m].pc = "stored" => rows'[job'[m]] # <<>>
                    /\ run'[w][m].pc = "copied" => Covered(m)'
  BY DEF SafeToAck
<1>1. ASSUME run[w][m].pc \in {"stored", "copied"}
      PROVE  at[m] # "unborn" /\ job[m] \in Task /\ job'[m] = job[m]
  <2>1. at[m] # "unborn" /\ job[m] \in Task
    BY <1>1, TaskAssumption DEF Owned, IsIdle, Kinds, KindOf
  <2>2. QED
    BY <2>1 DEF Frame
<1>2. ASSUME run[w][m].pc = "stored" PROVE rows'[job'[m]] # <<>>
  BY <1>1, <1>2 DEF SafeToAck, Frame
<1>3. ASSUME run[w][m].pc = "copied" PROVE Covered(m)'
  <2>1. at[m] # "unborn" /\ job[m] \in Task /\ job[m] \in Bulk /\ Covered(m)
    BY <1>1, <1>3 DEF SafeToAck, Kinds, KindOf
  <2>2. \A c \in Msg : InFlight(c) /\ job[c] = job[m] => Survives(c)
    BY <2>1, SurviveStep
  <2>3. QED
    BY <2>1, <2>2, CoverMoves
<1>4. QED
  BY <1>2, <1>3, NewlySafe

LEMMA NoLostStep ==
  ASSUME TypeOK, Owned, Kinds, SafeToAck, Frame, NoLostTask, [Next]_vars
  PROVE  NoLostTask'
<1> SUFFICES ASSUME NEW t \in Bulk, Published(t)'
             PROVE  \/ rows'[t] # <<>>
                    \/ \E m \in Msg : job'[m] = t /\ InFlight(m)'
                    \/ t \in nacked'
  BY DEF NoLostTask
<1> t \in Task
  BY TaskAssumption
<1>1. CASE Published(t)
  <2>1. CASE rows[t] # <<>> \/ t \in nacked
    BY <2>1 DEF Frame
  <2>2. ASSUME NEW m \in Msg, job[m] = t, InFlight(m)
        PROVE  \/ rows'[t] # <<>>
               \/ \E n \in Msg : job'[n] = t /\ InFlight(n)'
               \/ t \in nacked'
    <3>1. job'[m] = t
      BY <2>2, PlaceAssumption DEF InFlight, Place, Frame
    <3>2. Survives(m)
      BY <2>2, SurviveStep
    <3>3. QED
      BY <2>2, <3>1, <3>2 DEF Survives, Covered
  <2>3. QED
    BY <1>1, <2>1, <2>2 DEF NoLostTask
<1>2. CASE ~Published(t)
  <2>1. PICK m \in Msg : job'[m] = t
    BY DEF Published
  <2>2. job[m] # t
    BY <1>2 DEF Published
  <2>3. QED
    BY <2>1, <2>2 DEF Frame
<1>3. QED
  BY <1>1, <1>2

(* The inductive invariant behind NoLostTask: besides types, who owns a    *)
(* delivery, on which kind of task each phase works, and that a run about  *)
(* to acknowledge has stored its result or has published a copy.           *)
IInv ==
  /\ TypeOK /\ OutputKnown
  /\ Owned
  /\ Kinds
  /\ SafeToAck
  /\ NoLostTask

LEMMA IInvInductive == Spec => []IInv
<1>1. Init => IInv
  <2> SUFFICES ASSUME Init PROVE IInv
    OBVIOUS
  <2>1. TypeOK /\ OutputKnown
    BY InitType
  <2>2. Owned /\ Kinds /\ SafeToAck
    BY PlaceAssumption
       DEF Init, Owned, OwnedDeliveries, IsIdle, Kinds, KindOf, SafeToAck, NoRun,
           Owning, Place
  <2>3. NoLostTask
    BY TaskAssumption DEF Init, NoLostTask, Published
  <2>4. QED
    BY <2>1, <2>2, <2>3 DEF IInv
<1>2. IInv /\ [Next]_vars => IInv'
  <2> SUFFICES ASSUME IInv, [Next]_vars PROVE IInv'
    OBVIOUS
  <2> USE DEF IInv
  <2>1. TypeOK' /\ OutputKnown'
    BY TypeStep
  <2>2. Owned'
    BY OwnedStep
  <2>3. Frame
    BY FrameStep
  <2>4. Kinds'
    BY <2>3, KindStep
  <2>5. SafeToAck'
    BY <2>1, <2>3, SafeStep
  <2>6. NoLostTask'
    BY <2>3, NoLostStep
  <2>7. QED
    BY <2>1, <2>2, <2>4, <2>5, <2>6
<1>3. QED
  BY <1>1, <1>2, PTL DEF Spec

(* No accepted bulk task is lost, whatever breaks and however often: its   *)
(* result is stored, a message of it is queued, delivered or parked, or    *)
(* the broker refused a copy of it.                                        *)
THEOREM NoTaskIsLost == Spec => []NoLostTask
<1>1. IInv => NoLostTask
  BY DEF IInv
<1>2. QED
  BY <1>1, IInvInductive, PTL

(* When the broker never refuses a copy, nothing is ever excused.          *)
NackedOnlyIfAllowed == BrokerMayNack \/ nacked = {}

LEMMA NackStep ==
  ASSUME NackedOnlyIfAllowed, [Next]_vars
  PROVE  NackedOnlyIfAllowed'
<1>1. ASSUME NEW w \in Worker, NEW m \in Msg, Loop(w, m) PROVE nacked' = nacked
  BY <1>1 DEF Loop, DropMalformed, RejectThrottled, WaitThrottled, RequeueThrottled,
              Start, effects
<1>2. ASSUME NEW w \in Worker, NEW m \in Msg, Work(w, m)
      PROVE  nacked' = nacked \/ BrokerMayNack
  <2>1. ASSUME Republish(w, m) PROVE nacked' = nacked \/ BrokerMayNack
    BY <2>1 DEF Republish
  <2>2. QED
    BY <1>2, <2>1
       DEF Work, RequeueUnknown, CheckDone, Store, StoreFails, Ack, RejectUnstored,
           AckOriginal, Reply, Notify, effects
<1>3. CASE \/ \E t \in Task : Publish(t)
           \/ \E m \in Msg : Expire(m)
           \/ \E w \in Worker : LoseConnection(w) \/ Exit(w) \/ Restart(w)
           \/ \E w \in Worker, m \in Msg : Deliver(w, m)
           \/ UNCHANGED vars
  BY <1>3 DEF Publish, Expire, LoseConnection, Exit, Restart, Deliver, vars, effects,
              NackedOnlyIfAllowed
<1>4. QED
  BY <1>1, <1>2, <1>3 DEF Next, NackedOnlyIfAllowed

THEOREM NothingExcusedWithoutNack ==
  Spec => [](BrokerMayNack \/ UnpublishedCopyRedelivers)
<1>1. Init => NackedOnlyIfAllowed
  BY DEF Init, NackedOnlyIfAllowed
<1>2. NackedOnlyIfAllowed /\ [Next]_vars => NackedOnlyIfAllowed'
  BY NackStep
<1>3. NackedOnlyIfAllowed /\ NoLostTask => BrokerMayNack \/ UnpublishedCopyRedelivers
  BY DEF NackedOnlyIfAllowed, NoLostTask, UnpublishedCopyRedelivers
<1>4. QED
  BY <1>1, <1>2, <1>3, NoTaskIsLost, PTL DEF Spec
-----------------------------------------------------------------------------
(* One row, and the webhook after it                                       *)

(* Only the two outcomes of the store call change the rows.                *)
LEMMA RowsChange ==
  ASSUME [Next]_vars
  PROVE  \/ rows' = rows
         \/ \E w \in Worker, m \in Msg :
              /\ Store(w, m) \/ StoreFails(w, m)
              /\ rows' = Inserted(job[m], run[w][m].out)
<1>1. ASSUME NEW w \in Worker, NEW m \in Msg, Loop(w, m) PROVE rows' = rows
  BY <1>1 DEF Loop, DropMalformed, RejectThrottled, WaitThrottled, RequeueThrottled, Start
<1>2. ASSUME NEW w \in Worker, NEW m \in Msg, Work(w, m)
      PROVE  \/ rows' = rows
             \/ /\ Store(w, m) \/ StoreFails(w, m)
                /\ rows' = Inserted(job[m], run[w][m].out)
  <2>1. CASE Store(w, m) \/ StoreFails(w, m)
    BY <2>1 DEF Store, StoreFails
  <2>2. CASE ~(Store(w, m) \/ StoreFails(w, m))
    BY <1>2, <2>2
       DEF Work, RequeueUnknown, CheckDone, Ack, RejectUnstored, Republish,
           AckOriginal, Reply, Notify
  <2>3. QED
    BY <2>1, <2>2
<1>3. CASE \/ \E t \in Task : Publish(t)
           \/ \E m \in Msg : Expire(m)
           \/ \E w \in Worker : LoseConnection(w) \/ Exit(w) \/ Restart(w)
           \/ \E w \in Worker, m \in Msg : Deliver(w, m)
           \/ UNCHANGED vars
  BY <1>3 DEF Publish, Expire, LoseConnection, Exit, Restart, Deliver, vars
<1>4. QED
  BY <1>1, <1>2, <1>3 DEF Next

LEMMA InsertedOnce ==
  ASSUME TypeOK, OneRowPerTask, NEW t \in Task, NEW o \in Outcome,
         NEW s \in Task \ Untagged
  PROVE  Len(Inserted(t, o)[s]) <= 1
<1>1. CASE s = t /\ rows[t] = <<>>
  BY <1>1 DEF Inserted, TypeOK
<1>2. CASE s # t \/ rows[t] # <<>>
  BY <1>2 DEF Inserted, TypeOK, OneRowPerTask
<1>3. QED
  BY <1>1, <1>2

LEMMA OneRowStep ==
  ASSUME TypeOK, OutputKnown, Kinds, OneRowPerTask, [Next]_vars
  PROVE  OneRowPerTask'
<1>1. CASE rows' = rows
  BY <1>1 DEF OneRowPerTask
<1>2. ASSUME NEW w \in Worker, NEW m \in Msg, Store(w, m) \/ StoreFails(w, m),
             rows' = Inserted(job[m], run[w][m].out)
      PROVE  OneRowPerTask'
  <2>1. job[m] \in Task /\ run[w][m].out \in Outcome
    BY <1>2, TaskAssumption DEF Store, StoreFails, Kinds, KindOf, OutputKnown
  <2>2. QED
    BY <1>2, <2>1, InsertedOnce DEF OneRowPerTask
<1>3. QED
  BY <1>1, <1>2, RowsChange

(* A task with a task_id is stored once, however many processes work on    *)
(* it and whatever the database reports.                                   *)
THEOREM TasksAreStoredOnce == Spec => []OneRowPerTask
<1>1. Init => OneRowPerTask
  BY DEF Init, OneRowPerTask
<1>2. IInv /\ OneRowPerTask /\ [Next]_vars => OneRowPerTask'
  BY OneRowStep DEF IInv
<1>3. QED
  BY <1>1, <1>2, IInvInductive, PTL DEF Spec

(* A run notifies only after its result was stored.                        *)
SafeToNotify ==
  \A w \in Worker, m \in Msg : run[w][m].pc = "notifying" => rows[job[m]] # <<>>

LEMMA NotifySafeStep ==
  ASSUME TypeOK, OutputKnown, Owned, Kinds, SafeToAck, Frame, SafeToNotify, [Next]_vars
  PROVE  SafeToNotify'
<1> SUFFICES ASSUME NEW w \in Worker, NEW m \in Msg, run'[w][m].pc = "notifying"
             PROVE  rows'[job'[m]] # <<>>
  BY DEF SafeToNotify
<1>1. ASSUME run[w][m].pc \in {"stored", "notifying"} PROVE rows'[job'[m]] # <<>>
  <2>1. at[m] # "unborn" /\ job[m] \in Task /\ rows[job[m]] # <<>>
    BY <1>1, TaskAssumption
       DEF Owned, IsIdle, Kinds, KindOf, SafeToAck, SafeToNotify
  <2>2. QED
    BY <2>1 DEF Frame
<1>2. ASSUME NEW v \in Worker, NEW n \in Msg, Loop(v, n) PROVE run[w][m].pc = "notifying"
  <2>1. CASE <<v, n>> # <<w, m>>
    BY <1>2, <2>1, LoopShape DEF StepShape, OthersSame
  <2>2. CASE v = w /\ n = m
    BY <1>2, <2>2, GotoShape, FinishShape
       DEF Loop, DropMalformed, RejectThrottled, WaitThrottled, RequeueThrottled,
           Start, Phase
  <2>3. QED
    BY <2>1, <2>2
<1>3. ASSUME NEW v \in Worker, NEW n \in Msg, Work(v, n)
      PROVE  run[w][m].pc \in {"stored", "notifying"}
  <2>1. CASE <<v, n>> # <<w, m>>
    BY <1>3, <2>1, WorkShape DEF StepShape, OthersSame
  <2>2. CASE v = w /\ n = m
    <3>1. ASSUME NEW o \in Outcome, CheckDone(w, m, o) PROVE run'[w][m].pc = "storing"
      <4>1. run \in Runs /\ run[w][m] \in Run
        BY DEF TypeOK, Runs
      <4>2. QED
        BY <3>1, <4>1 DEF CheckDone, Runs, Run
    <3>2. QED
      BY <1>3, <2>2, <3>1, GotoShape, FinishShape
         DEF Work, RequeueUnknown, Store, StoreFails, Ack, RejectUnstored, Republish,
             AckOriginal, Reply, Notify, Phase
  <2>3. QED
    BY <2>1, <2>2
<1>4. ASSUME NEW v \in Worker, NEW n \in Msg, Deliver(v, n)
      PROVE  run[w][m].pc = "notifying"
  BY <1>4 DEF Deliver, TypeOK
<1>5. ASSUME NEW v \in Worker, Exit(v) PROVE run[w][m].pc = "notifying"
  BY <1>5 DEF Exit, NoRun, TypeOK
<1>6. CASE \/ \E t \in Task : Publish(t)
           \/ \E n \in Msg : Expire(n)
           \/ \E v \in Worker : LoseConnection(v) \/ Restart(v)
           \/ UNCHANGED vars
  BY <1>1, <1>6 DEF Publish, Expire, LoseConnection, Restart, vars
<1>7. QED
  BY <1>1, <1>2, <1>3, <1>4, <1>5, <1>6 DEF Next

LEMMA NotifiedChange ==
  ASSUME [Next]_vars
  PROVE  \/ notified' = notified
         \/ \E w \in Worker, m \in Msg : Notify(w, m)
<1>1. ASSUME NEW w \in Worker, NEW m \in Msg, Loop(w, m) PROVE notified' = notified
  BY <1>1 DEF Loop, DropMalformed, RejectThrottled, WaitThrottled, RequeueThrottled,
              Start, effects
<1>2. ASSUME NEW w \in Worker, NEW m \in Msg, Work(w, m)
      PROVE  notified' = notified \/ Notify(w, m)
  BY <1>2 DEF Work, RequeueUnknown, CheckDone, Store, StoreFails, Ack, RejectUnstored,
              Republish, AckOriginal, Reply, effects
<1>3. CASE \/ \E t \in Task : Publish(t)
           \/ \E m \in Msg : Expire(m)
           \/ \E w \in Worker : LoseConnection(w) \/ Exit(w) \/ Restart(w)
           \/ \E w \in Worker, m \in Msg : Deliver(w, m)
           \/ UNCHANGED vars
  BY <1>3 DEF Publish, Expire, LoseConnection, Exit, Restart, Deliver, vars, effects
<1>4. QED
  BY <1>1, <1>2, <1>3 DEF Next

LEMMA NotifiedStep ==
  ASSUME Kinds, Frame, SafeToNotify, NotifiedAfterStored, notified \subseteq Task,
         [Next]_vars
  PROVE  NotifiedAfterStored' /\ notified' \subseteq Task
<1>1. CASE notified' = notified
  BY <1>1 DEF NotifiedAfterStored, Frame
<1>2. ASSUME NEW w \in Worker, NEW m \in Msg, Notify(w, m)
      PROVE  NotifiedAfterStored' /\ notified' \subseteq Task
  BY <1>2, TaskAssumption
     DEF Notify, Kinds, KindOf, SafeToNotify, NotifiedAfterStored, Frame
<1>3. QED
  BY <1>1, <1>2, NotifiedChange

(* The webhook hears of no result before it is stored.                     *)
THEOREM WebhooksComeAfterStore == Spec => []NotifiedAfterStored
<1> DEFINE I == SafeToNotify /\ NotifiedAfterStored /\ notified \subseteq Task
<1>1. Init => I
  BY DEF Init, SafeToNotify, NotifiedAfterStored, NoRun
<1>2. IInv /\ I /\ [Next]_vars => I'
  <2> SUFFICES ASSUME IInv, I, [Next]_vars PROVE I'
    OBVIOUS
  <2>1. Frame
    BY FrameStep DEF IInv
  <2>2. SafeToNotify'
    BY <2>1, NotifySafeStep DEF IInv
  <2>3. NotifiedAfterStored' /\ notified' \subseteq Task
    BY <2>1, NotifiedStep DEF IInv
  <2>4. QED
    BY <2>2, <2>3
<1>3. I => NotifiedAfterStored
  OBVIOUS
<1> HIDE DEF I
<1>4. QED
  BY <1>1, <1>2, <1>3, IInvInductive, PTL DEF Spec
-----------------------------------------------------------------------------
(* One reply                                                               *)

(* A run whose reply will arrive.                                          *)
Answering(w, m) == link[w] = "up" /\ run[w][m].pc \in {"replying", "refusing"}

(* A single-shot task has one message; who is about to answer has settled  *)
(* it and is alone; who was answered has a settled message.                *)
OneMessage == \A m \in Msg, n \in Msg : job[m] = job[n] /\ job[m] \in Single => m = n
AnswerOnce ==
  /\ \A w \in Worker, m \in Msg : Answering(w, m) => at[m] = "gone" /\ replies[job[m]] = 0
  /\ \A w \in Worker, v \in Worker, m \in Msg : Answering(w, m) /\ Answering(v, m) => w = v
Answered ==
  \A t \in Task : replies[t] > 0 => \E m \in Msg : job[m] = t /\ at[m] = "gone"
ReplyInv == OneMessage /\ AnswerOnce /\ Answered /\ OneReplyPerCaller

LEMMA GoneStays ==
  ASSUME TypeOK, Owned, [Next]_vars, NEW n \in Msg, at[n] = "gone"
  PROVE  at'[n] = "gone"
<1>1. ASSUME NEW w \in Worker, NEW m \in Msg, StepShape(w, m) PROVE at'[n] = "gone"
  BY <1>1, PlaceAssumption
     DEF StepShape, Untouched, Created, Owned, OwnedDeliveries, Place
<1>2. ASSUME NEW t \in Task, Publish(t) PROVE at'[n] = "gone"
  BY <1>2, EnqueueShape DEF Publish, Untouched
<1>3. CASE \/ \E m \in Msg : Expire(m)
           \/ \E w \in Worker : LoseConnection(w) \/ Exit(w) \/ Restart(w)
           \/ \E w \in Worker, m \in Msg : Deliver(w, m)
           \/ UNCHANGED vars
  BY <1>3, PlaceAssumption
     DEF Expire, LoseConnection, Exit, Restart, Deliver, vars, broker, TypeOK, Place
<1>4. QED
  BY <1>1, <1>2, <1>3, LoopShape, WorkShape DEF Next

(* Messages get a task by Publish, once, or as copies of a bulk task.      *)
LEMMA JobsChange ==
  ASSUME TypeOK, Kinds, [Next]_vars
  PROVE  \/ job' = job
         \/ \E t \in Task, k \in Msg :
              /\ job' = [job EXCEPT ![k] = t]
              /\ ~Published(t) \/ t \in Bulk
<1>1. ASSUME NEW t \in Task, NEW k, NEW place, Enqueue(t, k, place),
             ~Published(t) \/ t \in Bulk
      PROVE  \E s \in Task, m \in Msg : /\ job' = [job EXCEPT ![m] = s]
                                        /\ ~Published(s) \/ s \in Bulk
  BY <1>1, FreshUnborn DEF Enqueue
<1>2. ASSUME NEW t \in Task, Publish(t)
      PROVE  \E s \in Task, m \in Msg : /\ job' = [job EXCEPT ![m] = s]
                                        /\ ~Published(s) \/ s \in Bulk
  BY <1>1, <1>2 DEF Publish
<1>3. ASSUME NEW w \in Worker, NEW m \in Msg, Loop(w, m) PROVE job' = job
  BY <1>3 DEF Loop, DropMalformed, RejectThrottled, WaitThrottled, RequeueThrottled,
              Start, Settle, Requeue, broker
<1>4. ASSUME NEW w \in Worker, NEW m \in Msg, Republish(w, m)
      PROVE  \/ job' = job
             \/ \E s \in Task, n \in Msg : /\ job' = [job EXCEPT ![n] = s]
                                           /\ ~Published(s) \/ s \in Bulk
  BY <1>1, <1>4, TaskAssumption DEF Republish, broker
<1>5. ASSUME NEW w \in Worker, NEW m \in Msg, Work(w, m), ~Republish(w, m)
      PROVE  job' = job
  BY <1>5 DEF Work, RequeueUnknown, CheckDone, Store, StoreFails, Ack, RejectUnstored,
              AckOriginal, Reply, Notify, Settle, Requeue, broker
<1>6. CASE \/ \E m \in Msg : Expire(m)
           \/ \E w \in Worker : LoseConnection(w) \/ Exit(w) \/ Restart(w)
           \/ \E w \in Worker, m \in Msg : Deliver(w, m)
           \/ UNCHANGED vars
  BY <1>6 DEF Expire, LoseConnection, Exit, Restart, Deliver, vars, broker
<1>7. QED
  BY <1>2, <1>3, <1>4, <1>5, <1>6 DEF Next

LEMMA OneMessageStep ==
  ASSUME TypeOK, Kinds, OneMessage, [Next]_vars
  PROVE  OneMessage'
<1>1. CASE job' = job
  BY <1>1 DEF OneMessage
<1>2. ASSUME NEW t \in Task, NEW k \in Msg, job' = [job EXCEPT ![k] = t],
             ~Published(t) \/ t \in Bulk
      PROVE  OneMessage'
  BY <1>2, TaskAssumption DEF OneMessage, Published, TypeOK
<1>3. QED
  BY <1>1, <1>2, JobsChange

(* A run becomes able to answer by settling its delivery.                  *)
LEMMA NewlyAnswering ==
  ASSUME TypeOK, Owned, [Next]_vars, NEW w \in Worker, NEW m \in Msg, Answering(w, m)'
  PROVE  \/ Answering(w, m)
         \/ /\ at[m] = w /\ at'[m] = "gone" /\ link' = link
            /\ replies' = replies /\ OthersSame(w, m)
<1> DEFINE Goal == \/ Answering(w, m)
                   \/ /\ at[m] = w /\ at'[m] = "gone" /\ link' = link
                      /\ replies' = replies /\ OthersSame(w, m)
<1>1. ASSUME NEW v \in Worker, NEW n \in Msg, StepShape(v, n), <<v, n>> # <<w, m>>
      PROVE  Goal
  BY <1>1 DEF StepShape, OthersSame, Answering
<1>2. ASSUME StepShape(w, m), Settle(w, m), run[w][m].pc \in Owning, replies' = replies
      PROVE  Goal
  <2>1. link' = link /\ link[w] = "up" /\ OthersSame(w, m)
    BY <1>2 DEF StepShape, Answering
  <2>2. at[m] = w
    BY <1>2, <2>1 DEF Owned, OwnedDeliveries
  <2>3. at'[m] = "gone"
    BY <1>2, <2>1, SettleShape
  <2>4. QED
    BY <1>2, <2>1, <2>2, <2>3
<1>3. ASSUME NEW v \in Worker, NEW n \in Msg, Loop(v, n) PROVE Goal
  <2>1. StepShape(v, n)
    BY <1>3, LoopShape
  <2>2. CASE v = w /\ n = m
    <3>1. CASE RejectThrottled(w, m)
      BY <1>2, <2>1, <2>2, <3>1 DEF RejectThrottled, Owning, effects
    <3>2. CASE ~RejectThrottled(w, m)
      BY <1>3, <2>2, <3>2, GotoShape, FinishShape
         DEF Loop, DropMalformed, WaitThrottled, RequeueThrottled, Start, Phase, Answering
    <3>3. QED
      BY <3>1, <3>2
  <2>3. QED
    BY <1>1, <2>1, <2>2
<1>4. ASSUME NEW v \in Worker, NEW n \in Msg, Work(v, n) PROVE Goal
  <2>1. StepShape(v, n)
    BY <1>4, WorkShape
  <2>2. CASE v = w /\ n = m
    <3>1. CASE Ack(w, m)
      BY <1>2, <2>1, <2>2, <3>1 DEF Ack, Owning, effects
    <3>2. CASE RejectUnstored(w, m)
      BY <1>2, <2>1, <2>2, <3>2 DEF RejectUnstored, Owning, effects
    <3>3. ASSUME NEW o \in Outcome, CheckDone(w, m, o) PROVE run'[w][m].pc = "storing"
      <4>1. run \in Runs /\ run[w][m] \in Run
        BY DEF TypeOK, Runs
      <4>2. QED
        BY <3>3, <4>1 DEF CheckDone, Runs, Run
    <3>4. CASE ~Ack(w, m) /\ ~RejectUnstored(w, m)
      BY <1>4, <2>2, <3>3, <3>4, GotoShape, FinishShape
         DEF Work, RequeueUnknown, Store, StoreFails, Republish, AckOriginal, Reply,
             Notify, Phase, Answering
    <3>5. QED
      BY <3>1, <3>2, <3>4
  <2>3. QED
    BY <1>1, <2>1, <2>2
<1>5. ASSUME NEW v \in Worker, NEW n \in Msg, Deliver(v, n) PROVE Goal
  BY <1>5 DEF Deliver, Answering, TypeOK
<1>6. ASSUME NEW v \in Worker, LoseConnection(v) \/ Exit(v) \/ Restart(v) PROVE Goal
  BY <1>6 DEF LoseConnection, Exit, Restart, NoRun, Answering, TypeOK, Owned, IsIdle
<1>7. CASE \/ \E t \in Task : Publish(t)
           \/ \E n \in Msg : Expire(n)
           \/ UNCHANGED vars
  BY <1>7 DEF Publish, Expire, vars, Answering
<1>8. QED
  BY <1>3, <1>4, <1>5, <1>6, <1>7 DEF Next

LEMMA RepliesChange ==
  ASSUME TypeOK, [Next]_vars
  PROVE  \/ replies' = replies
         \/ \E w \in Worker, m \in Msg :
              /\ Reply(w, m) /\ link[w] = "up"
              /\ replies' = [replies EXCEPT ![job[m]] = @ + 1]
<1>1. ASSUME NEW w \in Worker, NEW m \in Msg, Loop(w, m) PROVE replies' = replies
  BY <1>1 DEF Loop, DropMalformed, RejectThrottled, WaitThrottled, RequeueThrottled,
              Start, effects
<1>2. ASSUME NEW w \in Worker, NEW m \in Msg, Work(w, m)
      PROVE  replies' = replies \/ Reply(w, m)
  BY <1>2 DEF Work, RequeueUnknown, CheckDone, Store, StoreFails, Ack, RejectUnstored,
              Republish, AckOriginal, Notify, effects
<1>3. ASSUME NEW w \in Worker, NEW m \in Msg, Reply(w, m)
      PROVE  \/ replies' = replies
             \/ /\ link[w] = "up"
                /\ replies' = [replies EXCEPT ![job[m]] = @ + 1]
  BY <1>3 DEF Reply, TypeOK
<1>4. CASE \/ \E t \in Task : Publish(t)
           \/ \E m \in Msg : Expire(m)
           \/ \E w \in Worker : LoseConnection(w) \/ Exit(w) \/ Restart(w)
           \/ \E w \in Worker, m \in Msg : Deliver(w, m)
           \/ UNCHANGED vars
  BY <1>4 DEF Publish, Expire, LoseConnection, Exit, Restart, Deliver, vars, effects
<1>5. QED
  BY <1>1, <1>2, <1>3, <1>4 DEF Next

LEMMA AnswerOnceStep ==
  ASSUME IInv, IInv', Frame, ReplyInv, OneMessage', [Next]_vars
  PROVE  AnswerOnce'
<1> USE DEF IInv, ReplyInv
<1>1. ASSUME NEW w \in Worker, NEW m \in Msg, Answering(w, m)'
      PROVE  /\ job'[m] = job[m] /\ job[m] \in Single /\ job[m] \in Task
             /\ at'[m] = "gone" /\ replies[job[m]] = 0
  <2>1. CASE Answering(w, m)
    <3>1. at[m] = "gone" /\ replies[job[m]] = 0
      BY <2>1 DEF AnswerOnce
    <3>2. at'[m] = "gone" /\ job'[m] = job[m]
      BY <3>1, GoneStays DEF Frame
    <3>3. job[m] \in Single /\ job[m] \in Task
      BY <2>1, TaskAssumption DEF Answering, Kinds, KindOf
    <3>4. QED
      BY <3>1, <3>2, <3>3
  <2>2. CASE at[m] = w /\ at'[m] = "gone" /\ OthersSame(w, m)
    <3>1. at[m] # "gone" /\ at[m] # "unborn"
      BY <2>2, PlaceAssumption DEF Place
    <3>2. job'[m] = job[m]
      BY <3>1 DEF Frame
    <3>3. job[m] \in Single /\ job[m] \in Task
      BY <1>1, <3>2, TaskAssumption DEF Answering, Kinds, KindOf
    <3>4. ~(replies[job[m]] > 0)
      BY <3>1, <3>3 DEF Answered, OneMessage
    <3>5. replies[job[m]] = 0
      BY <3>3, <3>4 DEF TypeOK
    <3>6. QED
      BY <2>2, <3>2, <3>3, <3>5
  <2>3. QED
    BY <1>1, <2>1, <2>2, NewlyAnswering
<1>2. ASSUME NEW w \in Worker, NEW v \in Worker, NEW m \in Msg,
             Answering(w, m)', Answering(v, m)'
      PROVE  w = v
  <2>1. ASSUME NEW x \in Worker, NEW y \in Worker, at[m] = x, OthersSame(x, m),
               link' = link, Answering(y, m)'
        PROVE  x = y
    <3>1. at[m] # "gone"
      BY <2>1, PlaceAssumption DEF Place
    <3>2. ~Answering(y, m)
      BY <3>1 DEF AnswerOnce
    <3>3. QED
      BY <2>1, <3>2 DEF OthersSame, Answering
  <2>2. CASE Answering(w, m) /\ Answering(v, m)
    BY <2>2 DEF AnswerOnce
  <2>3. QED
    BY <1>2, <2>1, <2>2, NewlyAnswering
<1>3. ASSUME NEW w \in Worker, NEW m \in Msg, Answering(w, m)'
      PROVE  at'[m] = "gone" /\ replies'[job'[m]] = 0
  <2>1. CASE replies' = replies
    BY <1>1, <1>3, <2>1
  <2>2. ASSUME NEW v \in Worker, NEW n \in Msg, Reply(v, n), link[v] = "up",
               replies' = [replies EXCEPT ![job[n]] = @ + 1]
        PROVE  replies'[job'[m]] = 0
    <3>1. run[v][n].pc \in {"replying", "refusing"}
      BY <2>2 DEF Reply
    <3>2. Answering(v, n) /\ job[n] \in Single
      BY <2>2, <3>1 DEF Answering, Kinds, KindOf
    <3>3. run'[v][n].pc = "idle" /\ link' = link
      BY <2>2, FinishShape DEF Reply
    <3>4. CASE job[n] # job[m]
      BY <1>1, <1>3, <2>2, <3>4 DEF TypeOK
    <3>5. CASE job[n] = job[m]
      <4>1. n = m
        BY <3>2, <3>5 DEF OneMessage
      <4>2. at[m] = "gone"
        BY <3>2, <4>1 DEF AnswerOnce
      <4>3. Answering(w, m)
        BY <1>3, <4>2, NewlyAnswering, PlaceAssumption DEF Place
      <4>4. w = v
        BY <3>2, <4>1, <4>3 DEF AnswerOnce
      <4>5. QED
        BY <1>3, <3>3, <4>1, <4>4 DEF Answering
    <3>6. QED
      BY <3>4, <3>5
  <2>3. QED
    BY <1>1, <1>3, <2>1, <2>2, RepliesChange
<1>4. QED
  BY <1>2, <1>3 DEF AnswerOnce

LEMMA AnsweredStep ==
  ASSUME IInv, Frame, ReplyInv, [Next]_vars
  PROVE  Answered' /\ OneReplyPerCaller'
<1> USE DEF IInv, ReplyInv
<1>1. ASSUME NEW t \in Task, replies[t] > 0
      PROVE  \E m \in Msg : job'[m] = t /\ at'[m] = "gone"
  <2>1. PICK m \in Msg : job[m] = t /\ at[m] = "gone"
    BY <1>1 DEF Answered
  <2>2. QED
    BY <2>1, GoneStays DEF Frame
<1>2. CASE replies' = replies
  BY <1>1, <1>2 DEF Answered, OneReplyPerCaller
<1>3. ASSUME NEW w \in Worker, NEW m \in Msg, Reply(w, m), link[w] = "up",
             replies' = [replies EXCEPT ![job[m]] = @ + 1]
      PROVE  Answered' /\ OneReplyPerCaller'
  <2>1. Answering(w, m)
    BY <1>3 DEF Reply, Answering
  <2>2. at[m] = "gone" /\ replies[job[m]] = 0
    BY <2>1 DEF AnswerOnce
  <2>3. at'[m] = "gone" /\ job'[m] = job[m]
    BY <2>2, GoneStays DEF Frame
  <2>4. QED
    BY <1>1, <1>3, <2>2, <2>3 DEF Answered, OneReplyPerCaller, TypeOK
<1>4. QED
  BY <1>2, <1>3, RepliesChange

(* A caller is answered at most once, however many processes verify its    *)
(* task: the reply of one the broker dropped does not arrive.              *)
THEOREM CallersAreAnsweredOnce == Spec => []OneReplyPerCaller
<1>1. Init => ReplyInv
  <2> SUFFICES ASSUME Init PROVE ReplyInv
    OBVIOUS
  <2>1. OneMessage
    BY TaskAssumption DEF Init, OneMessage
  <2>2. QED
    BY <2>1 DEF Init, ReplyInv, AnswerOnce, Answering, Answered, OneReplyPerCaller, NoRun
<1>2. IInv /\ IInv' /\ ReplyInv /\ [Next]_vars => ReplyInv'
  <2> SUFFICES ASSUME IInv, IInv', ReplyInv, [Next]_vars PROVE ReplyInv'
    OBVIOUS
  <2>1. Frame
    BY FrameStep DEF IInv
  <2>2. OneMessage'
    BY OneMessageStep DEF IInv, ReplyInv
  <2>3. AnswerOnce'
    BY <2>1, <2>2, AnswerOnceStep
  <2>4. Answered' /\ OneReplyPerCaller'
    BY <2>1, AnsweredStep
  <2>5. QED
    BY <2>2, <2>3, <2>4 DEF ReplyInv
<1>3. ReplyInv => OneReplyPerCaller
  BY DEF ReplyInv
<1>4. QED
  BY <1>1, <1>2, <1>3, IInvInductive, PTL DEF Spec
-----------------------------------------------------------------------------
(* The worker implements the task ledger: each of its steps is a step of   *)
(* the ledger, or none.                                                    *)

(* The parts of the ledger's state, from the worker's.                     *)
ResultOf(t) == IF rows[t] = <<>> THEN NoResult ELSE Head(rows[t])
Parked(t) == \E m \in Msg : job[m] = t /\ at[m] = "parked"

SameRows == rows' = rows
SameParked == \A m \in Msg : (at'[m] = "parked") <=> (at[m] = "parked")
SameNacked == nacked' = nacked
SameJobs == job' = job

LEMMA Unseen ==
  ASSUME SameRows, SameParked, SameNacked, SameJobs
  PROVE  UNCHANGED Ledger!ledger
<1>1. accepted' = accepted /\ result' = result /\ refused' = refused
  BY DEF SameRows, SameNacked, SameJobs, accepted, result, refused, Published
<1>2. parked' = parked
  BY DEF SameParked, SameJobs, parked
<1>3. QED
  BY <1>1, <1>2 DEF Ledger!ledger

(* No step but the birth of a copy parks a message, and none takes a       *)
(* parked one away.                                                        *)
LEMMA ShapeParked ==
  ASSUME TypeOK, Owned, NEW w \in Worker, NEW m \in Msg, StepShape(w, m),
         NEW n \in Msg, at[n] # "unborn"
  PROVE  at'[n] = "parked" <=> at[n] = "parked"
<1>1. CASE n # m
  BY <1>1 DEF StepShape, Untouched, Created
<1>2. CASE n = m
  BY <1>2, PlaceAssumption
     DEF StepShape, Untouched, Owned, OwnedDeliveries, Place
<1>3. QED
  BY <1>1, <1>2

LEMMA LoopUnseen ==
  ASSUME TypeOK, Owned, NEW w \in Worker, NEW m \in Msg, Loop(w, m)
  PROVE  UNCHANGED Ledger!ledger
<1>1. SameRows /\ SameNacked /\ SameJobs
  BY DEF Loop, DropMalformed, RejectThrottled, WaitThrottled, RequeueThrottled, Start,
         Settle, Requeue, broker, effects, SameRows, SameNacked, SameJobs
<1>2. ASSUME NEW n \in Msg, at[n] = "unborn" PROVE at'[n] # "parked"
  <2>1. n # m
    BY <1>2, LoopShape DEF StepShape, Owned, IsIdle
  <2>2. QED
    BY <1>2, <2>1, SettleShape, RequeueShape
       DEF Loop, DropMalformed, RejectThrottled, WaitThrottled, RequeueThrottled, Start,
           broker, Untouched
<1>3. SameParked
  BY <1>2, LoopShape, ShapeParked DEF SameParked
<1>4. QED
  BY <1>1, <1>3, Unseen

(* A message without a broker has no task.                                 *)
Blank == \A m \in Msg : at[m] = "unborn" => job[m] = NoTask

LEMMA BlankStep ==
  ASSUME TypeOK, Owned, Frame, Blank, [Next]_vars
  PROVE  Blank'
<1> SUFFICES ASSUME NEW n \in Msg, at'[n] = "unborn" PROVE job'[n] = NoTask
  BY DEF Blank
<1>1. at[n] = "unborn"
  <2>1. ASSUME NEW w \in Worker, NEW m \in Msg, StepShape(w, m) PROVE at[n] = "unborn"
    BY <2>1 DEF StepShape, Untouched, Created
  <2>2. ASSUME NEW t \in Task, Publish(t) PROVE at[n] = "unborn"
    BY <2>2, EnqueueShape DEF Publish, Untouched
  <2>3. CASE \/ \E m \in Msg : Expire(m)
             \/ \E w \in Worker : LoseConnection(w) \/ Exit(w) \/ Restart(w)
             \/ \E w \in Worker, m \in Msg : Deliver(w, m)
             \/ UNCHANGED vars
    BY <2>3, PlaceAssumption
       DEF Expire, LoseConnection, Exit, Restart, Deliver, vars, broker, TypeOK, Place
  <2>4. QED
    BY <2>1, <2>2, <2>3, LoopShape, WorkShape DEF Next
<1>2. ~InFlight(n)'
  BY PlaceAssumption DEF InFlight, Place
<1>3. QED
  BY <1>1, <1>2 DEF Frame, Blank

LEMMA AppendedHead ==
  ASSUME NEW S, NEW s \in Seq(S), NEW e \in S
  PROVE  /\ Append(s, e) # <<>>
         /\ Head(Append(s, e)) = IF s = <<>> THEN e ELSE Head(s)
<1>1. /\ Append(s, e) \in Seq(S) /\ Len(Append(s, e)) = Len(s) + 1 /\ Len(s) \in Nat
      /\ \A i \in 1..Len(s) : Append(s, e)[i] = s[i]
      /\ Append(s, e)[Len(s) + 1] = e
  OBVIOUS
<1>2. Append(s, e) # <<>>
  BY <1>1
<1>3. Head(Append(s, e)) = Append(s, e)[1]
  BY <1>1, <1>2
<1>4. CASE s = <<>>
  BY <1>1, <1>2, <1>3, <1>4
<1>5. CASE s # <<>>
  <2>1. Len(s) >= 1 /\ Head(s) = s[1]
    BY <1>1, <1>5
  <2>2. QED
    BY <1>1, <1>2, <1>3, <1>5, <2>1
<1>6. QED
  BY <1>4, <1>5

(* Storing records the result of an accepted task, once.                   *)
LEMMA StoreSeen ==
  ASSUME TypeOK, OutputKnown, Owned, Kinds, NEW w \in Worker, NEW m \in Msg,
         Store(w, m) \/ StoreFails(w, m)
  PROVE  [Ledger!Next]_(Ledger!ledger)
<1> DEFINE t == job[m]
           o == run[w][m].out
<1>1. t \in Task /\ o \in Outcome /\ Published(t)
  BY TaskAssumption DEF Store, StoreFails, Kinds, KindOf, OutputKnown, Published
<1>2. SameJobs /\ SameNacked /\ SameParked
  BY DEF Store, StoreFails, broker, effects, SameJobs, SameNacked, SameParked
<1>3. CASE rows' = rows
  BY <1>2, <1>3, Unseen DEF SameRows
<1>4. CASE rows' = Inserted(t, o)
  <2>1. accepted' = accepted /\ refused' = refused /\ parked' = parked
    BY <1>2 DEF SameJobs, SameNacked, SameParked, accepted, refused, parked, Published
  <2>2. rows[t] \in Seq(Outcome)
    BY <1>1 DEF TypeOK
  <2>3. /\ Append(rows[t], o) # <<>>
        /\ Head(Append(rows[t], o)) = IF rows[t] = <<>> THEN o ELSE Head(rows[t])
    BY <1>1, <2>2, AppendedHead
  <2>4. CASE t \in Bulk /\ rows[t] = <<>>
    <3>1. rows' = [rows EXCEPT ![t] = Append(@, o)]
      BY <1>4, <2>4 DEF Inserted
    <3>2. result' = [result EXCEPT ![t] = o]
      BY <1>1, <2>3, <2>4, <3>1, TaskAssumption DEF result, TypeOK
    <3>3. result[t] = NoResult /\ t \in accepted
      BY <1>1, <2>4 DEF result, accepted
    <3>4. Ledger!Record(t, o)
      BY <2>1, <3>2, <3>3 DEF Ledger!Record
    <3>5. QED
      BY <1>1, <2>4, <3>4 DEF Ledger!Next, Ledger!Close
  <2>5. CASE t \notin Bulk \/ rows[t] # <<>>
    <3>1. ASSUME NEW s \in Bulk
          PROVE  ResultOf(s)' = ResultOf(s)
      <4>1. CASE s # t
        BY <1>4, <4>1, TaskAssumption DEF Inserted, ResultOf, TypeOK
      <4>2. CASE s = t
        BY <1>1, <1>4, <2>3, <2>5, <4>2 DEF Inserted, ResultOf, TypeOK
      <4>3. QED
        BY <4>1, <4>2
    <3>2. result' = result
      BY <3>1 DEF result, ResultOf
    <3>3. QED
      BY <2>1, <3>2 DEF Ledger!ledger
  <2>6. QED
    BY <2>4, <2>5
<1>5. QED
  BY <1>3, <1>4 DEF Store, StoreFails

(* Republishing parks an accepted task, has its copy refused, or does not  *)
(* show.                                                                   *)
LEMMA RepublishSeen ==
  ASSUME TypeOK, Owned, Kinds, Blank, NEW w \in Worker, NEW m \in Msg, Republish(w, m)
  PROVE  [Ledger!Next]_(Ledger!ledger)
<1> DEFINE t == job[m]
           place == IF attempts[m] + 1 >= MaxStorageAttempts THEN "parked" ELSE "ready"
<1>1. t \in Bulk /\ t \in accepted /\ rows' = rows
  BY DEF Republish, accepted, Published
<1>2. result' = result
  BY <1>1 DEF result
<1>3. CASE UNCHANGED broker
  <2>1. accepted' = accepted /\ parked' = parked
    BY <1>3 DEF broker, accepted, parked, Published
  <2>2. CASE nacked' = nacked
    BY <1>2, <2>1, <2>2 DEF Ledger!ledger, refused
  <2>3. CASE nacked' = nacked \cup {t}
    <3>1. refused' = refused \cup {t}
      BY <1>1, <2>3 DEF refused
    <3>2. Ledger!Refuse(t)
      BY <1>1, <1>2, <2>1, <3>1 DEF Ledger!Refuse
    <3>3. QED
      BY <1>1, <3>2 DEF Ledger!Next, Ledger!Close
  <2>4. QED
    BY <1>3, <2>2, <2>3 DEF Republish
<1>4. ASSUME Enqueue(t, attempts[m] + 1, place), nacked' = nacked
      PROVE  [Ledger!Next]_(Ledger!ledger)
  <2>1. /\ Fresh \in Msg /\ at[Fresh] = "unborn" /\ at'[Fresh] = place
        /\ job'[Fresh] = t /\ job[Fresh] = NoTask
        /\ \A n \in Msg : n # Fresh => at'[n] = at[n] /\ job'[n] = job[n]
    BY <1>4, EnqueueShape DEF Untouched, Blank
  <2>2. NoTask \notin Bulk /\ m # Fresh
    BY <2>1, TaskAssumption DEF Republish, Owned, IsIdle
  <2>3. refused' = refused
    BY <1>4 DEF refused
  <2>4. accepted' = accepted
    BY <1>1, <2>1, <2>2 DEF accepted, Published
  <2>5. CASE place = "parked"
    <3>1. parked' = parked \cup {t}
      BY <1>1, <2>1, <2>2, <2>5 DEF parked
    <3>2. Ledger!Park(t)
      BY <1>1, <1>2, <2>3, <2>4, <3>1 DEF Ledger!Park
    <3>3. QED
      BY <1>1, <3>2 DEF Ledger!Next, Ledger!Close
  <2>6. CASE place = "ready"
    <3>1. parked' = parked
      BY <2>1, <2>2, <2>6 DEF parked
    <3>2. QED
      BY <1>2, <2>3, <2>4, <3>1 DEF Ledger!ledger
  <2>7. QED
    BY <2>5, <2>6
<1>5. QED
  BY <1>3, <1>4 DEF Republish

LEMMA WorkSeen ==
  ASSUME TypeOK, OutputKnown, Owned, Kinds, Blank,
         NEW w \in Worker, NEW m \in Msg, Work(w, m)
  PROVE  [Ledger!Next]_(Ledger!ledger)
<1>1. CASE Store(w, m) \/ StoreFails(w, m)
  BY <1>1, StoreSeen
<1>2. CASE Republish(w, m)
  BY <1>2, RepublishSeen
<1>3. CASE ~Store(w, m) /\ ~StoreFails(w, m) /\ ~Republish(w, m)
  <2>1. SameRows /\ SameNacked /\ SameJobs
    BY <1>3 DEF Work, RequeueUnknown, CheckDone, Ack, RejectUnstored, AckOriginal, Reply,
                Notify, Settle, Requeue, broker, effects, SameRows, SameNacked, SameJobs
  <2>2. ASSUME NEW n \in Msg, at[n] = "unborn" PROVE at'[n] # "parked"
    <3>1. n # m
      BY <2>2, WorkShape DEF StepShape, Owned, IsIdle
    <3>2. QED
      BY <1>3, <2>2, <3>1, SettleShape, RequeueShape
         DEF Work, RequeueUnknown, CheckDone, Ack, RejectUnstored, AckOriginal, Reply,
             Notify, broker, Untouched
  <2>3. SameParked
    BY <2>2, WorkShape, ShapeParked DEF SameParked
  <2>4. QED
    BY <2>1, <2>3, Unseen
<1>4. QED
  BY <1>1, <1>2, <1>3

LEMMA PublishSeen ==
  ASSUME TypeOK, Blank, NEW t \in Task, Publish(t)
  PROVE  [Ledger!Next]_(Ledger!ledger)
<1>1. /\ Fresh \in Msg /\ at[Fresh] = "unborn" /\ at'[Fresh] = "ready"
      /\ job'[Fresh] = t /\ job[Fresh] = NoTask
      /\ \A n \in Msg : n # Fresh => at'[n] = at[n] /\ job'[n] = job[n]
  BY EnqueueShape DEF Publish, Untouched, Blank
<1>2. NoTask \notin Bulk
  BY TaskAssumption
<1>3. result' = result /\ refused' = refused
  BY DEF Publish, effects, result, refused
<1>4. parked' = parked
  BY <1>1, <1>2 DEF parked
<1>5. CASE t \in Bulk
  <2>1. accepted' = accepted \cup {t} /\ t \notin accepted
    BY <1>1, <1>2, <1>5 DEF accepted, Published, Publish
  <2>2. Ledger!Accept(t)
    BY <1>3, <1>4, <2>1 DEF Ledger!Accept
  <2>3. QED
    BY <1>5, <2>2 DEF Ledger!Next
<1>6. CASE t \notin Bulk
  <2>1. accepted' = accepted
    BY <1>1, <1>2, <1>6 DEF accepted, Published
  <2>2. QED
    BY <1>3, <1>4, <2>1 DEF Ledger!ledger
<1>7. QED
  BY <1>5, <1>6

LEMMA LedgerStep ==
  ASSUME IInv, Blank, [Next]_vars
  PROVE  [Ledger!Next]_(Ledger!ledger)
<1> USE DEF IInv
<1>1. CASE \/ \E m \in Msg : Expire(m)
           \/ \E w \in Worker : LoseConnection(w) \/ Exit(w) \/ Restart(w)
           \/ \E w \in Worker, m \in Msg : Deliver(w, m)
           \/ UNCHANGED vars
  <2>1. SameRows /\ SameNacked /\ SameJobs
    BY <1>1 DEF Expire, LoseConnection, Exit, Restart, Deliver, vars, broker, effects,
                SameRows, SameNacked, SameJobs
  <2>2. SameParked
    BY <1>1, PlaceAssumption
       DEF Expire, LoseConnection, Exit, Restart, Deliver, vars, broker, SameParked,
           TypeOK, Place
  <2>3. QED
    BY <2>1, <2>2, Unseen
<1>2. QED
  BY <1>1, PublishSeen, LoopUnseen, WorkSeen DEF Next

(* The worker keeps the ledger's promise: a task is accepted once, its     *)
(* result is recorded once and never changes, and it is set aside or       *)
(* refused only after it was accepted.                                     *)
THEOREM LedgerIsKept == Spec => LedgerSafe
<1>1. Init => Ledger!Init
  BY TaskAssumption
     DEF Init, Ledger!Init, accepted, result, parked, refused, Published
<1>2. Init => Blank
  BY DEF Init, Blank
<1>3. IInv /\ Blank /\ [Next]_vars => Blank'
  BY BlankStep, FrameStep DEF IInv
<1>4. IInv /\ Blank /\ [Next]_vars => [Ledger!Next]_(Ledger!ledger)
  BY LedgerStep
<1>5. QED
  BY <1>1, <1>2, <1>3, <1>4, IInvInductive, PTL DEF Spec, LedgerSafe, Ledger!Spec
-----------------------------------------------------------------------------
(* Storage attempts                                                        *)

(* The queue holds messages with attempts left, check_email.failed those   *)
(* of bulk tasks that have used them up.                                   *)
AttemptsLimited ==
  \A m \in Msg :
    /\ at[m] \notin {"unborn", "parked"} => attempts[m] < MaxStorageAttempts
    /\ at[m] = "parked" => attempts[m] = MaxStorageAttempts /\ job[m] \in Bulk

(* What a new message is.                                                  *)
WellBorn(n) ==
  \/ at'[n] = "unborn"
  \/ at'[n] = "ready" /\ attempts'[n] < MaxStorageAttempts
  \/ at'[n] = "parked" /\ attempts'[n] = MaxStorageAttempts /\ job'[n] \in Bulk

LEMMA CopyWellBorn ==
  ASSUME TypeOK, Owned, AttemptsLimited, NEW w \in Worker, NEW m \in Msg, Republish(w, m),
         NEW n \in Msg, at[n] = "unborn"
  PROVE  WellBorn(n)
<1> DEFINE k == attempts[m] + 1
<1> DEFINE place == IF k >= MaxStorageAttempts THEN "parked" ELSE "ready"
<1>1. CASE UNCHANGED broker
  BY <1>1 DEF WellBorn, broker
<1>2. CASE link[w] = "up" /\ Enqueue(job[m], k, place)
  <2>1. run[w][m].pc = "unstored" /\ job[m] \in Bulk
    BY DEF Republish
  <2>2. at[m] = w
    BY <1>2, <2>1 DEF Owned, OwnedDeliveries, Owning
  <2>3. attempts[m] < MaxStorageAttempts /\ attempts[m] \in Nat
    BY <2>2, PlaceAssumption DEF AttemptsLimited, Place, TypeOK
  <2>4. \/ place = "ready" /\ k < MaxStorageAttempts
        \/ place = "parked" /\ k = MaxStorageAttempts
    BY <2>3, NumberAssumption
  <2>5. /\ at'[Fresh] = place /\ attempts'[Fresh] = k /\ job'[Fresh] = job[m]
        /\ n # Fresh => at'[n] = at[n]
    <3> HIDE DEF k
    <3> QED BY <1>2, EnqueueShape DEF Untouched
  <2> HIDE DEF k, place
  <2> QED BY <2>1, <2>4, <2>5 DEF WellBorn
<1>3. QED
  BY <1>1, <1>2 DEF Republish

LEMMA StepWellBorn ==
  ASSUME TypeOK, Owned, AttemptsLimited, [Next]_vars, NEW n \in Msg, at[n] = "unborn"
  PROVE  WellBorn(n)
<1>1. ASSUME NEW w \in Worker, NEW m \in Msg, Loop(w, m) PROVE WellBorn(n)
  <2>1. n # m
    BY <1>1, LoopShape DEF StepShape, Owned, IsIdle
  <2>2. QED
    BY <1>1, <2>1, SettleShape, RequeueShape
       DEF Loop, DropMalformed, RejectThrottled, WaitThrottled, RequeueThrottled, Start,
           broker, Untouched, WellBorn
<1>2. ASSUME NEW w \in Worker, NEW m \in Msg, Work(w, m) PROVE WellBorn(n)
  <2>1. n # m
    BY <1>2, WorkShape DEF StepShape, Owned, IsIdle
  <2>2. CASE ~Republish(w, m)
    BY <1>2, <2>1, <2>2, SettleShape, RequeueShape
       DEF Work, RequeueUnknown, CheckDone, Store, StoreFails, Ack, RejectUnstored,
           AckOriginal, Reply, Notify, broker, Untouched, WellBorn
  <2>3. QED
    BY <2>2, CopyWellBorn
<1>3. ASSUME NEW t \in Task, Publish(t) PROVE WellBorn(n)
  <2>1. /\ at'[Fresh] = "ready" /\ attempts'[Fresh] = 0
        /\ n # Fresh => at'[n] = at[n]
    BY <1>3, EnqueueShape DEF Publish, Untouched
  <2>2. QED
    BY <2>1, NumberAssumption DEF WellBorn
<1>4. CASE \/ \E m \in Msg : Expire(m)
           \/ \E w \in Worker : LoseConnection(w) \/ Exit(w) \/ Restart(w)
           \/ \E w \in Worker, m \in Msg : Deliver(w, m)
           \/ UNCHANGED vars
  BY <1>4, PlaceAssumption
     DEF Expire, LoseConnection, Exit, Restart, Deliver, vars, broker, TypeOK, Place, WellBorn
<1>5. QED
  BY <1>1, <1>2, <1>3, <1>4 DEF Next

LEMMA AttemptsStep ==
  ASSUME TypeOK, Owned, Frame, AttemptsLimited, [Next]_vars
  PROVE  AttemptsLimited'
<1> SUFFICES ASSUME NEW n \in Msg
             PROVE  /\ at'[n] \notin {"unborn", "parked"} => attempts'[n] < MaxStorageAttempts
                    /\ at'[n] = "parked" =>
                         attempts'[n] = MaxStorageAttempts /\ job'[n] \in Bulk
  BY DEF AttemptsLimited
<1>1. CASE at[n] = "unborn"
  BY <1>1, StepWellBorn DEF WellBorn
<1>2. CASE at[n] # "unborn"
  <2>1. attempts'[n] = attempts[n] /\ job'[n] = job[n]
    BY <1>2 DEF Frame
  <2>2. at'[n] = "parked" <=> at[n] = "parked"
    <3>1. ASSUME NEW t \in Task, Publish(t) PROVE at'[n] = at[n]
      BY <1>2, <3>1, EnqueueShape DEF Publish, Untouched
    <3>2. CASE \/ \E m \in Msg : Expire(m)
               \/ \E w \in Worker : LoseConnection(w) \/ Exit(w) \/ Restart(w)
               \/ \E w \in Worker, m \in Msg : Deliver(w, m)
               \/ UNCHANGED vars
      BY <3>2, PlaceAssumption
         DEF Expire, LoseConnection, Exit, Restart, Deliver, vars, broker, TypeOK, Place
    <3>3. QED
      BY <1>2, <3>1, <3>2, LoopShape, WorkShape, ShapeParked DEF Next
  <2>3. QED
    BY <1>2, <2>1, <2>2 DEF AttemptsLimited
<1>3. QED
  BY <1>1, <1>2

(* Republishing ends at the limit, neither before nor after: whatever is   *)
(* consumed was republished fewer than MAX_STORAGE_ATTEMPTS times, whatever *)
(* is set aside exactly as often, by however many processes and through    *)
(* however many copies; and no caller's task is ever set aside.            *)
THEOREM StorageAttemptsEnd == Spec => []AttemptsLimited
<1>1. Init => AttemptsLimited
  BY DEF Init, AttemptsLimited
<1>2. IInv /\ AttemptsLimited /\ [Next]_vars => AttemptsLimited'
  BY FrameStep, AttemptsStep DEF IInv
<1>3. QED
  BY <1>1, <1>2, IInvInductive, PTL DEF Spec
-----------------------------------------------------------------------------
(* Who can go on                                                           *)

(* The guards of Loop and Work: a run goes on unless it is behind a busy   *)
(* loop, or has to publish a copy when the model is out of messages.       *)
RunMoves(w, m) ==
  /\ run[w][m].pc # "idle"
  /\ run[w][m].pc = "buffered" => LoopFree(w)
  /\ run[w][m].pc = "unstored" /\ job[m] \in Bulk /\ link[w] = "up" =>
       BrokerMayNack \/ Unborn # {}

Serving(w) == \E m \in Msg : RunMoves(w, m)

(* A message is never stuck with a process: something the process does can *)
(* go on.  Nor is it stuck in the queue: a connected process has a place   *)
(* for it or is about to make one.  In particular the prefetch limit and a *)
(* throttled loop, which stops taking what is buffered behind it, never    *)
(* wait for each other.                                                    *)
THEOREM PrefetchNeverJams ==
  Spec => [](Unborn # {} =>
               \A m \in Msg, w \in Worker :
                 /\ at[m] = w => Serving(w)
                 /\ at[m] = "ready" /\ link[w] = "up" =>
                      Cardinality(Unacked(w)) < Concurrency \/ Serving(w))
<1>1. ASSUME IInv, Unborn # {}, NEW m \in Msg, NEW w \in Worker, at[m] = w
      PROVE  Serving(w)
  <2>1. run[w][m].pc \in Owning
    BY <1>1 DEF IInv, Owned, OwnedDeliveries
  <2>2. CASE run[w][m].pc # "buffered" \/ LoopFree(w)
    BY <1>1, <2>1, <2>2 DEF Serving, RunMoves, Owning
  <2>3. CASE ~LoopFree(w)
    BY <2>3 DEF LoopFree, InLoop, Serving, RunMoves
  <2>4. QED
    BY <2>2, <2>3
<1>2. ASSUME IInv, Unborn # {}, NEW w \in Worker, ~(Cardinality(Unacked(w)) < Concurrency)
      PROVE  Serving(w)
  <2>1. Unacked(w) # {}
    <3> SUFFICES ASSUME Unacked(w) = {} PROVE FALSE
      OBVIOUS
    <3>1. Cardinality(Unacked(w)) = 0
      BY FS_EmptySet
    <3>2. QED
      BY <1>2, <3>1, NumberAssumption
  <2>2. QED
    BY <1>1, <1>2, <2>1 DEF Unacked
<1>3. IInv => (Unborn # {} =>
                 \A m \in Msg, w \in Worker :
                   /\ at[m] = w => Serving(w)
                   /\ at[m] = "ready" /\ link[w] = "up" =>
                        Cardinality(Unacked(w)) < Concurrency \/ Serving(w))
  BY <1>1, <1>2
<1>4. QED
  BY <1>3, IInvInductive, PTL
-----------------------------------------------------------------------------
(* Retried once                                                            *)

(* What an unsettled run remembers of its delivery is the broker's flag.   *)
Flagged ==
  \A w \in Worker, m \in Msg :
    link[w] = "up" /\ run[w][m].pc \in Owning => run[w][m].again = redelivered[m]

FlagKept == \A n \in Msg : redelivered[n] => redelivered'[n]

(* What a step of one run does to the flags: nothing, or it puts its own   *)
(* delivery back and ends.                                                 *)
FlagShape(w, m) ==
  /\ FlagKept
  /\ \A n \in Msg : redelivered'[n] # redelivered[n] =>
       n = m /\ link[w] = "up" /\ run[w][m].pc \in Owning /\ run'[w][m].pc = "idle"
  /\ run'[w][m].pc \in Owning =>
       run[w][m].pc \in Owning /\ run'[w][m].again = run[w][m].again

LEMMA GotoAgain ==
  ASSUME TypeOK, NEW w \in Worker, NEW m \in Msg, NEW pc \in Phase, Goto(w, m, pc)
  PROVE  run'[w][m].pc = pc /\ run'[w][m].again = run[w][m].again
<1>1. run \in Runs /\ run[w][m] \in Run
  BY DEF TypeOK, Runs
<1>2. run'[w][m] = [run[w][m] EXCEPT !.pc = pc]
  BY <1>1, GotoEffect
<1>3. QED
  BY <1>1, <1>2 DEF Run

LEMMA RequeueFlags ==
  ASSUME TypeOK, NEW w \in Worker, NEW m \in Msg, Requeue(w, m)
  PROVE  /\ FlagKept
         /\ \A n \in Msg : redelivered'[n] # redelivered[n] => n = m /\ link[w] = "up"
         /\ link[w] = "up" => redelivered'[m]
BY DEF Requeue, FlagKept, TypeOK

LEMMA SameFlags ==
  ASSUME redelivered' = redelivered
  PROVE  FlagKept /\ \A n \in Msg : redelivered'[n] = redelivered[n]
BY DEF FlagKept

LEMMA LoopFlags ==
  ASSUME TypeOK, NEW w \in Worker, NEW m \in Msg, Loop(w, m)
  PROVE  FlagShape(w, m)
<1>1. CASE DropMalformed(w, m)
  BY <1>1, FinishShape, SameFlags DEF DropMalformed, Settle, FlagShape, Owning
<1>2. CASE RejectThrottled(w, m)
  BY <1>2, GotoAgain, SameFlags DEF RejectThrottled, Settle, FlagShape, Owning, Phase
<1>3. CASE WaitThrottled(w, m)
  BY <1>3, GotoAgain, SameFlags DEF WaitThrottled, FlagShape, Owning, Phase, broker
<1>4. CASE RequeueThrottled(w, m)
  BY <1>4, FinishShape, RequeueFlags DEF RequeueThrottled, FlagShape, Owning
<1>5. CASE Start(w, m)
  BY <1>5, GotoAgain, SameFlags DEF Start, FlagShape, Owning, Phase, broker
<1>6. QED
  BY <1>1, <1>2, <1>3, <1>4, <1>5 DEF Loop

LEMMA WorkFlags ==
  ASSUME TypeOK, NEW w \in Worker, NEW m \in Msg, Work(w, m)
  PROVE  FlagShape(w, m)
<1>1. CASE RequeueUnknown(w, m)
  BY <1>1, FinishShape, RequeueFlags DEF RequeueUnknown, FlagShape, Owning
<1>2. ASSUME NEW o \in Outcome, CheckDone(w, m, o) PROVE FlagShape(w, m)
  <2> DEFINE r == [run[w][m] EXCEPT !.pc = "storing", !.out = o]
  <2>1. run \in Runs /\ run[w][m] \in Run
    BY DEF TypeOK, Runs
  <2>2. r \in Run /\ r.pc = "storing" /\ r.again = run[w][m].again
    BY <2>1 DEF Run, Phase
  <2>3. run' = [run EXCEPT ![w][m] = r]
    BY <1>2 DEF CheckDone
  <2>4. run'[w][m] = r
    BY <2>1, <2>2, <2>3, RunUpdate
  <2>5. QED
    BY <1>2, <2>2, <2>4, SameFlags DEF CheckDone, FlagShape, Owning, broker
<1>3. CASE Store(w, m) \/ StoreFails(w, m)
  BY <1>3, GotoAgain, SameFlags DEF Store, StoreFails, FlagShape, Owning, Phase, broker
<1>4. CASE Ack(w, m)
  <2>1. run'[w][m].pc \notin Owning /\ redelivered' = redelivered
    BY <1>4, GotoShape, FinishShape DEF Ack, Settle, Owning, Phase
  <2>2. QED
    BY <2>1, SameFlags DEF FlagShape
<1>5. CASE RejectUnstored(w, m)
  BY <1>5, GotoAgain, SameFlags DEF RejectUnstored, Settle, FlagShape, Owning, Phase
<1>6. CASE Republish(w, m)
  <2>1. redelivered' = redelivered /\ run[w][m].pc \in Owning
    BY <1>6 DEF Republish, Enqueue, broker, Owning
  <2>2. run'[w][m].pc = "idle" \/ run'[w][m].again = run[w][m].again
    BY <1>6, GotoAgain, FinishShape DEF Republish, Phase
  <2>3. QED
    BY <2>1, <2>2, SameFlags DEF FlagShape, Owning
<1>7. CASE AckOriginal(w, m)
  BY <1>7, FinishShape, SameFlags DEF AckOriginal, Settle, FlagShape, Owning
<1>8. CASE Reply(w, m) \/ Notify(w, m)
  BY <1>8, FinishShape, SameFlags DEF Reply, Notify, FlagShape, Owning, broker
<1>9. QED
  BY <1>1, <1>2, <1>3, <1>4, <1>5, <1>6, <1>7, <1>8 DEF Work

LEMMA FlagStep ==
  ASSUME TypeOK, Owned, Flagged, [Next]_vars
  PROVE  Flagged' /\ FlagKept
<1>1. ASSUME NEW w \in Worker, NEW m \in Msg, StepShape(w, m), FlagShape(w, m)
      PROVE  Flagged' /\ FlagKept
  <2> SUFFICES ASSUME NEW v \in Worker, NEW n \in Msg,
                      link[v] = "up", run'[v][n].pc \in Owning
               PROVE  run'[v][n].again = redelivered'[n]
    BY <1>1 DEF StepShape, FlagShape, Flagged
  <2>1. CASE v = w /\ n = m
    BY <1>1, <2>1 DEF FlagShape, Flagged, Owning
  <2>2. CASE <<v, n>> # <<w, m>>
    <3>1. run'[v][n] = run[v][n]
      BY <1>1, <2>2 DEF StepShape, OthersSame
    <3>2. at[n] = v
      BY <3>1 DEF Owned, OwnedDeliveries
    <3>3. redelivered'[n] = redelivered[n]
      BY <1>1, <2>2, <3>2 DEF FlagShape, Owned, OwnedDeliveries
    <3>4. QED
      BY <3>1, <3>3 DEF Flagged
  <2>3. QED
    BY <2>1, <2>2
<1>2. ASSUME NEW w \in Worker, LoseConnection(w) PROVE Flagged' /\ FlagKept
  BY <1>2 DEF LoseConnection, Flagged, FlagKept, Owned, OwnedDeliveries, TypeOK
<1>3. ASSUME NEW w \in Worker, Exit(w) PROVE Flagged' /\ FlagKept
  BY <1>3 DEF Exit, broker, Flagged, FlagKept, TypeOK
<1>4. ASSUME NEW w \in Worker, Restart(w) PROVE Flagged' /\ FlagKept
  BY <1>4 DEF Restart, broker, Flagged, FlagKept, Owned, IsIdle, Owning, TypeOK
<1>5. ASSUME NEW w \in Worker, NEW m \in Msg, Deliver(w, m) PROVE Flagged' /\ FlagKept
  <2> DEFINE r == [pc |-> "buffered", again |-> redelivered[m], out |-> "none"]
  <2>1. r \in Run /\ r.again = redelivered[m]
    BY DEF Run, Phase, TypeOK
  <2>2. run' = [run EXCEPT ![w][m] = r] /\ redelivered' = redelivered /\ link' = link
    BY <1>5 DEF Deliver
  <2> HIDE DEF r
  <2>3. run'[w][m] = r /\ OthersSame(w, m)
    BY <2>1, <2>2, RunUpdate DEF TypeOK, Runs
  <2>4. QED
    BY <2>1, <2>2, <2>3 DEF OthersSame, Flagged, FlagKept
<1>6. CASE \/ \E t \in Task : Publish(t)
           \/ \E m \in Msg : Expire(m)
           \/ UNCHANGED vars
  BY <1>6 DEF Publish, Enqueue, Expire, vars, broker, Flagged, FlagKept
<1>7. QED
  BY <1>1, <1>2, <1>3, <1>4, <1>5, <1>6, LoopShape, WorkShape, LoopFlags, WorkFlags DEF Next

(* A message is put back for an unknown result only once, whoever verifies *)
(* it: on a working connection that happens only to a message that was     *)
(* never delivered before, and the mark it then gets is never taken away   *)
(* ("we requeue the message, but only once", do_work.rs:174).  A message   *)
(* put back for another reason, a throttle or a broken connection, is      *)
(* marked too and then has no such retry left.                             *)
THEOREM UnknownIsRetriedOnce ==
  Spec => [][ /\ \A m \in Msg : redelivered[m] => redelivered'[m]
              /\ \A w \in Worker, m \in Msg :
                   RequeueUnknown(w, m) /\ link[w] = "up" =>
                     ~redelivered[m] /\ redelivered'[m] ]_vars
<1>1. Init => Flagged
  BY DEF Init, Flagged, NoRun, Owning
<1>2. IInv /\ Flagged /\ [Next]_vars => Flagged'
  BY FlagStep DEF IInv
<1>3. IInv /\ Flagged /\ [Next]_vars =>
        [ /\ \A m \in Msg : redelivered[m] => redelivered'[m]
          /\ \A w \in Worker, m \in Msg :
               RequeueUnknown(w, m) /\ link[w] = "up" =>
                 ~redelivered[m] /\ redelivered'[m] ]_vars
  <2> SUFFICES ASSUME IInv, Flagged, [Next]_vars
               PROVE  /\ \A m \in Msg : redelivered[m] => redelivered'[m]
                      /\ \A w \in Worker, m \in Msg :
                           RequeueUnknown(w, m) /\ link[w] = "up" =>
                             ~redelivered[m] /\ redelivered'[m]
    OBVIOUS
  <2>1. FlagKept
    BY FlagStep DEF IInv
  <2>2. ASSUME NEW w \in Worker, NEW m \in Msg, RequeueUnknown(w, m), link[w] = "up"
        PROVE  ~redelivered[m] /\ redelivered'[m]
    <3>1. run[w][m].pc \in Owning /\ ~run[w][m].again /\ Requeue(w, m)
      BY <2>2 DEF RequeueUnknown, Owning
    <3>2. ~redelivered[m]
      BY <2>2, <3>1 DEF Flagged
    <3>3. redelivered'[m]
      BY <2>2, <3>1, RequeueFlags DEF IInv
    <3>4. QED
      BY <3>2, <3>3
  <2>3. QED
    BY <2>1, <2>2 DEF FlagKept
<1>4. QED
  BY <1>1, <1>2, <1>3, IInvInductive, PTL DEF Spec
-----------------------------------------------------------------------------
(* One at a time, while connections hold                                   *)

(* The phases in which a process may still work on its delivery's task: it *)
(* has neither settled the delivery nor handed the task on to a copy.      *)
Busy == Owning \ {"copied"}

(* The task of message n has gone on to another one, or is done.           *)
Passed(n) == at[n] = "gone" \/ \E w \in Worker : run[w][n].pc = "copied"

AllUp == \A w \in Worker : link[w] = "up"
Siblings(m, n) == m # n /\ job[m] = job[n] /\ job[m] \in Bulk
InTurn ==
  \A m, n \in Msg : Siblings(m, n) =>
    /\ attempts[m] # attempts[n]
    /\ attempts[m] < attempts[n] => Passed(m)

(* Until a connection breaks: all are up, and of the messages of a bulk    *)
(* task, each has its own attempt count and only the last can be live.     *)
Unbroken == losses = 0 => AllUp /\ InTurn

(* Nothing undoes a loss.                                                  *)
LEMMA LossesCount ==
  ASSUME TypeOK, [Next]_vars, losses' = 0
  PROVE  losses = 0 /\ \A w \in Worker : ~LoseConnection(w)
<1>1. ASSUME NEW w \in Worker, LoseConnection(w) PROVE FALSE
  BY <1>1 DEF LoseConnection, TypeOK
<1>2. ASSUME NEW w \in Worker, NEW m \in Msg, Loop(w, m) PROVE losses' = losses
  BY <1>2 DEF Loop, DropMalformed, RejectThrottled, WaitThrottled, RequeueThrottled, Start
<1>3. ASSUME NEW w \in Worker, NEW m \in Msg, Work(w, m) PROVE losses' = losses
  BY <1>3 DEF Work, RequeueUnknown, CheckDone, Store, StoreFails, Ack, RejectUnstored,
              Republish, AckOriginal, Reply, Notify
<1>4. CASE \/ \E t \in Task : Publish(t)
           \/ \E m \in Msg : Expire(m)
           \/ \E w \in Worker : Exit(w) \/ Restart(w)
           \/ \E w \in Worker, m \in Msg : Deliver(w, m)
           \/ UNCHANGED vars
  BY <1>1, <1>4 DEF Publish, Expire, Exit, Restart, Deliver, vars
<1>5. QED
  BY <1>1, <1>2, <1>3, <1>4 DEF Next

LEMMA AllUpStep ==
  ASSUME TypeOK, Owned, AllUp, [Next]_vars, losses' = 0
  PROVE  AllUp'
<1>1. ASSUME NEW w \in Worker, NEW m \in Msg, StepShape(w, m) PROVE AllUp'
  BY <1>1 DEF StepShape, AllUp
<1>2. ASSUME NEW w \in Worker, Exit(w) \/ Restart(w) PROVE FALSE
  BY <1>2 DEF Exit, Restart, AllUp
<1>3. CASE \/ \E t \in Task : Publish(t)
           \/ \E m \in Msg : Expire(m)
           \/ \E w \in Worker, m \in Msg : Deliver(w, m)
           \/ UNCHANGED vars
  BY <1>3 DEF Publish, Expire, Deliver, vars, AllUp
<1>4. QED
  BY <1>1, <1>2, <1>3, LossesCount, LoopShape, WorkShape DEF Next

(* A copied original is settled next.                                      *)
LEMMA PassedStays ==
  ASSUME TypeOK, Owned, AllUp, [Next]_vars, losses' = 0, NEW n \in Msg, Passed(n)
  PROVE  Passed(n)'
<1>1. CASE at[n] = "gone"
  BY <1>1, GoneStays DEF Passed
<1>2. ASSUME NEW v \in Worker, run[v][n].pc = "copied" PROVE Passed(n)'
  <2>1. at[n] = v
    BY <1>2 DEF Owned, OwnedDeliveries, AllUp, Owning
  <2>2. CASE run'[v][n] = run[v][n]
    BY <1>2, <2>2 DEF Passed
  <2>3. ASSUME NEW w \in Worker, NEW m \in Msg, OthersSame(w, m), <<v, n>> # <<w, m>>
        PROVE  Passed(n)'
    BY <2>2, <2>3 DEF OthersSame
  <2>4. ASSUME NEW w \in Worker, NEW m \in Msg, Loop(w, m) PROVE Passed(n)'
    <3>1. <<v, n>> # <<w, m>>
      BY <1>2, <2>4 DEF Loop, DropMalformed, RejectThrottled, WaitThrottled,
                        RequeueThrottled, Start
    <3>2. QED
      BY <2>3, <2>4, <3>1, LoopShape DEF StepShape
  <2>5. ASSUME NEW w \in Worker, NEW m \in Msg, Work(w, m) PROVE Passed(n)'
    <3>1. CASE <<v, n>> # <<w, m>>
      BY <2>3, <2>5, <3>1, WorkShape DEF StepShape
    <3>2. CASE v = w /\ n = m
      <4>1. AckOriginal(v, n)
        BY <1>2, <2>5, <3>2
           DEF Work, RequeueUnknown, CheckDone, Store, StoreFails, Ack, RejectUnstored,
               Republish, Reply, Notify
      <4>2. QED
        BY <4>1, SettleShape DEF AckOriginal, AllUp, Passed
    <3>3. QED
      BY <3>1, <3>2
  <2>6. ASSUME NEW w \in Worker, NEW m \in Msg, Deliver(w, m) PROVE Passed(n)'
    <3>1. n # m
      BY <2>1, <2>6, PlaceAssumption DEF Deliver, Place
    <3>2. run'[v][n] = run[v][n]
      BY <2>6, <3>1 DEF Deliver, TypeOK
    <3>3. QED
      BY <2>2, <3>2
  <2>7. CASE \/ \E t \in Task : Publish(t)
             \/ \E m \in Msg : Expire(m)
             \/ UNCHANGED vars
    BY <2>2, <2>7 DEF Publish, Expire, vars
  <2>8. ASSUME NEW w \in Worker, Exit(w) \/ Restart(w) PROVE FALSE
    BY <2>8 DEF Exit, Restart, AllUp
  <2>9. QED
    BY <2>4, <2>5, <2>6, <2>7, <2>8, LossesCount DEF Next
<1>3. QED
  BY <1>1, <1>2 DEF Passed

(* How messages come to be: a task is published, or copied.                *)
CopyPlace(m) == IF attempts[m] + 1 >= MaxStorageAttempts THEN "parked" ELSE "ready"
Copies(w, m) ==
  /\ run[w][m].pc = "unstored" /\ link[w] = "up"
  /\ Enqueue(job[m], attempts[m] + 1, CopyPlace(m))
  /\ Goto(w, m, "copied")

LEMMA Births ==
  ASSUME [Next]_vars
  PROVE  \/ job' = job /\ attempts' = attempts
         \/ \E t \in Task : Publish(t)
         \/ \E w \in Worker, m \in Msg : Copies(w, m)
<1>1. ASSUME NEW w \in Worker, NEW m \in Msg, Loop(w, m)
      PROVE  job' = job /\ attempts' = attempts
  BY <1>1 DEF Loop, DropMalformed, RejectThrottled, WaitThrottled, RequeueThrottled,
              Start, Settle, Requeue, broker
<1>2. ASSUME NEW w \in Worker, NEW m \in Msg, Work(w, m), ~Copies(w, m)
      PROVE  job' = job /\ attempts' = attempts
  <2>1. CASE Republish(w, m)
    BY <1>2, <2>1 DEF Republish, Copies, CopyPlace, broker
  <2>2. CASE ~Republish(w, m)
    BY <1>2, <2>2 DEF Work, RequeueUnknown, CheckDone, Store, StoreFails, Ack,
              RejectUnstored, AckOriginal, Reply, Notify, Settle, Requeue, broker
  <2>3. QED
    BY <2>1, <2>2
<1>3. CASE \/ \E m \in Msg : Expire(m)
           \/ \E w \in Worker : LoseConnection(w) \/ Exit(w) \/ Restart(w)
           \/ \E w \in Worker, m \in Msg : Deliver(w, m)
           \/ UNCHANGED vars
  BY <1>3 DEF Expire, LoseConnection, Exit, Restart, Deliver, vars, broker
<1>4. QED
  BY <1>1, <1>2, <1>3 DEF Next

(* Who holds a message that is not passed on yet holds the last of its     *)
(* task.                                                                   *)
LEMMA HolderIsLast ==
  ASSUME TypeOK, Owned, AllUp, InTurn, NEW w \in Worker, NEW m \in Msg,
         run[w][m].pc \in Busy, NEW n \in Msg, Siblings(m, n)
  PROVE  attempts[n] < attempts[m] /\ Passed(n)
<1>1. at[m] = w
  BY DEF Busy, Owned, OwnedDeliveries, AllUp
<1>2. ~Passed(m)
  <2>1. at[m] # "gone"
    BY <1>1, PlaceAssumption DEF Place
  <2>2. ASSUME NEW v \in Worker, run[v][m].pc = "copied" PROVE FALSE
    <3>1. at[m] = v
      BY <2>2 DEF Owned, OwnedDeliveries, AllUp, Owning
    <3>2. QED
      BY <1>1, <2>2, <3>1 DEF Busy
  <2>3. QED
    BY <2>1, <2>2 DEF Passed
<1>3. Siblings(n, m)
  BY DEF Siblings
<1>4. attempts[m] # attempts[n] /\ ~(attempts[m] < attempts[n])
  BY <1>2 DEF InTurn
<1>5. attempts[n] < attempts[m]
  BY <1>4 DEF TypeOK
<1>6. QED
  BY <1>3, <1>5 DEF InTurn

LEMMA InTurnStep ==
  ASSUME TypeOK, TypeOK', Owned, AllUp, InTurn, [Next]_vars, losses' = 0
  PROVE  InTurn'
<1> DEFINE Fine(m, n) ==
      /\ attempts'[m] # attempts'[n]
      /\ attempts'[m] < attempts'[n] => Passed(m)'
<1>1. ASSUME NEW m \in Msg, NEW n \in Msg, Siblings(m, n),
             attempts'[m] = attempts[m], attempts'[n] = attempts[n]
      PROVE  Fine(m, n)
  BY <1>1, PassedStays DEF InTurn
<1>2. CASE job' = job /\ attempts' = attempts
  BY <1>1, <1>2 DEF InTurn, Siblings
<1>3. ASSUME NEW t \in Task, Publish(t) PROVE InTurn'
  <2>1. /\ job'[Fresh] = t
        /\ \A n \in Msg : n # Fresh => job'[n] = job[n] /\ attempts'[n] = attempts[n]
    BY <1>3, EnqueueShape DEF Publish
  <2>2. \A n \in Msg : job[n] # t
    BY <1>3 DEF Publish, Published
  <2>3. ASSUME NEW m \in Msg, NEW n \in Msg, Siblings(m, n)'
        PROVE  Fine(m, n)
    <3>1. m # Fresh /\ n # Fresh
      BY <2>1, <2>2, <2>3 DEF Siblings
    <3>2. QED
      BY <1>1, <2>1, <2>3, <3>1 DEF Siblings
  <2>4. QED
    BY <2>3 DEF InTurn
<1>4. ASSUME NEW w \in Worker, NEW o \in Msg, Copies(w, o) PROVE InTurn'
  <2>1. /\ Fresh \in Msg /\ at[Fresh] = "unborn"
        /\ job'[Fresh] = job[o] /\ attempts'[Fresh] = attempts[o] + 1
        /\ \A n \in Msg : n # Fresh => job'[n] = job[n] /\ attempts'[n] = attempts[n]
    BY <1>4, EnqueueShape DEF Copies, CopyPlace
  <2>2. run[w][o].pc \in Busy /\ o # Fresh
    BY <1>4, <2>1 DEF Copies, Busy, Owning, Owned, IsIdle
  <2>3. Passed(o)'
    BY <1>4, GotoShape DEF Copies, Phase, Passed
  <2>4. ASSUME NEW n \in Msg, n # Fresh, job'[n] = job'[Fresh], job'[n] \in Bulk
        PROVE  attempts'[n] < attempts'[Fresh] /\ Passed(n)'
    <3>1. attempts'[n] = attempts[n] /\ attempts[n] \in Nat /\ attempts[o] \in Nat
      BY <2>1, <2>4 DEF TypeOK
    <3>2. CASE n = o
      BY <2>1, <2>3, <3>1, <3>2
    <3>3. CASE n # o
      <4>1. Siblings(o, n)
        BY <2>1, <2>4, <3>3 DEF Siblings
      <4>2. attempts[n] < attempts[o] /\ Passed(n)
        BY <2>2, <4>1, HolderIsLast
      <4>3. QED
        BY <2>1, <3>1, <4>2, PassedStays
    <3>4. QED
      BY <3>2, <3>3
  <2>5. ASSUME NEW m \in Msg, NEW n \in Msg, Siblings(m, n)'
        PROVE  Fine(m, n)
    <3>1. CASE m # Fresh /\ n # Fresh
      BY <1>1, <2>1, <2>5, <3>1 DEF Siblings
    <3>2. CASE n = Fresh
      <4>1. attempts'[m] < attempts'[n] /\ Passed(m)'
        BY <2>4, <2>5, <3>2 DEF Siblings
      <4>2. attempts'[n] \in Nat /\ attempts'[m] \in Nat
        BY DEF TypeOK
      <4>3. QED
        BY <4>1, <4>2
    <3>3. CASE m = Fresh
      <4>1. attempts'[n] < attempts'[m]
        BY <2>4, <2>5, <3>3 DEF Siblings
      <4>2. attempts'[n] \in Nat /\ attempts'[m] \in Nat
        BY DEF TypeOK
      <4>3. QED
        BY <4>1, <4>2
    <3>4. QED
      BY <3>1, <3>2, <3>3
  <2>6. QED
    BY <2>5 DEF InTurn
<1>5. QED
  BY <1>2, <1>3, <1>4, Births

LEMMA UnbrokenStep ==
  ASSUME TypeOK, TypeOK', Owned, Unbroken, [Next]_vars
  PROVE  Unbroken'
<1> SUFFICES ASSUME losses' = 0 PROVE AllUp' /\ InTurn'
  BY DEF Unbroken
<1>1. AllUp /\ InTurn
  BY LossesCount DEF Unbroken
<1>2. QED
  BY <1>1, AllUpStep, InTurnStep

Messages(t) == {m \in Msg : job[m] = t}

(* Attempt counts tell the messages of a task apart, and there are only so *)
(* many counts.                                                            *)
LEMMA CountsAreFew ==
  ASSUME TypeOK, Blank, AttemptsLimited, InTurn, NEW t \in Bulk
  PROVE  /\ IsFiniteSet(Messages(t))
         /\ Cardinality(Messages(t)) <= MaxStorageAttempts + 1
<1> DEFINE f == [m \in Messages(t) |-> attempts[m]]
<1> DEFINE T == 0 .. MaxStorageAttempts
<1>1. \A m \in Messages(t) : attempts[m] \in T
  <2> SUFFICES ASSUME NEW m \in Messages(t) PROVE attempts[m] \in T
    OBVIOUS
  <2>1. m \in Msg /\ at[m] # "unborn" /\ attempts[m] \in Nat
    BY TaskAssumption DEF Messages, Blank, TypeOK
  <2>2. QED
    BY <2>1, NumberAssumption DEF AttemptsLimited
<1>2. \A m, n \in Messages(t) : attempts[m] = attempts[n] => m = n
  BY DEF Messages, InTurn, Siblings
<1>3. f \in Injection(Messages(t), T)
  BY <1>1, <1>2 DEF Injection, IsInjective
<1>4. IsFiniteSet(T) /\ Cardinality(T) = MaxStorageAttempts + 1
  BY FS_Interval, NumberAssumption
<1> HIDE DEF f, T
<1>5. QED
  BY <1>3, <1>4, FS_Injection

(* As long as no connection breaks, the work on a bulk task goes from hand *)
(* to hand: one process at a time has a message of it that is not settled  *)
(* and not copied yet, so no two verify or store it at the same time, and  *)
(* there is never more than the original and MAX_STORAGE_ATTEMPTS copies.  *)
(* That a copy is published only by who holds the last message, and before *)
(* it is acknowledged, is what this is about (retry_after_storage_failure).*)
(* After a broken connection neither holds: a process that has not noticed *)
(* works on, and two processes may each publish a copy.                    *)
THEOREM OneHandAtATime ==
  Spec => [](losses = 0 =>
               /\ \A w, v \in Worker, m, n \in Msg :
                    /\ job[m] = job[n] /\ job[m] \in Bulk
                    /\ run[w][m].pc \in Busy /\ run[v][n].pc \in Busy
                    => w = v /\ m = n
               /\ \A t \in Bulk :
                    Cardinality(Messages(t)) <= MaxStorageAttempts + 1)
<1> DEFINE Turns == /\ \A w, v \in Worker, m, n \in Msg :
                         /\ job[m] = job[n] /\ job[m] \in Bulk
                         /\ run[w][m].pc \in Busy /\ run[v][n].pc \in Busy
                         => w = v /\ m = n
                    /\ \A t \in Bulk :
                         Cardinality(Messages(t)) <= MaxStorageAttempts + 1
<1>1. Init => Unbroken /\ Blank
  BY TaskAssumption DEF Init, Unbroken, AllUp, InTurn, Siblings, Blank
<1>2. IInv /\ IInv' /\ Unbroken /\ [Next]_vars => Unbroken'
  BY UnbrokenStep DEF IInv
<1>3. IInv /\ Blank /\ [Next]_vars => Blank'
  BY BlankStep, FrameStep DEF IInv
<1>4. ASSUME IInv, AttemptsLimited, Unbroken, Blank, losses = 0 PROVE Turns
  <2>1. AllUp /\ InTurn
    BY <1>4 DEF Unbroken
  <2>2. ASSUME NEW w \in Worker, NEW v \in Worker, NEW m \in Msg, NEW n \in Msg,
               job[m] = job[n], job[m] \in Bulk,
               run[w][m].pc \in Busy, run[v][n].pc \in Busy
        PROVE  w = v /\ m = n
    <3>1. m = n
      <4> SUFFICES ASSUME m # n PROVE FALSE
        OBVIOUS
      <4>1. Siblings(m, n) /\ Siblings(n, m)
        BY <2>2 DEF Siblings
      <4>2. attempts[n] < attempts[m] /\ attempts[m] < attempts[n]
        BY <1>4, <2>1, <2>2, <4>1, HolderIsLast DEF IInv
      <4>3. QED
        BY <1>4, <4>2 DEF IInv, TypeOK
    <3>2. at[m] = w /\ at[n] = v
      BY <1>4, <2>1, <2>2 DEF IInv, Owned, OwnedDeliveries, AllUp, Busy
    <3>3. QED
      BY <3>1, <3>2
  <2>3. \A t \in Bulk : Cardinality(Messages(t)) <= MaxStorageAttempts + 1
    BY <1>4, <2>1, CountsAreFew DEF IInv
  <2>4. QED
    BY <2>2, <2>3
<1>5. IInv /\ AttemptsLimited /\ Unbroken /\ Blank => (losses = 0 => Turns)
  BY <1>4
<1>6. Spec => [](losses = 0 => Turns)
  <2> HIDE DEF Turns
  <2> QED BY <1>1, <1>2, <1>3, <1>5, IInvInductive, StorageAttemptsEnd, PTL DEF Spec
<1>7. QED
  BY <1>6
=============================================================================
