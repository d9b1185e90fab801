---------------------------- MODULE LegacyProofs ----------------------------
(***************************************************************************)
(* What holds of a legacy bulk job for any addresses, any number of        *)
(* attempts and ports, and any page size, however its tasks fail and       *)
(* whatever prune_db does.                                                 *)
(***************************************************************************)
EXTENDS LegacyBulk, FiniteSetTheorems, TLAPS

Result == [address : Address, tried : 0..MaxPorts, unknown : BOOLEAN]

(* The rows of a in r.                                                     *)
Rows(r, a) == {i \in DOMAIN r : r[i].address = a}

(* A running task has cost an attempt that its result makes up for, and a  *)
(* waiting one has an attempt to go.                                       *)
Due(a) == IF task[a] \in {"checking", "inserting"} THEN 1 ELSE 0

Counted ==
  /\ \A a \in Address : RowsOf(a) + left[a] + Due(a) <= Attempts
  /\ \A a \in Address : task[a] \in {"unborn", "queued"} => left[a] > 0

(* Every port was tried before an unknown address is given up.             *)
Tried ==
  /\ ports > 0 => \A a \in Address : task[a] = "inserting" /\ unknown[a] => port[a] = ports
  /\ ports = 0 => \A a \in Address : task[a] # "inserting"
  /\ UnknownTriedAll

(* A download that counted enough rows keeps them.                         *)
Whole ==
  reader.at = "fetching" =>
    reader.format # "status" /\ (~Pruning => Len(results) >= Total)

IInv == TypeOK /\ Counted /\ Tried /\ Whole

LEMMA Numbers ==
  /\ Attempts \in Nat /\ Attempts > 0 /\ MaxPorts \in Nat
  /\ PageSize \in Nat /\ PageSize > 0 /\ Total \in Nat /\ Total > 0
<1>1. Total \in Nat /\ Total # 0
  BY AddressAssumption, FS_CardinalityType, FS_EmptySet DEF Total
<1> QED BY <1>1, BoundAssumption

LEMMA RowsFinite ==
  ASSUME NEW r \in Seq(Result), NEW a
  PROVE  IsFiniteSet(Rows(r, a)) /\ Cardinality(Rows(r, a)) \in Nat
<1>1. Rows(r, a) \subseteq 1..Len(r) /\ Len(r) \in Nat
  BY DEF Rows
<1>2. IsFiniteSet(1..Len(r))
  BY <1>1, FS_Interval
<1> QED BY <1>1, <1>2, FS_Subset, FS_CardinalityType

(* A new row counts for its address only.                                  *)
LEMMA OneRowMore ==
  ASSUME NEW r \in Seq(Result), NEW e \in Result, NEW a
  PROVE  Cardinality(Rows(Append(r, e), a)) =
           Cardinality(Rows(r, a)) + IF e.address = a THEN 1 ELSE 0
<1>1. /\ DOMAIN Append(r, e) = DOMAIN r \cup {Len(r) + 1}
      /\ Len(r) + 1 \notin DOMAIN r
      /\ \A i \in DOMAIN r : Append(r, e)[i] = r[i]
      /\ Append(r, e)[Len(r) + 1] = e
  OBVIOUS
<1>2. CASE e.address = a
  <2>1. Rows(Append(r, e), a) = Rows(r, a) \cup {Len(r) + 1}
    BY <1>1, <1>2 DEF Rows
  <2>2. Len(r) + 1 \notin Rows(r, a)
    BY <1>1 DEF Rows
  <2> QED BY <1>2, <2>1, <2>2, RowsFinite, FS_AddElement
<1>3. CASE e.address # a
  <2>1. Rows(Append(r, e), a) = Rows(r, a)
    BY <1>1, <1>3 DEF Rows
  <2> QED BY <1>3, <2>1, RowsFinite
<1> QED BY <1>2, <1>3

LEMMA InitIInv == Init => IInv
<1> SUFFICES ASSUME Init PROVE IInv
  OBVIOUS
<1>1. TypeOK
  <2>1. results \in Seq(Result)
    BY DEF Init
  <2>2. left \in [Address -> 0..Attempts] /\ port \in [Address -> 0..MaxPorts]
    BY Numbers DEF Init
  <2>3. /\ task \in [Address -> {"unborn", "queued", "gone", "dead"} \cup Running]
        /\ unknown \in [Address -> BOOLEAN]
    BY DEF Init
  <2>4. reader \in [at : {"idle", "counting", "fetching"},
                    format : {"status", "json", "csv"}]
    BY DEF Init, NoReader
  <2> QED BY <2>1, <2>2, <2>3, <2>4 DEF Init, TypeOK, Result
<1>2. \A a \in Address : RowsOf(a) = 0
  <2>1. \A a \in Address : Rows(results, a) = {}
    BY DEF Init, Rows
  <2> QED BY <2>1, FS_EmptySet DEF RowsOf, Rows
<1>3. Counted
  BY <1>2, Numbers DEF Init, Counted, Due
<1>4. Tried
  BY DEF Init, Tried, UnknownTriedAll
<1>5. Whole
  BY DEF Init, Whole, NoReader
<1> QED BY <1>1, <1>3, <1>4, <1>5 DEF IInv
-----------------------------------------------------------------------------
(* Steps that leave the tasks and the results alone                        *)

LEMMA RestType ==
  ASSUME TypeOK, \/ Create \/ Answer \/ SubmitFails \/ Request \/ Count \/ Fetch
                 \/ Select \/ DeleteJob \/ PruneDies \/ UNCHANGED vars
  PROVE  TypeOK'
<1>1. CASE Create
  BY <1>1 DEF TypeOK, Create, tasks
<1>2. CASE Answer
  BY <1>2 DEF TypeOK, Answer, tasks
<1>3. CASE SubmitFails
  BY <1>3 DEF TypeOK, SubmitFails, tasks
<1>4. CASE Request
  BY <1>4 DEF TypeOK, Request, tasks, NoReader
<1>5. CASE Count
  BY <1>5 DEF TypeOK, Count, tasks, NoReader
<1>6. CASE Fetch
  BY <1>6 DEF TypeOK, Fetch, tasks, NoReader
<1>7. CASE Select
  BY <1>7 DEF TypeOK, Select, tasks
<1>8. CASE DeleteJob
  BY <1>8 DEF TypeOK, DeleteJob, tasks
<1>9. CASE PruneDies
  BY <1>9 DEF TypeOK, PruneDies, tasks
<1>10. CASE UNCHANGED vars
  BY <1>10 DEF TypeOK, vars
<1> QED BY <1>1, <1>2, <1>3, <1>4, <1>5, <1>6, <1>7, <1>8, <1>9, <1>10

LEMMA RestStep ==
  ASSUME IInv, \/ Create \/ Answer \/ SubmitFails \/ Request \/ Count \/ Fetch
               \/ Select \/ DeleteJob \/ PruneDies \/ UNCHANGED vars
  PROVE  IInv'
<1> USE DEF IInv
<1>1. TypeOK'
  BY RestType
<1>2. UNCHANGED <<ports, task, left, port, unknown, results>>
  BY DEF Create, Answer, SubmitFails, Request, Count, Fetch, Select, DeleteJob,
         PruneDies, tasks, vars
<1>3. Counted'
  BY <1>2 DEF Counted, RowsOf, Due
<1>4. Tried'
  BY <1>2 DEF Tried, UnknownTriedAll
<1>5. Whole'
  BY <1>2, Numbers DEF Whole, Pruning, Create, Answer, SubmitFails, Request, Count, Fetch,
     Select, DeleteJob, PruneDies, NoReader, vars, TypeOK
<1> QED BY <1>1, <1>3, <1>4, <1>5

LEMMA DeleteResultsStep ==
  ASSUME IInv, DeleteResults
  PROVE  IInv'
<1> USE DEF IInv
<1>1. TypeOK'
  BY DEF TypeOK, DeleteResults, tasks
<1>2. \A a \in Address : RowsOf(a)' = 0
  <2>1. \A a \in Address : Rows(results', a) = {}
    BY DEF DeleteResults, Rows
  <2> QED BY <2>1, FS_EmptySet DEF RowsOf, Rows
<1>3. \A a \in Address : RowsOf(a) \in Nat
  BY RowsFinite DEF TypeOK, RowsOf, Rows, Result
<1>4. Counted'
  BY <1>2, <1>3, Numbers DEF Counted, Due, DeleteResults, tasks, TypeOK
<1>5. Tried'
  BY DEF Tried, UnknownTriedAll, DeleteResults, tasks
<1>6. Whole'
  BY DEF Whole, Pruning, DeleteResults
<1> QED BY <1>1, <1>4, <1>5, <1>6
-----------------------------------------------------------------------------
(* Steps of a task                                                         *)

LEMMA TaskType ==
  ASSUME TypeOK, Counted, NEW a \in Address,
         \/ Spawn(a) \/ Poll(a) \/ Try(a) \/ SkipInsert(a) \/ Complete(a) \/ Interrupted(a)
  PROVE  TypeOK'
<1>1. CASE Spawn(a)
  BY <1>1 DEF TypeOK, Spawn
<1>2. CASE Poll(a)
  BY <1>2, Numbers DEF TypeOK, Poll, Running, Counted
<1>3. CASE Try(a)
  BY <1>3, Numbers DEF TypeOK, Try, Running
<1>4. CASE SkipInsert(a)
  BY <1>4 DEF TypeOK, SkipInsert, Running
<1>5. CASE Complete(a)
  BY <1>5 DEF TypeOK, Complete, Running
<1>6. CASE Interrupted(a)
  BY <1>6, Numbers DEF TypeOK, Interrupted, Leave, Running
<1> QED BY <1>1, <1>2, <1>3, <1>4, <1>5, <1>6

LEMMA TaskCounted ==
  ASSUME TypeOK, Counted, NEW a \in Address,
         \/ Spawn(a) \/ Poll(a) \/ Try(a) \/ SkipInsert(a) \/ Complete(a) \/ Interrupted(a)
  PROVE  Counted'
<1>1. \A b \in Address : RowsOf(b)' = RowsOf(b)
  BY DEF Spawn, Poll, Try, SkipInsert, Complete, Interrupted, RowsOf
<1>2. \A b \in Address : RowsOf(b) \in Nat
  BY RowsFinite DEF TypeOK, RowsOf, Rows, Result
<1>3. \A b \in Address : left[b] \in Nat /\ left[b] + Due(b) + RowsOf(b) <= Attempts
  BY <1>2, Numbers DEF TypeOK, Counted, Due
<1>4. \A b \in Address : b # a => task'[b] = task[b] /\ left'[b] = left[b]
  BY DEF Spawn, Poll, Try, SkipInsert, Complete, Interrupted, Leave, TypeOK
<1>5. /\ left'[a] + Due(a)' <= left[a] + Due(a) /\ left'[a] \in Nat
      /\ task'[a] \in {"unborn", "queued"} => left'[a] > 0
  BY Numbers DEF Spawn, Poll, Try, SkipInsert, Complete, Interrupted, Leave, TypeOK,
     Counted, Due, Running
<1>6. ASSUME NEW b \in Address
      PROVE  /\ RowsOf(b)' + left'[b] + Due(b)' <= Attempts
             /\ task'[b] \in {"unborn", "queued"} => left'[b] > 0
  <2>1. CASE b = a
    BY <1>1, <1>2, <1>3, <1>5, <2>1, Numbers DEF Due
  <2>2. CASE b # a
    BY <1>1, <1>2, <1>3, <1>4, <2>2, Numbers DEF Due, Counted
  <2> QED BY <2>1, <2>2
<1> QED BY <1>6 DEF Counted

LEMMA TaskTried ==
  ASSUME TypeOK, Tried, NEW a \in Address,
         \/ Spawn(a) \/ Poll(a) \/ Try(a) \/ SkipInsert(a) \/ Complete(a) \/ Interrupted(a)
  PROVE  Tried'
<1>1. ports' = ports /\ results' = results /\ UnknownTriedAll'
  BY DEF Spawn, Poll, Try, SkipInsert, Complete, Interrupted, Tried, UnknownTriedAll
<1>2. \A b \in Address : b # a => /\ task'[b] = task[b] /\ unknown'[b] = unknown[b]
                                  /\ port'[b] = port[b]
  BY DEF Spawn, Poll, Try, SkipInsert, Complete, Interrupted, Leave, TypeOK
<1>3. task'[a] = "inserting" => ports > 0 /\ (unknown'[a] => port'[a] = ports)
  BY Numbers DEF Spawn, Poll, Try, SkipInsert, Complete, Interrupted, Leave, TypeOK
<1>4. ports \in Nat
  BY Numbers DEF TypeOK
<1> QED BY <1>1, <1>2, <1>3, <1>4 DEF Tried

LEMMA TaskStep ==
  ASSUME IInv, NEW a \in Address,
         \/ Spawn(a) \/ Poll(a) \/ Try(a) \/ SkipInsert(a) \/ Complete(a) \/ Interrupted(a)
  PROVE  IInv'
<1> USE DEF IInv
<1>1. TypeOK' /\ Counted' /\ Tried'
  BY TaskType, TaskCounted, TaskTried
<1>2. Whole'
  BY DEF Whole, Pruning, Spawn, Poll, Try, SkipInsert, Complete, Interrupted
<1> QED BY <1>1, <1>2

(* The result of an attempt takes the place of what the attempt was due.   *)
LEMMA InsertStep ==
  ASSUME IInv, NEW a \in Address, Insert(a)
  PROVE  IInv'
<1> USE DEF IInv
<1> DEFINE e == [address |-> a, tried |-> port[a], unknown |-> unknown[a]]
<1>1. /\ e \in Result /\ results \in Seq(Result) /\ results' = Append(results, e)
      /\ e.address = a /\ task[a] = "inserting" /\ UNCHANGED <<ports, left, reader, pruner>>
  BY DEF Insert, TypeOK, Result
<1>2. /\ \A b \in Address : b # a => /\ task'[b] = task[b] /\ unknown'[b] = unknown[b]
                                     /\ port'[b] = port[b]
      /\ task'[a] = "completing"
  BY DEF Insert, Leave, TypeOK
<1>3. TypeOK'
  <2>1. results' \in Seq(Result)
    BY <1>1
  <2> QED BY <2>1, Numbers DEF Insert, Leave, TypeOK, Running, Result
<1>4. ASSUME NEW b \in Address
      PROVE  /\ RowsOf(b)' + left'[b] + Due(b)' <= Attempts
             /\ task'[b] \in {"unborn", "queued"} => left'[b] > 0
  <2>1. RowsOf(b) \in Nat
    BY <1>1, RowsFinite DEF RowsOf, Rows
  <2>5. left[b] \in Nat
    BY Numbers DEF TypeOK
  <2>2. RowsOf(b)' = RowsOf(b) + IF a = b THEN 1 ELSE 0
    <3> HIDE DEF e
    <3>1. Cardinality(Rows(Append(results, e), b)) =
            Cardinality(Rows(results, b)) + IF e.address = b THEN 1 ELSE 0
      BY <1>1, OneRowMore
    <3> QED BY <1>1, <3>1 DEF RowsOf, Rows
  <2>3. CASE b = a
    BY <1>1, <1>2, <2>1, <2>2, <2>3, <2>5, Numbers DEF Due, Counted
  <2>4. CASE b # a
    BY <1>1, <1>2, <2>1, <2>2, <2>4, <2>5, Numbers DEF Due, Counted
  <2> QED BY <2>3, <2>4
<1>5. Counted'
  BY <1>4 DEF Counted
<1>6. ASSUME NEW i \in DOMAIN results', results'[i].unknown
      PROVE  results'[i].tried = ports'
  <2>1. CASE i \in DOMAIN results
    BY <1>1, <1>6, <2>1 DEF Tried, UnknownTriedAll
  <2>2. CASE i \notin DOMAIN results
    <3>1. results'[i] = e
      BY <1>1, <2>2
    <3>2. ports > 0
      BY <1>1, Numbers DEF Tried, TypeOK
    <3> QED BY <1>1, <1>6, <3>1, <3>2 DEF Tried
  <2> QED BY <2>1, <2>2
<1>7. Tried'
  BY <1>1, <1>2, <1>6 DEF Tried, UnknownTriedAll
<1>8. Whole'
  <2>1. Len(results') >= Len(results) /\ Len(results) \in Nat /\ Len(results') \in Nat
    BY <1>1
  <2> QED BY <1>1, <2>1, Numbers DEF Whole, Pruning
<1> QED BY <1>3, <1>5, <1>7, <1>8

LEMMA IInvInductive == Spec => []IInv
<1>1. IInv /\ [Next]_vars => IInv'
  BY RestStep, DeleteResultsStep, TaskStep, InsertStep DEF Next, Work
<1> QED BY InitIInv, <1>1, PTL DEF Spec

(* The variables keep their types: no task has an attempt less than none.  *)
THEOREM LegacyTyped == Spec => []TypeOK
<1>1. IInv => TypeOK
  BY DEF IInv
<1> QED BY <1>1, IInvInductive, PTL

(* A task that is retried after its insertion inserts again, but an        *)
(* address never has more results than sqlxmq grants attempts.             *)
THEOREM RowsStayBounded == Spec => []RowsBounded
<1>1. IInv => RowsBounded
  <2> SUFFICES ASSUME IInv, NEW a \in Address PROVE RowsOf(a) + left[a] <= Attempts
    BY DEF RowsBounded
  <2>1. RowsOf(a) \in Nat
    BY RowsFinite DEF IInv, RowsOf, Rows, TypeOK, Result
  <2>2. left[a] \in Nat /\ Due(a) \in Nat
    BY Numbers DEF IInv, TypeOK, Due
  <2> QED BY <2>1, <2>2, Numbers DEF IInv, Counted
<1> QED BY <1>1, IInvInductive, PTL

(* No result says "unknown" before every port of the request was tried.    *)
THEOREM UnknownsTriedAll == Spec => []UnknownTriedAll
<1>1. IInv => UnknownTriedAll
  BY DEF IInv, Tried
<1> QED BY <1>1, IInvInductive, PTL

(* Rows as many as addresses: if one address has none, another has two.    *)
LEMMA TwiceOrWhole ==
  ASSUME TypeOK, Len(results) >= Total, NEW a0 \in Address, RowsOf(a0) = 0
  PROVE  \E a \in Address : RowsOf(a) > 1
<1> DEFINE n == Len(results)
           others == Address \ {a0}
           of == [i \in 1..n |-> results[i].address]
<1>1. DOMAIN results = 1..n /\ n \in Nat
  BY DEF TypeOK
<1>2. \A i \in 1..n : results[i].address \in Address
  <2>1. results \in Seq(Result)
    BY DEF TypeOK, Result
  <2>2. \A i \in 1..n : results[i] \in Result
    BY <1>1, <2>1
  <2> QED BY <2>2 DEF Result
<1>3. \A a \in Address : RowsOf(a) = Cardinality(Rows(results, a))
                        /\ IsFiniteSet(Rows(results, a))
  BY RowsFinite DEF RowsOf, Rows, TypeOK, Result
<1>4. Rows(results, a0) = {}
  BY <1>3, FS_EmptySet
<1>5. of \in [1..n -> others]
  BY <1>1, <1>2, <1>4 DEF Rows
<1>6. IsFiniteSet(others) /\ Cardinality(others) = Total - 1 /\ Total \in Nat
  BY AddressAssumption, FS_RemoveElement, FS_CardinalityType DEF Total
<1>7. IsFiniteSet(1..n) /\ Cardinality(1..n) = n
  <2> HIDE DEF n
  <2> QED BY <1>1, FS_Interval
<1>8. Cardinality(others) < Cardinality(1..n)
  BY <1>1, <1>6, <1>7
<1>9. PICK i, j \in 1..n : i # j /\ of[i] = of[j]
  <2> HIDE DEF n, others, of
  <2> QED BY <1>5, <1>6, <1>7, <1>8, FS_PigeonHole
<1> DEFINE a == results[i].address
           two == {i} \cup {j}
<1>10. a \in Address /\ two \in SUBSET Rows(results, a)
  BY <1>1, <1>2, <1>9 DEF Rows
<1>11. IsFiniteSet(two) /\ Cardinality(two) = 2
  <2>1. IsFiniteSet({i}) /\ Cardinality({i}) = 1 /\ j \notin {i}
    BY <1>9, FS_Singleton
  <2> QED BY <2>1, FS_AddElement
<1>12. Cardinality(two) <= Cardinality(Rows(results, a)) /\ Cardinality(Rows(results, a)) \in Nat
  <2> HIDE DEF two
  <2> QED BY <1>3, <1>10, FS_Subset, FS_CardinalityType
<1> QED BY <1>3, <1>10, <1>11, <1>12

(* A download has as many rows as the job has addresses, or a full page,   *)
(* and misses an address only where another has more than one row, unless  *)
(* prune_db has been at work.                                              *)
THEOREM DownloadsAreWhole == Spec => []DownloadIsWhole
<1>1. IInv => DownloadIsWhole
  <2> SUFFICES ASSUME IInv, reader.at = "fetching", ~Pruning
               PROVE  /\ Fetched >= IF reader.format = "json" /\ Total > PageSize
                                    THEN PageSize ELSE Total
                      /\ \A b \in Address : RowsOf(b) = 0 => \E a \in Address : RowsOf(a) > 1
    BY DEF DownloadIsWhole
  <2>1. Len(results) \in Nat /\ Len(results) >= Total
    BY DEF IInv, Whole, TypeOK
  <2>2. Fetched >= IF reader.format = "json" /\ Total > PageSize THEN PageSize ELSE Total
    BY <2>1, Numbers DEF Fetched
  <2> QED BY <2>1, <2>2, TwiceOrWhole DEF IInv
<1> QED BY <1>1, IInvInductive, PTL
-----------------------------------------------------------------------------
(* Completion                                                              *)

HasRow(a) == \E i \in DOMAIN results : results[i].address = a

(* A task that is through has left its row, unless there was no port to    *)
(* try or prune_db came; nobody but prune_db takes the job from under the  *)
(* tasks; and a task that is being checked has a port to try.              *)
Through ==
  /\ row \/ job = "none" \/ Pruning
  /\ job = "none" => \A a \in Address : task[a] = "unborn"
  /\ job = "answered" => \A a \in Address : task[a] # "unborn"
  /\ \A a \in Address :
       /\ task[a] \in {"unborn", "queued"} => port[a] = 0
       /\ task[a] = "checking" /\ ports > 0 => port[a] < ports
       /\ task[a] \in {"completing", "gone"} /\ ports > 0 /\ ~Pruning => HasRow(a)
  /\ ports = 0 => results = <<>>

(* The guards of Work.                                                     *)
TaskMoves(a) ==
  \/ task[a] = "queued"
  \/ task[a] = "checking" /\ (port[a] < ports \/ ports = 0)
  \/ task[a] = "inserting" /\ row
  \/ task[a] = "completing"

LEMMA ThroughRest ==
  ASSUME IInv, Through,
         \/ Create \/ Answer \/ SubmitFails \/ Request \/ Count \/ Fetch
         \/ Select \/ DeleteResults \/ DeleteJob \/ PruneDies \/ UNCHANGED vars
  PROVE  Through'
<1>1. UNCHANGED <<ports, task, port>>
  BY DEF Create, Answer, SubmitFails, Request, Count, Fetch, Select, DeleteResults,
         DeleteJob, PruneDies, tasks, vars
<1>2. CASE DeleteResults
  BY <1>1, <1>2 DEF DeleteResults, Through, Pruning
<1>3. CASE ~DeleteResults
  <2>1. /\ results' = results /\ (Pruning => Pruning')
        /\ row' \/ job' = "none" \/ Pruning'
        /\ job' = "none" => job = "none"
        /\ job' = "answered" => \A a \in Address : task[a] # "unborn"
    BY <1>3 DEF Create, Answer, SubmitFails, Request, Count, Fetch, Select,
                DeleteJob, PruneDies, tasks, vars, Pruning, Through
  <2> QED BY <1>1, <2>1 DEF Through, HasRow
<1> QED BY <1>2, <1>3

LEMMA ThroughTask ==
  ASSUME IInv, Through, NEW a \in Address,
         \/ Spawn(a) \/ Poll(a) \/ Try(a) \/ SkipInsert(a) \/ Complete(a) \/ Interrupted(a)
  PROVE  Through'
<1> USE DEF IInv
<1>1. UNCHANGED <<job, row, ports, results, pruner>>
  BY DEF Spawn, Poll, Try, SkipInsert, Complete, Interrupted
<1>2. \A b \in Address : b # a => task'[b] = task[b] /\ port'[b] = port[b]
  BY DEF Spawn, Poll, Try, SkipInsert, Complete, Interrupted, Leave, TypeOK
<1>3. ports \in Nat /\ port[a] \in Nat
  BY Numbers DEF TypeOK
<1>4. job # "none" /\ task'[a] # "unborn"
  BY DEF Spawn, Poll, Try, SkipInsert, Complete, Interrupted, Leave, TypeOK, Through, Running
<1>5. /\ task'[a] = "queued" => port'[a] = 0
      /\ task'[a] = "checking" /\ ports > 0 => port'[a] < ports
      /\ task'[a] \in {"completing", "gone"} /\ ports > 0 => task[a] = "completing"
  BY <1>3 DEF Spawn, Poll, Try, SkipInsert, Complete, Interrupted, Leave, TypeOK, Through
<1> QED BY <1>1, <1>2, <1>4, <1>5 DEF Through, HasRow, Pruning

LEMMA ThroughInsert ==
  ASSUME IInv, Through, NEW a \in Address, Insert(a)
  PROVE  Through'
<1> DEFINE e == [address |-> a, tried |-> port[a], unknown |-> unknown[a]]
<1>1. /\ e \in Result /\ results \in Seq(Result) /\ results' = Append(results, e)
      /\ e.address = a /\ task[a] = "inserting" /\ UNCHANGED <<job, row, ports, pruner>>
  BY DEF IInv, Insert, TypeOK, Result
<1>2. /\ \A b \in Address : b # a => task'[b] = task[b] /\ port'[b] = port[b]
      /\ task'[a] = "completing"
  BY DEF IInv, Insert, Leave, TypeOK
<1>3. /\ \A b \in Address : HasRow(b) => HasRow(b)'
      /\ HasRow(a)'
  <2> HIDE DEF e
  <2>1. /\ DOMAIN results' = DOMAIN results \cup {Len(results) + 1}
        /\ \A i \in DOMAIN results : results'[i] = results[i]
        /\ results'[Len(results) + 1] = e
    BY <1>1
  <2> QED BY <1>1, <2>1 DEF HasRow
<1>4. ports # 0
  BY <1>1 DEF IInv, Tried
<1>5. job # "none"
  BY <1>1 DEF Through
<1> QED BY <1>1, <1>2, <1>3, <1>4, <1>5 DEF Through, Pruning

LEMMA AlwaysThrough == Spec => []Through
<1>1. Init => Through
  BY DEF Init, Through
<1>2. IInv /\ Through /\ [Next]_vars => Through'
  BY ThroughRest, ThroughTask, ThroughInsert DEF Next, Work
<1> QED BY <1>1, <1>2, IInvInductive, PTL DEF Spec

(* A row for each address makes as many rows as addresses.                 *)
LEMMA EnoughRows ==
  ASSUME TypeOK, \A a \in Address : HasRow(a)
  PROVE  Len(results) >= Total
<1> DEFINE at == [a \in Address |-> CHOOSE i \in DOMAIN results : results[i].address = a]
<1>1. \A a \in Address : at[a] \in DOMAIN results /\ results[at[a]].address = a
  BY DEF HasRow
<1>2. DOMAIN results = 1..Len(results) /\ Len(results) \in Nat
  BY DEF TypeOK
<1>3. at \in Injection(Address, 1..Len(results))
  <2>1. at \in [Address -> 1..Len(results)]
    BY <1>1, <1>2
  <2>2. \A a, b \in Address : at[a] = at[b] => a = b
    BY <1>1
  <2> HIDE DEF at
  <2> QED BY <2>1, <2>2 DEF Injection, IsInjective
<1>4. IsFiniteSet(1..Len(results)) /\ Cardinality(1..Len(results)) = Len(results)
  <2> DEFINE n == Len(results)
  <2>1. n \in Nat
    BY <1>2
  <2> HIDE DEF n
  <2>2. IsFiniteSet(1..n) /\ Cardinality(1..n) = n
    BY <2>1, FS_Interval
  <2> QED BY <2>2 DEF n
<1>5. Cardinality(Address) <= Len(results)
  <2> HIDE DEF at
  <2> QED BY <1>3, <1>4, FS_Injection
<1> QED BY <1>2, <1>5, Numbers DEF Total

(* What the status calls "completed" is reached or still being worked on:  *)
(* an answered job that lists a port has its rows, or a task with          *)
(* something to do, unless a task is out of attempts or prune_db came.     *)
THEOREM JobsGoOn ==
  Spec => [](job = "answered" /\ ports > 0 =>
               \/ Len(results) >= Total \/ Pruning
               \/ \E a \in Address : task[a] = "dead" \/ TaskMoves(a))
<1>1. ASSUME IInv, Through, job = "answered", ports > 0, ~Pruning,
             ~(\E a \in Address : task[a] = "dead" \/ TaskMoves(a))
      PROVE  Len(results) >= Total
  <2>1. ASSUME NEW a \in Address PROVE task[a] = "gone"
    BY <1>1 DEF IInv, TypeOK, Through, TaskMoves, Running
  <2>2. \A a \in Address : HasRow(a)
    BY <1>1, <2>1 DEF Through
  <2> QED BY <1>1, <2>2, EnoughRows DEF IInv
<1>2. IInv /\ Through =>
        (job = "answered" /\ ports > 0 =>
           \/ Len(results) >= Total \/ Pruning
           \/ \E a \in Address : task[a] = "dead" \/ TaskMoves(a))
  BY <1>1
<1> QED BY <1>2, IInvInductive, AlwaysThrough, PTL

(* A job without ports never completes, although each of its tasks does    *)
(* (task.rs:210 calls that case impossible).                               *)
THEOREM PortlessJobsNeverComplete == Spec => [](ports = 0 => Len(results) < Total)
<1>1. Through => (ports = 0 => Len(results) < Total)
  BY Numbers DEF Through
<1> QED BY <1>1, AlwaysThrough, PTL
=============================================================================
