----------------------------- MODULE BulkProofs -----------------------------
(***************************************************************************)
(* Proofs about BulkJob, for any number of addresses, concurrent publishes *)
(* and rows per page: what the answer to a submission means, that the page *)
(* and a download show the rows there are, that the tasks keep to the      *)
(* ledger, what becomes of a job that was submitted by halves, and that    *)
(* nothing leaves the screen again.                                        *)
(***************************************************************************)
EXTENDS BulkJob, FiniteSetTheorems, SequenceTheorems, TLAPS

(* Submission and workers, as far as they matter here.                     *)
Typed ==
  /\ publish \in [Address -> {"todo", "sent", "taken", "returned", "done"}]
  /\ accepted \subseteq Address
  /\ result \in [Address -> Outcome \cup {NoResult}]
  /\ row \in [Address -> 0..MaxIds] /\ lastId \in 0..MaxIds

(* The broker has taken over exactly what the handler may confirm.         *)
Kept == \A t \in Address : publish[t] \in {"taken", "done"} <=> t \in accepted

(* Ids are given out once, and a row has the id of its task's last try.    *)
Numbered ==
  /\ \A t \in Address : row[t] <= lastId
  /\ \A s, t \in Address : row[s] = row[t] /\ row[s] # 0 => s = t
  /\ \A t \in Address : result[t] # NoResult => row[t] # 0 /\ t \in accepted

Answered == phase = "answered" => \A t \in Address : publish[t] = "done"

IInv == Typed /\ Kept /\ Numbered /\ Answered

LEMMA InitIInv == Init => IInv
BY JobAssumption DEF Init, IInv, Typed, Kept, Numbered, Answered, Ledger!Init

LEMMA SubmitStep ==
  ASSUME IInv, NEW t \in Address,
         \/ CreateJob \/ Abandon \/ Answer \/ Send(t) \/ Return(t) \/ Confirm(t)
         \/ PublishFails(t)
  PROVE  IInv'
<1>1. UNCHANGED <<accepted, result, row, lastId>>
  BY DEF CreateJob, Abandon, Answer, Send, Return, Confirm, PublishFails, tasks, table
<1>2. Typed' /\ Numbered'
  BY <1>1 DEF IInv, Typed, Numbered, CreateJob, Abandon, Answer, Send, Return, Confirm,
              PublishFails
<1>3. Kept'
  BY <1>1 DEF IInv, Typed, Kept, CreateJob, Abandon, Answer, Send, Return, Confirm,
              PublishFails
<1>4. Answered'
  BY DEF IInv, Typed, Answered, CreateJob, Abandon, Answer, Send, Return, Confirm,
         PublishFails
<1> QED BY <1>2, <1>3, <1>4 DEF IInv

(* The broker may take a message over after the handler is gone.           *)
LEMMA TakeStep ==
  ASSUME IInv, NEW t \in Address, Take(t)
  PROVE  IInv'
<1>1. /\ publish[t] = "sent" /\ publish' = [publish EXCEPT ![t] = "taken"]
      /\ accepted' = accepted \cup {t} /\ UNCHANGED <<phase, result, row, lastId>>
  BY DEF Take, Ledger!Accept, table
<1> QED BY <1>1 DEF IInv, Typed, Kept, Numbered, Answered

LEMMA DrawIdStep ==
  ASSUME IInv, NEW t \in Address, DrawId(t)
  PROVE  IInv'
<1>1. /\ lastId' = lastId + 1 /\ lastId < MaxIds /\ row' = [row EXCEPT ![t] = lastId + 1]
      /\ t \in accepted /\ UNCHANGED <<phase, publish, accepted, result>>
  BY DEF DrawId, submission, tasks
<1>2. lastId \in Nat /\ MaxIds \in Nat /\ \A s \in Address : row[s] \in Nat
  BY JobAssumption DEF IInv, Typed
<1>3. row'[t] = lastId' /\ \A s \in Address : s # t => row'[s] = row[s]
  BY <1>1 DEF IInv, Typed
<1>4. Typed'
  BY <1>1, <1>2 DEF IInv, Typed
<1>5. Numbered'
  BY <1>1, <1>2, <1>3 DEF IInv, Numbered
<1> QED BY <1>1, <1>4, <1>5 DEF IInv, Kept, Answered

LEMMA CommitStep ==
  ASSUME IInv, NEW t \in Address, NEW o \in Outcome, Commit(t, o)
  PROVE  IInv'
<1>1. /\ row[t] # 0 /\ t \in accepted /\ result' = [result EXCEPT ![t] = o]
      /\ UNCHANGED <<phase, publish, accepted, row, lastId>>
  BY DEF Commit, Ledger!Record, submission, table
<1> QED BY <1>1 DEF IInv, Typed, Kept, Numbered, Answered

LEMMA RestStep ==
  ASSUME IInv, \/ \E t \in Address : GiveUp(t)
               \/ Poll \/ Fetch \/ FetchFails \/ CheckComplete \/ Select \/ UNCHANGED vars
  PROVE  IInv'
<1>1. UNCHANGED <<phase, publish, accepted, result, row, lastId>>
  BY DEF GiveUp, Poll, Fetch, FetchFails, CheckComplete, Select, vars, submission, tasks,
         table, Ledger!Park, Ledger!Refuse
<1> QED BY <1>1 DEF IInv, Typed, Kept, Numbered, Answered

LEMMA IInvInductive == Spec => []IInv
<1>1. IInv /\ [Next]_vars => IInv'
  <2>1. ASSUME IInv, CreateJob \/ Abandon \/ Answer PROVE IInv'
    BY <2>1, SubmitStep, JobAssumption
  <2> QED BY <2>1, SubmitStep, TakeStep, DrawIdStep, CommitStep, RestStep DEF Next
<1> QED BY InitIInv, <1>1, PTL DEF Spec

(* A job id is answered only when the broker has taken every task over.    *)
THEOREM AnswersAreKept == Spec => []AnswerMeansAccepted
<1>1. IInv => AnswerMeansAccepted
  BY DEF IInv, Typed, Kept, Answered, AnswerMeansAccepted
<1> QED BY <1>1, IInvInductive, PTL

(* The order of the rows that pages and downloads rely on: every stored    *)
(* row has an id, and no two of them the same one.                         *)
RowsHaveIds ==
  /\ \A t \in Committed : row[t] # 0
  /\ \A s, t \in Committed : row[s] = row[t] => s = t

(* ORDER BY id determines the order of a job's rows, although the ids are  *)
(* drawn before the rows appear and are given up by stores that fail.      *)
THEOREM RowsAreOrdered == Spec => []RowsHaveIds
<1>1. IInv => RowsHaveIds
  BY DEF IInv, Numbered, RowsHaveIds, Committed
<1> QED BY <1>1, IInvInductive, PTL
-----------------------------------------------------------------------------
(* The order of the rows                                                   *)

(* A set with different keys has one order by key, and InOrder is it: each *)
(* place is taken by the member of that rank, and each member has a place. *)
Rank(S, key, t) == Cardinality({s \in S : key[s] <= key[t]})

Distinct(S, key) ==
  /\ \A t \in S : key[t] \in Nat
  /\ \A s, t \in S : key[s] = key[t] => s = t

LEMMA RankInjective ==
  ASSUME NEW S, IsFiniteSet(S), NEW key, Distinct(S, key),
         NEW s \in S, NEW t \in S, Rank(S, key, s) = Rank(S, key, t)
  PROVE  s = t
<1> DEFINE Upto(x) == {y \in S : key[y] <= key[x]}
<1>1. ASSUME NEW x \in S, NEW y \in S, key[x] <= key[y],
             Cardinality(Upto(x)) = Cardinality(Upto(y))
      PROVE  x = y
  <2>1. IsFiniteSet(Upto(y)) BY FS_Subset
  <2>2. Upto(x) \subseteq Upto(y) BY <1>1 DEF Distinct
  <2>3. Upto(x) = Upto(y) BY <2>1, <2>2, <1>1, FS_Subset
  <2>4. y \in Upto(y) BY DEF Distinct
  <2>5. key[y] <= key[x] BY <2>3, <2>4
  <2> QED BY <1>1, <2>5 DEF Distinct
<1>2. Cardinality(Upto(s)) = Cardinality(Upto(t)) BY DEF Rank
<1>3. key[s] <= key[t] \/ key[t] <= key[s] BY DEF Distinct
<1> QED BY <1>1, <1>2, <1>3

LEMMA RankOnto ==
  ASSUME NEW S, IsFiniteSet(S), NEW key, Distinct(S, key)
  PROVE  /\ \A t \in S : Rank(S, key, t) \in 1..Cardinality(S)
         /\ \A i \in 1..Cardinality(S) : \E t \in S : Rank(S, key, t) = i
<1> DEFINE rank == [t \in S |-> Rank(S, key, t)]
<1>0. Cardinality(S) \in Nat BY FS_CardinalityType
<1>1. ASSUME NEW t \in S PROVE Rank(S, key, t) \in 1..Cardinality(S)
  <2> DEFINE U == {s \in S : key[s] <= key[t]}
  <2>1. IsFiniteSet(U) /\ Cardinality(U) <= Cardinality(S) BY FS_Subset
  <2>2. t \in U BY DEF Distinct
  <2>3. Cardinality(U) # 0 BY <2>1, <2>2, FS_EmptySet
  <2>4. Cardinality(U) \in Nat BY <2>1, FS_CardinalityType
  <2> QED BY <2>1, <2>3, <2>4, <1>0 DEF Rank
<1>2. rank \in [S -> 1..Cardinality(S)] BY <1>1
<1>3. rank \in Injection(S, 1..Cardinality(S))
  <2>1. \A s, t \in S : rank[s] = rank[t] => s = t BY RankInjective
  <2> QED BY <1>2, <2>1 DEF Injection, IsInjective
<1>4. IsFiniteSet(1..Cardinality(S)) /\ Cardinality(1..Cardinality(S)) = Cardinality(S)
  BY <1>0, FS_Interval
<1>5. rank \in Surjection(S, 1..Cardinality(S)) BY <1>3, <1>4, FS_Injection
<1>6. \A i \in 1..Cardinality(S) : \E t \in S : rank[t] = i
  BY <1>5 DEF Surjection
<1> QED BY <1>1, <1>6

LEMMA Ordering ==
  ASSUME NEW S, IsFiniteSet(S), NEW key, Distinct(S, key)
  PROVE  /\ InOrder(S, key) \in [1..Cardinality(S) -> S]
         /\ \A i \in 1..Cardinality(S) : Rank(S, key, InOrder(S, key)[i]) = i
         /\ \A t \in S : \E i \in 1..Cardinality(S) : InOrder(S, key)[i] = t
<1>1. ASSUME NEW i \in 1..Cardinality(S)
      PROVE  /\ InOrder(S, key)[i] \in S
             /\ Rank(S, key, InOrder(S, key)[i]) = i
  <2>1. InOrder(S, key)[i] = CHOOSE t \in S : Rank(S, key, t) = i
    BY DEF InOrder, Rank
  <2>2. \E t \in S : Rank(S, key, t) = i BY RankOnto
  <2> QED BY <2>1, <2>2
<1>2. InOrder(S, key) \in [1..Cardinality(S) -> S] BY <1>1 DEF InOrder
<1>3. ASSUME NEW t \in S PROVE \E i \in 1..Cardinality(S) : InOrder(S, key)[i] = t
  <2> DEFINE i == Rank(S, key, t)
  <2>1. i \in 1..Cardinality(S) BY RankOnto
  <2>2. InOrder(S, key)[i] \in S /\ Rank(S, key, InOrder(S, key)[i]) = i BY <1>1, <2>1
  <2>3. InOrder(S, key)[i] = t BY <2>2, RankInjective
  <2> QED BY <2>1, <2>3
<1> QED BY <1>1, <1>2, <1>3

LEMMA SameFunction ==
  ASSUME NEW D, NEW T, NEW F \in [D -> T], NEW G \in [D -> T],
         \A x \in D : F[x] = G[x]
  PROVE  F = G
OBVIOUS

(* The keys of others do not matter.                                       *)
LEMMA OrderingKept ==
  ASSUME NEW S, IsFiniteSet(S), NEW old, Distinct(S, old), NEW new,
         \A t \in S : old[t] = new[t]
  PROVE  InOrder(S, old) = InOrder(S, new)
<1>1. Distinct(S, new) BY DEF Distinct
<1>2. ASSUME NEW t \in S PROVE Rank(S, old, t) = Rank(S, new, t)
  <2>1. {s \in S : old[s] <= old[t]} = {s \in S : new[s] <= new[t]} OBVIOUS
  <2> QED BY <2>1 DEF Rank
<1> DEFINE F == InOrder(S, old)
<1> DEFINE G == InOrder(S, new)
<1> DEFINE D == 1..Cardinality(S)
<1>3. F \in [D -> S] /\ \A i \in D : Rank(S, old, F[i]) = i BY Ordering
<1>4. G \in [D -> S] /\ \A i \in D : Rank(S, new, G[i]) = i BY <1>1, Ordering
<1>5. ASSUME NEW i \in D PROVE F[i] = G[i]
  <2>1. F[i] \in S /\ Rank(S, old, F[i]) = i BY <1>3
  <2>2. G[i] \in S /\ Rank(S, new, G[i]) = i BY <1>4
  <2> HIDE DEF F, G, D
  <2> QED BY <2>1, <2>2, <1>2, RankInjective
<1> HIDE DEF F, G, D
<1>6. F = G BY <1>3, <1>4, <1>5, SameFunction
<1> QED BY <1>6 DEF F, G
-----------------------------------------------------------------------------
(* The page and the download                                               *)

Submitted ==
  /\ total = IF phase = "new" THEN 0 ELSE Cardinality(Address)
  /\ ui # "idle" => phase = "answered"

(* Rows are added and never taken away: a number of rows that was read     *)
(* earlier and is still right stands for the same rows.                    *)
Displayed ==
  /\ ui \in {"idle", "fetching", "stopped"}
  /\ seen \in Nat /\ fetched \in Nat \cup {-1}
  /\ seen <= Processed /\ fetched <= Processed
  /\ pages \in Seq(Address) /\ Len(pages) <= Processed
  /\ ui = "fetching" /\ seen = Processed => pages = SubSeq(Rows, 1, Len(pages))
  /\ fetched = Processed => shown = Rows

Finished ==
  /\ ui = "stopped" => Committed = Address /\ fetched = Processed
  /\ gate \/ download # <<>> => Committed = Address
  /\ download \in Seq(Address) /\ Len(download) <= Processed
  /\ download = SubSeq(Rows, 1, Len(download))

PageInv == Submitted /\ Displayed /\ Finished

LEMMA RowsInOrder ==
  ASSUME IInv
  PROVE  /\ IsFiniteSet(Committed) /\ Committed \subseteq Address
         /\ Distinct(Committed, row)
         /\ Processed \in Nat /\ Processed <= Cardinality(Address)
         /\ Cardinality(Address) \in Nat \ {0}
         /\ Processed = Cardinality(Address) => Committed = Address
         /\ Rows \in Seq(Committed) /\ Rows \in Seq(Address) /\ Len(Rows) = Processed
         /\ Range(Rows) = Committed
<1>1. Committed \subseteq Address /\ IsFiniteSet(Address)
  BY JobAssumption DEF Committed
<1>2. /\ IsFiniteSet(Committed) /\ Processed <= Cardinality(Address)
      /\ Processed = Cardinality(Address) => Committed = Address
  BY <1>1, FS_Subset DEF Processed
<1>3. Processed \in Nat /\ Cardinality(Address) \in Nat
  BY <1>1, <1>2, FS_CardinalityType DEF Processed
<1>4. Cardinality(Address) # 0
  BY <1>1, FS_EmptySet, JobAssumption
<1>5. Distinct(Committed, row)
  <2>1. \A t \in Address : row[t] \in Nat
    BY JobAssumption DEF IInv, Typed
  <2>2. \A s, t \in Committed : row[s] = row[t] => s = t
    BY <1>1 DEF IInv, Numbered, Committed
  <2> QED BY <1>1, <2>1, <2>2 DEF Distinct
<1>6. /\ Rows \in [1..Processed -> Committed]
      /\ \A t \in Committed : \E i \in 1..Processed : Rows[i] = t
  BY <1>2, <1>5, Ordering DEF Rows, Processed
<1>7. Rows \in Seq(Committed) /\ Len(Rows) = Processed
  BY <1>3, <1>6
<1>8. Rows \in Seq(Address)
  BY <1>1, <1>7, SeqMonotonic
<1>9. Range(Rows) = Committed
  BY <1>6 DEF Range
<1> QED BY <1>1, <1>2, <1>3, <1>4, <1>5, <1>7, <1>8, <1>9

LEMMA InitPageInv == Init => PageInv
<1> SUFFICES ASSUME Init PROVE PageInv OBVIOUS
<1>1. Committed = {}
  BY DEF Init, Ledger!Init, Committed
<1>2. Processed = 0
  BY <1>1, FS_EmptySet DEF Processed
<1>3. IInv BY InitIInv
<1>4. Rows \in Seq(Address) /\ Len(Rows) = 0 BY <1>2, <1>3, RowsInOrder
<1>5. SubSeq(Rows, 1, 0) = <<>> BY SubSeqEmpty
<1>6. Submitted BY DEF Init, Submitted
<1>7. Displayed BY <1>2, <1>5 DEF Init, Displayed
<1>8. Finished BY <1>2, <1>5 DEF Init, Finished
<1> QED BY <1>6, <1>7, <1>8 DEF PageInv

(* A step that leaves the page and the visible rows alone.                 *)
LEMMA QuietStep ==
  ASSUME IInv, PageInv, UNCHANGED <<result, page, client>>,
         \A t \in Committed : row'[t] = row[t], Submitted'
  PROVE  PageInv'
<1>1. Committed' = Committed /\ Processed' = Processed
  BY DEF Committed, Processed
<1>2. Rows' = Rows
  <2>1. IsFiniteSet(Committed) /\ Distinct(Committed, row) BY RowsInOrder
  <2>2. InOrder(Committed, row) = InOrder(Committed, row')
    BY <2>1, OrderingKept
  <2> QED BY <1>1, <2>2 DEF Rows
<1>3. UNCHANGED <<ui, seen, fetched, pages, shown, gate, download>>
  BY DEF page, client
<1> QED BY <1>1, <1>2, <1>3 DEF PageInv, Displayed, Finished

LEMMA SubmitPage ==
  ASSUME IInv, PageInv, NEW t \in Address,
         \/ CreateJob \/ Abandon \/ Answer \/ Send(t) \/ Return(t) \/ Confirm(t)
         \/ PublishFails(t) \/ Take(t) \/ GiveUp(t) \/ UNCHANGED vars
  PROVE  PageInv'
<1>1. UNCHANGED <<result, table, page, client>>
  BY DEF CreateJob, Abandon, Answer, Send, Return, Confirm, PublishFails, Take, GiveUp,
         vars, tasks, Ledger!Accept, Ledger!Park, Ledger!Refuse
<1>2. Submitted'
  BY DEF CreateJob, Abandon, Answer, Send, Return, Confirm, PublishFails, Take, GiveUp,
         vars, submission, page, PageInv, Submitted
<1>3. row' = row BY <1>1 DEF table
<1> QED BY <1>1, <1>2, <1>3, QuietStep

(* A new id is of a row that nobody sees yet.                              *)
LEMMA DrawIdPage ==
  ASSUME IInv, PageInv, NEW t \in Address, DrawId(t)
  PROVE  PageInv'
<1>1. UNCHANGED <<submission, result, page, client>> /\ t \notin Committed
  BY DEF DrawId, tasks, Committed
<1>2. Submitted' BY <1>1 DEF submission, page, PageInv, Submitted
<1>3. \A s \in Address : s # t => row'[s] = row[s]
  BY DEF DrawId, IInv, Typed
<1>4. Committed \subseteq Address BY DEF Committed
<1>5. \A s \in Committed : row'[s] = row[s] BY <1>1, <1>3, <1>4
<1> QED BY <1>1, <1>2, <1>5, QuietStep

(* One more row: every number read before is too small now.                *)
LEMMA CommitPage ==
  ASSUME IInv, PageInv, NEW t \in Address, NEW o \in Outcome, Commit(t, o)
  PROVE  PageInv'
<1>1. /\ result' = [result EXCEPT ![t] = o] /\ t \notin Committed
      /\ UNCHANGED <<phase, total, ui, seen, fetched, pages, gate, download>>
  BY DEF Commit, Ledger!Record, submission, table, page, client, Committed
<1>2. Committed' = Committed \cup {t}
  BY <1>1, JobAssumption DEF Committed, IInv, Typed
<1>3. Processed' = Processed + 1
  BY <1>1, <1>2, RowsInOrder, FS_AddElement DEF Processed
<1>4. Processed \in Nat BY RowsInOrder
<1>5. Submitted' BY <1>1 DEF PageInv, Submitted
<1>6. Displayed'
  BY <1>1, <1>3, <1>4 DEF PageInv, Displayed
<1>7. Committed # Address BY <1>1
<1>8. ui # "stopped" /\ ~gate /\ download = <<>>
  BY <1>7 DEF PageInv, Finished
<1>9. SubSeq(Rows', 1, 0) = <<>> BY SubSeqEmpty
<1>10. Finished'
  <2>1. Len(download) = 0 /\ download \in Seq(Address) BY <1>8
  <2> QED BY <1>1, <1>3, <1>4, <1>8, <1>9, <2>1 DEF Finished
<1> QED BY <1>5, <1>6, <1>10 DEF PageInv

(* The rows are the same in the next state.                                *)
LEMMA SameRows ==
  ASSUME UNCHANGED <<submission, tasks, table>>
  PROVE  /\ UNCHANGED <<phase, total, Committed, Processed, Rows>>
<1>1. UNCHANGED <<phase, total, result, row>> BY DEF submission, tasks, table
<1>2. UNCHANGED Committed BY <1>1 DEF Committed
<1> QED BY <1>1, <1>2 DEF Processed, Rows

LEMMA PollPage ==
  ASSUME IInv, PageInv, Poll
  PROVE  PageInv'
<1>1. UNCHANGED <<phase, total, Committed, Processed, Rows>> BY SameRows DEF Poll
<1>2. /\ phase = "answered" /\ ui = "idle" /\ seen' = Processed /\ pages' = <<>>
      /\ ui' = IF seen' # fetched THEN "fetching" ELSE IF Complete THEN "stopped" ELSE "idle"
      /\ UNCHANGED <<fetched, shown, gate, download>>
  BY DEF Poll, client
<1>3. Processed \in Nat BY RowsInOrder
<1>4. SubSeq(Rows, 1, 0) = <<>> BY SubSeqEmpty
<1>5. Submitted' BY <1>1, <1>2 DEF PageInv, Submitted
<1>6. Displayed'
  <2>1. pages' \in Seq(Address) /\ Len(pages') = 0 BY <1>2
  <2> QED BY <1>1, <1>2, <1>3, <1>4, <2>1 DEF PageInv, Displayed
<1>7. ASSUME ui' = "stopped" PROVE Committed = Address /\ fetched = Processed
  <2>1. fetched = Processed /\ Complete BY <1>2, <1>7
  <2>2. Processed >= Cardinality(Address)
    BY <2>1, <1>2 DEF Complete, PageInv, Submitted
  <2> QED BY <2>1, <2>2, RowsInOrder
<1>8. Finished' BY <1>1, <1>2, <1>7 DEF PageInv, Finished
<1> QED BY <1>5, <1>6, <1>8 DEF PageInv

(* The page after the first n rows continues them, and one that is not     *)
(* full is the last.                                                       *)
LEMMA PageIsNext ==
  ASSUME IInv, NEW n \in 0..Processed
  PROVE  /\ Page(n) \in Seq(Address)
         /\ n + Len(Page(n)) \in 0..Processed
         /\ SubSeq(Rows, 1, n) \o Page(n) = SubSeq(Rows, 1, n + Len(Page(n)))
         /\ Len(Page(n)) # PageSize => SubSeq(Rows, 1, n) \o Page(n) = Rows
<1> DEFINE R == Rows
<1> DEFINE end == IF n + PageSize < Len(R) THEN n + PageSize ELSE Len(R)
<1>1. R \in Seq(Address) /\ Len(R) = Processed /\ Processed \in Nat BY RowsInOrder
<1>2. Page(n) = SubSeq(R, n + 1, end) BY DEF Page
<1>3. /\ \A i \in 1..Len(R) : R[i] \in Address
      /\ end \in n..Len(R) /\ (end - n # PageSize => end = Len(R))
  BY <1>1, LenProperties, JobAssumption
<1> HIDE DEF R, end
<1>4. \A i \in (n + 1)..end : R[i] \in Address BY <1>3
<1>5. Page(n) \in Seq(Address) /\ Len(Page(n)) = end - n
  BY <1>1, <1>2, <1>3, <1>4, SubSeqProperties
<1>6. n + Len(Page(n)) = end BY <1>1, <1>3, <1>5
<1>7. SubSeq(R, 1, n) \o SubSeq(R, n + 1, end) = SubSeq(R, 1, end)
  <2>1. 1 \in 1..(Len(R) + 1) /\ n \in (1 - 1)..Len(R) BY <1>1
  <2> QED BY <1>1, <1>3, <2>1, ConcatAdjacentSubSeq
<1>8. SubSeq(R, 1, n) \o Page(n) = SubSeq(R, 1, n + Len(Page(n)))
  BY <1>2, <1>6, <1>7
<1>9. SubSeq(R, 1, Len(R)) = R BY <1>1, SubSeqFull
<1>10. Len(Page(n)) # PageSize => SubSeq(R, 1, n) \o Page(n) = R
  BY <1>3, <1>5, <1>6, <1>8, <1>9
<1>11. n + Len(Page(n)) \in 0..Processed BY <1>1, <1>3, <1>6
<1> QED BY <1>5, <1>8, <1>10, <1>11 DEF R

LEMMA FetchPage ==
  ASSUME IInv, PageInv, Fetch
  PROVE  PageInv'
<1> DEFINE n == Len(pages)
<1> DEFINE part == Page(n)
<1> DEFINE full == Len(part) = PageSize
<1>1. UNCHANGED <<phase, total, Committed, Processed, Rows>> BY SameRows DEF Fetch
<1>2. /\ ui = "fetching" /\ UNCHANGED <<seen, gate, download>>
      /\ full => pages' = pages \o part /\ UNCHANGED <<ui, fetched, shown>>
      /\ ~full => /\ shown' = pages \o part /\ pages' = <<>> /\ fetched' = seen
                  /\ ui' = IF seen >= total THEN "stopped" ELSE "idle"
  BY DEF Fetch, client
<1>3. /\ pages \in Seq(Address) /\ n \in 0..Processed /\ seen \in Nat /\ seen <= Processed
      /\ Processed \in Nat
      /\ seen = Processed => pages = SubSeq(Rows, 1, n)
  BY <1>2, RowsInOrder DEF PageInv, Displayed
<1>4. /\ part \in Seq(Address) /\ n + Len(part) \in 0..Processed
      /\ SubSeq(Rows, 1, n) \o part = SubSeq(Rows, 1, n + Len(part))
      /\ ~full => SubSeq(Rows, 1, n) \o part = Rows
  BY <1>3, PageIsNext
<1> HIDE DEF part, full
<1>5. pages \o part \in Seq(Address) /\ Len(pages \o part) = n + Len(part)
  BY <1>3, <1>4
<1>6. phase = "answered" /\ total = Cardinality(Address)
  BY <1>2 DEF PageInv, Submitted
<1>7. CASE full
  <2>1. Submitted' BY <1>1, <1>2, <1>7 DEF PageInv, Submitted
  <2>2. seen = Processed => pages' = SubSeq(Rows, 1, Len(pages'))
    BY <1>2, <1>3, <1>4, <1>5, <1>7
  <2>3. pages' \in Seq(Address) /\ Len(pages') <= Processed
    <3>1. pages' = pages \o part BY <1>2, <1>7
    <3>2. n + Len(part) <= Processed BY <1>3, <1>4
    <3> QED BY <3>1, <3>2, <1>5
  <2>4. Displayed' BY <1>1, <1>2, <1>7, <2>2, <2>3 DEF PageInv, Displayed
  <2>5. Finished' BY <1>1, <1>2, <1>7 DEF PageInv, Finished
  <2> QED BY <2>1, <2>4, <2>5 DEF PageInv
<1>8. CASE ~full
  <2>1. Submitted' BY <1>1, <1>2, <1>6, <1>8 DEF PageInv, Submitted
  <2>2. fetched' = Processed => shown' = Rows
    BY <1>2, <1>3, <1>4, <1>8
  <2>3. pages' \in Seq(Address) /\ Len(pages') = 0 BY <1>2, <1>8
  <2>4. Displayed'
    BY <1>1, <1>2, <1>3, <1>8, <2>2, <2>3 DEF Displayed
  <2>5. ui' = "stopped" => Committed = Address /\ fetched' = Processed
    BY <1>2, <1>3, <1>6, <1>8, RowsInOrder
  <2>6. Finished' BY <1>1, <1>2, <2>5 DEF PageInv, Finished
  <2> QED BY <2>1, <2>4, <2>6 DEF PageInv
<1> QED BY <1>7, <1>8

LEMMA FetchFailsPage ==
  ASSUME IInv, PageInv, FetchFails
  PROVE  PageInv'
<1>1. UNCHANGED <<phase, total, Committed, Processed, Rows>> BY SameRows DEF FetchFails
<1>2. /\ ui = "fetching" /\ ui' = "idle" /\ pages' = <<>>
      /\ UNCHANGED <<seen, fetched, shown, gate, download>>
  BY DEF FetchFails, client
<1>3. pages' \in Seq(Address) /\ Len(pages') = 0 /\ Processed \in Nat
  BY <1>2, RowsInOrder
<1>4. Submitted' BY <1>1, <1>2 DEF PageInv, Submitted
<1>5. Displayed' BY <1>1, <1>2, <1>3 DEF PageInv, Displayed
<1>6. Finished' BY <1>1, <1>2 DEF PageInv, Finished
<1> QED BY <1>4, <1>5, <1>6 DEF PageInv

LEMMA CheckCompletePage ==
  ASSUME IInv, PageInv, CheckComplete
  PROVE  PageInv'
<1>1. UNCHANGED <<phase, total, Committed, Processed, Rows>> BY SameRows DEF CheckComplete
<1>2. Complete /\ gate' /\ UNCHANGED <<ui, seen, fetched, pages, shown, download>>
  BY DEF CheckComplete, page
<1>3. total = Cardinality(Address) /\ Processed >= total
  BY <1>2, RowsInOrder DEF Complete, PageInv, Submitted
<1>4. Committed = Address BY <1>3, RowsInOrder
<1>5. Submitted' BY <1>1, <1>2 DEF PageInv, Submitted
<1>6. Displayed' BY <1>1, <1>2 DEF PageInv, Displayed
<1>7. Finished' BY <1>1, <1>2, <1>4 DEF PageInv, Finished
<1> QED BY <1>5, <1>6, <1>7 DEF PageInv

LEMMA SelectPage ==
  ASSUME IInv, PageInv, Select
  PROVE  PageInv'
<1> DEFINE n == Len(download)
<1> DEFINE part == Page(n)
<1>1. UNCHANGED <<phase, total, Committed, Processed, Rows>> BY SameRows DEF Select
<1>2. /\ gate /\ download' = download \o part
      /\ UNCHANGED <<ui, seen, fetched, pages, shown>>
  BY DEF Select, page
<1>3. /\ download \in Seq(Address) /\ n \in 0..Processed /\ Committed = Address
      /\ download = SubSeq(Rows, 1, n)
  BY <1>2, RowsInOrder DEF PageInv, Finished
<1>4. /\ part \in Seq(Address) /\ n + Len(part) \in 0..Processed
      /\ SubSeq(Rows, 1, n) \o part = SubSeq(Rows, 1, n + Len(part))
  BY <1>3, PageIsNext
<1> HIDE DEF part
<1>5. download' \in Seq(Address) /\ Len(download') = n + Len(part)
  BY <1>2, <1>3, <1>4
<1>6. download' = SubSeq(Rows, 1, Len(download')) BY <1>2, <1>3, <1>4, <1>5
<1>7. Submitted' BY <1>1, <1>2 DEF PageInv, Submitted
<1>8. Displayed' BY <1>1, <1>2 DEF PageInv, Displayed
<1>9. Len(download') <= Processed BY <1>4, <1>5, RowsInOrder
<1>10. Finished' BY <1>1, <1>2, <1>3, <1>5, <1>6, <1>9 DEF PageInv, Finished
<1> QED BY <1>7, <1>8, <1>10 DEF PageInv

LEMMA PageInvariant == Spec => []PageInv
<1>1. IInv /\ PageInv /\ [Next]_vars => PageInv'
  <2> SUFFICES ASSUME IInv, PageInv, [Next]_vars PROVE PageInv' OBVIOUS
  <2>1. PICK t \in Address : TRUE BY JobAssumption
  <2>2. CASE CreateJob \/ Abandon \/ Answer \/ UNCHANGED vars BY <2>1, <2>2, SubmitPage
  <2> QED BY <2>2, SubmitPage, DrawIdPage, CommitPage, PollPage, FetchPage,
             FetchFailsPage, CheckCompletePage, SelectPage DEF Next
<1> QED BY InitPageInv, IInvInductive, <1>1, PTL DEF Spec

(* When the page stops polling, it has every address of the job on screen, *)
(* once, however its requests and the stores interleaved.                  *)
THEOREM StoppedPageIsWhole == Spec => []StoppedShowsAll
<1>1. IInv /\ PageInv => StoppedShowsAll
  <2> SUFFICES ASSUME IInv, PageInv, ui = "stopped"
               PROVE Len(shown) = total /\ Range(shown) = Address
    BY DEF StoppedShowsAll
  <2>1. Committed = Address /\ shown = Rows /\ total = Cardinality(Address)
    BY DEF PageInv, Submitted, Displayed, Finished
  <2> QED BY <2>1, RowsInOrder DEF Processed
<1> QED BY <1>1, IInvInductive, PageInvariant, PTL

(* A count that is still right stands for the rows it was taken with.      *)
THEOREM PageShowsWhatIsStored == Spec => []ShownIsStored
<1>1. PageInv => ShownIsStored
  BY DEF PageInv, Displayed, ShownIsStored
<1> QED BY <1>1, PageInvariant, PTL

(* The pages of a download fit together.                                   *)
THEOREM DownloadsFitTogether == Spec => []DownloadConsistent
<1>1. PageInv => DownloadConsistent
  BY DEF PageInv, Finished, DownloadConsistent
<1> QED BY <1>1, PageInvariant, PTL
-----------------------------------------------------------------------------
(* The tasks                                                               *)

(* What BulkJob does with tasks is what TaskLedger allows, and the worker  *)
(* implements it: the two fit together.                                    *)
THEOREM TasksFollowTheLedger == Spec => Ledger!Spec
<1>1. Init => Ledger!Init BY DEF Init
<1>2. [Next]_vars => [Ledger!Next]_(Ledger!ledger)
  <2> SUFFICES ASSUME [Next]_vars, ~UNCHANGED tasks PROVE Ledger!Next
    BY DEF tasks, Ledger!ledger
  <2>1. \E t \in Address : Take(t) \/ GiveUp(t) \/ \E o \in Outcome : Commit(t, o)
    BY DEF Next, vars, CreateJob, Abandon, Answer, Send, Return, Confirm, PublishFails,
           DrawId, Poll, Fetch, FetchFails, CheckComplete, Select
  <2> QED BY <2>1 DEF Take, GiveUp, Commit, Ledger!Next, Ledger!Close
<1> QED BY <1>1, <1>2, PTL DEF Spec, Ledger!Spec
-----------------------------------------------------------------------------
(* A job that was submitted by halves                                      *)

(* The handler has ended and a task was never handed to the broker, or the *)
(* broker gave it back.                                                    *)
CutShort ==
  /\ phase \in {"failed", "gone"}
  /\ \E t \in Address : publish[t] \in {"todo", "returned"}

LEMMA CutShortStays ==
  ASSUME CutShort, Typed, [Next]_vars
  PROVE  CutShort'
<1>1. PICK t \in Address : publish[t] \in {"todo", "returned"} BY DEF CutShort
<1>2. phase \in {"failed", "gone"} BY DEF CutShort
<1>3. CASE \E s \in Address : Take(s) \/ Return(s)
  <2>1. PICK s \in Address : Take(s) \/ Return(s) BY <1>3
  <2>2. phase' = phase /\ s # t BY <1>1, <2>1 DEF Take, Return
  <2>3. publish'[t] = publish[t] BY <2>1, <2>2 DEF Take, Return, Typed
  <2> QED BY <1>1, <1>2, <2>2, <2>3 DEF CutShort
<1>4. CASE ~\E s \in Address : Take(s) \/ Return(s)
  <2>1. UNCHANGED <<phase, publish>>
    BY <1>2, <1>4 DEF Next, vars, submission, CreateJob, Abandon, Answer, Send, Confirm,
       PublishFails, DrawId, GiveUp, Commit, Poll, Fetch, FetchFails, CheckComplete, Select
  <2> QED BY <1>1, <1>2, <2>1 DEF CutShort
<1> QED BY <1>3, <1>4

(* A job whose submission ended before the broker had every task stays     *)
(* Running for ever (get_progress.rs compares a number of rows with the    *)
(* total): nothing publishes the missing tasks later, so no row can make   *)
(* up for them; the page never loads it and a download of it never starts. *)
THEOREM CutShortNeverCompletes ==
  Spec => [](CutShort => [](~Complete /\ ui = "idle" /\ download = <<>>))
<1>1. IInv /\ CutShort /\ [Next]_vars => CutShort'
  BY CutShortStays DEF IInv
<1>2. IInv /\ PageInv /\ CutShort => ~Complete /\ ui = "idle" /\ download = <<>>
  <2> SUFFICES ASSUME IInv, PageInv, CutShort
               PROVE  ~Complete /\ ui = "idle" /\ download = <<>>
    OBVIOUS
  <2>1. PICK t \in Address : publish[t] \in {"todo", "returned"} BY DEF CutShort
  <2>2. t \notin Committed
    BY <2>1 DEF IInv, Kept, Numbered, Committed
  <2>3. Processed < Cardinality(Address) BY <2>2, RowsInOrder
  <2>4. phase \notin {"new", "answered"} BY DEF CutShort
  <2>5. total = Cardinality(Address) /\ ui = "idle"
    BY <2>4 DEF PageInv, Submitted
  <2>6. ~Complete BY <2>3, <2>5, RowsInOrder DEF Complete
  <2>7. download = <<>> BY <2>2 DEF PageInv, Finished
  <2> QED BY <2>5, <2>6, <2>7
<1> QED BY <1>1, <1>2, IInvInductive, PageInvariant, PTL DEF Spec

(* Once the page has stopped, nothing changes what it shows, and it shows  *)
(* every row there will ever be: what is left of PageFinishes for fairness *)
(* is that the page gets there.                                            *)
THEOREM StoppedIsFinal ==
  Spec => [](ui = "stopped" =>
               [](ui = "stopped" /\ shown = Rows /\ Len(shown) = Cardinality(Address)))
<1>1. ui = "stopped" /\ [Next]_vars => (ui = "stopped")'
  BY DEF Next, vars, page, CreateJob, Abandon, Answer, Send, Take, Return, Confirm,
     PublishFails, DrawId, GiveUp, Commit, Poll, Fetch, FetchFails, CheckComplete, Select
<1>2. IInv /\ PageInv /\ ui = "stopped" => shown = Rows /\ Len(shown) = Cardinality(Address)
  BY RowsInOrder DEF PageInv, Displayed, Finished, Processed
<1> QED BY <1>1, <1>2, IInvInductive, PageInvariant, PTL DEF Spec
-----------------------------------------------------------------------------
(* What is on screen stays on screen                                       *)

Place(t) == Rank(Committed, row, t)

(* While a round loads its pages, rows may appear before those it has      *)
(* loaded and push the others back.  A row that was on screen is then met  *)
(* twice, but the round cannot have missed it: it has it already, or the   *)
(* row is still to come.                                                   *)
OnScreen ==
  /\ shown \in Seq(Committed) /\ pages \in Seq(Committed)
  /\ ui = "fetching" =>
       \A t \in Range(shown) : t \in Range(pages) \/ Len(pages) < Place(t)

ScreenKeeps == Range(shown) \subseteq Range(shown')

LEMMA RangeOfRows ==
  ASSUME NEW S, NEW s \in Seq(S)
  PROVE  Range(s) = {s[i] : i \in 1..Len(s)} /\ Range(s) \subseteq S
BY RangeEquality, RangeOfSeq DEF Range

(* A row's place never falls: ids are not changed, rows are not deleted.   *)
LEMMA PlacesRise ==
  ASSUME IInv, IInv', Committed \subseteq Committed', NEW t \in Committed,
         \A s \in Committed : row'[s] = row[s]
  PROVE  Place(t) <= Place(t)' /\ Place(t) \in Nat /\ Place(t)' \in Nat
<1> DEFINE Before == {s \in Committed : row[s] <= row[t]}
<1> DEFINE After == {s \in Committed' : row'[s] <= row'[t]}
<1>1. IsFiniteSet(Committed') BY JobAssumption, FS_Subset DEF Committed
<1>2. IsFiniteSet(After) BY <1>1, FS_Subset
<1>3. Before \subseteq After OBVIOUS
<1>4. /\ IsFiniteSet(Before) /\ Cardinality(Before) <= Cardinality(After)
      /\ Cardinality(Before) \in Nat /\ Cardinality(After) \in Nat
  BY <1>2, <1>3, FS_Subset, FS_CardinalityType
<1>5. Place(t) = Cardinality(Before) BY DEF Place, Rank
<1>6. Place(t)' = Cardinality(After) BY DEF Place, Rank
<1> QED BY <1>4, <1>5, <1>6

(* Steps that leave the page alone.                                        *)
LEMMA ScreenRests ==
  ASSUME IInv, IInv', OnScreen, UNCHANGED page, Committed \subseteq Committed',
         \A s \in Committed : row'[s] = row[s]
  PROVE  OnScreen' /\ ScreenKeeps
<1>1. UNCHANGED <<ui, pages, shown>> BY DEF page
<1>2. shown' \in Seq(Committed') /\ pages' \in Seq(Committed')
  BY <1>1, SeqMonotonic DEF OnScreen
<1>3. ASSUME ui' = "fetching", NEW t \in Range(shown')
      PROVE  t \in Range(pages') \/ Len(pages') < Place(t)'
  <2>1. t \in Range(pages) \/ Len(pages) < Place(t) BY <1>1, <1>3 DEF OnScreen
  <2>2. t \in Committed BY <1>1, <1>3, RangeOfRows DEF OnScreen
  <2>3. Place(t) <= Place(t)' /\ Place(t) \in Nat /\ Place(t)' \in Nat
    BY <2>2, PlacesRise
  <2>4. Len(pages) \in Nat BY LenProperties DEF OnScreen
  <2> QED BY <1>1, <2>1, <2>3, <2>4
<1>4. ScreenKeeps BY <1>1 DEF ScreenKeeps
<1> QED BY <1>2, <1>3, <1>4 DEF OnScreen

(* A page holds the rows of its places.                                    *)
LEMMA PageHolds ==
  ASSUME IInv, NEW n \in 0..Processed, NEW t \in Committed, n < Place(t)
  PROVE  t \in Range(Page(n)) \/ (Len(Page(n)) = PageSize /\ n + PageSize < Place(t))
<1> DEFINE R == Rows
<1> DEFINE end == IF n + PageSize < Len(R) THEN n + PageSize ELSE Len(R)
<1> DEFINE p == Place(t)
<1>1. /\ R \in Seq(Committed) /\ Len(R) = Processed /\ Processed \in Nat
      /\ IsFiniteSet(Committed) /\ Distinct(Committed, row)
  BY RowsInOrder
<1>2. p \in 1..Processed /\ R[p] = t
  <2>1. p \in 1..Cardinality(Committed) BY <1>1, RankOnto DEF Place
  <2> HIDE DEF p
  <2>2. R[p] \in Committed /\ Rank(Committed, row, R[p]) = p
    <3>1. /\ InOrder(Committed, row) \in [1..Cardinality(Committed) -> Committed]
          /\ \A i \in 1..Cardinality(Committed) :
               Rank(Committed, row, InOrder(Committed, row)[i]) = i
      BY <1>1, Ordering
    <3>2. R = InOrder(Committed, row) BY DEF Rows
    <3> QED BY <2>1, <3>1, <3>2
  <2> USE DEF p
  <2>3. R[p] = t BY <1>1, <2>2, RankInjective DEF Place
  <2> QED BY <2>1, <2>3 DEF Processed
<1>3. /\ \A i \in 1..Len(R) : R[i] \in Committed
      /\ end \in n..Len(R) /\ (end # n + PageSize => end = Len(R))
      /\ PageSize \in Nat
  <2> HIDE DEF R, p
  <2>1. PageSize \in Nat /\ n \in Nat /\ n <= Len(R) /\ Len(R) \in Nat
    BY <1>1, JobAssumption
  <2>2. \A i \in 1..Len(R) : R[i] \in Committed BY <1>1, ElementOfSeq
  <2> QED BY <2>1, <2>2
<1>4. Page(n) = SubSeq(R, n + 1, end) BY DEF Page
<1> HIDE DEF R, end, p
<1>5. \A i \in (n + 1)..end : R[i] \in Committed BY <1>3
<1>6. /\ Page(n) \in Seq(Committed) /\ Len(Page(n)) = end - n
      /\ \A i \in 1..(end - n) : Page(n)[i] = R[n + i]
  <2>1. n + 1 \in Int /\ end \in Int BY <1>1, <1>3
  <2>2. /\ SubSeq(R, n + 1, end) \in Seq(Committed)
        /\ Len(SubSeq(R, n + 1, end)) = IF n + 1 <= end THEN end - (n + 1) + 1 ELSE 0
        /\ \A i \in 1..(end - (n + 1) + 1) : SubSeq(R, n + 1, end)[i] = R[(n + 1) + i - 1]
    BY <1>5, <2>1, SubSeqProperties
  <2>3. end - (n + 1) + 1 = end - n /\ \A i \in 1..(end - n) : (n + 1) + i - 1 = n + i
    BY <1>1, <1>3
  <2>4. Len(SubSeq(R, n + 1, end)) = end - n BY <1>1, <1>3, <2>2
  <2>5. ASSUME NEW i \in 1..(end - n) PROVE SubSeq(R, n + 1, end)[i] = R[n + i]
    BY <2>2, <2>3
  <2> QED BY <1>4, <2>2, <2>4, <2>5
<1>7. CASE p <= end
  <2>1. p - n \in 1..(end - n) /\ n + (p - n) = p BY <1>1, <1>2, <1>3, <1>7 DEF p
  <2>2. Page(n)[p - n] = t BY <1>2, <1>6, <2>1
  <2>3. p - n \in 1..Len(Page(n)) BY <1>6, <2>1
  <2> QED BY <1>6, <2>2, <2>3, RangeOfRows
<1>8. CASE ~(p <= end)
  <2>1. end = n + PageSize /\ end < p BY <1>1, <1>2, <1>3, <1>8
  <2>2. end - n = PageSize BY <1>1, <1>3, <2>1
  <2> QED BY <1>6, <2>1, <2>2 DEF p
<1> QED BY <1>7, <1>8

LEMMA PageOfRows ==
  ASSUME IInv, NEW n \in 0..Processed
  PROVE  Page(n) \in Seq(Committed)
<1> DEFINE end == IF n + PageSize < Len(Rows) THEN n + PageSize ELSE Len(Rows)
<1>1. /\ \A i \in (n + 1)..end : Rows[i] \in Committed
      /\ n + 1 \in Int /\ end \in Int
  BY RowsInOrder, LenProperties, JobAssumption
<1> QED BY <1>1, SubSeqProperties DEF Page

LEMMA RoundsStart ==
  ASSUME IInv, PageInv, OnScreen, Poll \/ FetchFails
  PROVE  OnScreen' /\ ScreenKeeps
<1>1. /\ UNCHANGED <<Committed, shown>> /\ pages' = <<>>
      /\ \A t : Place(t)' = Place(t)
  <2>1. UNCHANGED <<Committed, row>> BY SameRows DEF Poll, FetchFails, table
  <2> QED BY <2>1 DEF Poll, FetchFails, Place, Rank
<1>2. shown' \in Seq(Committed') /\ pages' \in Seq(Committed') BY <1>1 DEF OnScreen
<1>3. Len(pages') = 0 BY <1>1
<1>4. \A t \in Range(shown') : 0 < Place(t)'
  <2> SUFFICES ASSUME NEW t \in Range(shown') PROVE 0 < Place(t)' OBVIOUS
  <2>1. t \in Committed BY <1>1, RangeOfRows DEF OnScreen
  <2>2. Place(t) \in 1..Cardinality(Committed)
    BY <2>1, RowsInOrder, RankOnto DEF Place
  <2>3. Cardinality(Committed) \in Nat BY RowsInOrder DEF Processed
  <2> QED BY <1>1, <2>2, <2>3
<1> QED BY <1>1, <1>2, <1>3, <1>4 DEF OnScreen, ScreenKeeps

LEMMA RoundsGoOn ==
  ASSUME IInv, PageInv, OnScreen, Fetch
  PROVE  OnScreen' /\ ScreenKeeps
<1> DEFINE n == Len(pages)
<1> DEFINE part == Page(n)
<1>1. /\ UNCHANGED Committed /\ \A t : Place(t)' = Place(t)
  <2>1. UNCHANGED <<Committed, row>> BY SameRows DEF Fetch, table
  <2> QED BY <2>1 DEF Place, Rank
<1>2. ui = "fetching" /\ n \in 0..Processed /\ PageSize \in Nat
  BY JobAssumption, LenProperties, RowsInOrder DEF Fetch, PageInv, Displayed
<1>3. part \in Seq(Committed)
  BY <1>2, PageOfRows
<1>4. /\ pages \in Seq(Committed) /\ pages \o part \in Seq(Committed)
      /\ Range(pages \o part) = Range(pages) \cup Range(part)
      /\ Len(pages \o part) = n + Len(part)
  <2>1. pages \in Seq(Committed) BY DEF OnScreen
  <2>2. Range(pages \o part) = Range(pages) \cup Range(part)
    BY <1>3, <2>1, RangeConcatenation
  <2> QED BY <1>3, <2>1, <2>2, ConcatProperties
<1>5. \A t \in Range(shown) :
        \/ t \in Range(pages \o part)
        \/ Len(part) = PageSize /\ n + PageSize < Place(t)
  <2> SUFFICES ASSUME NEW t \in Range(shown), t \notin Range(pages)
               PROVE  \/ t \in Range(part)
                      \/ Len(part) = PageSize /\ n + PageSize < Place(t)
    BY <1>4
  <2>1. n < Place(t) BY <1>2 DEF OnScreen
  <2>2. t \in Committed BY RangeOfRows DEF OnScreen
  <2> QED BY <1>2, <2>1, <2>2, PageHolds
<1> HIDE DEF part
<1>6. CASE Len(part) = PageSize
  <2>1. pages' = pages \o part /\ UNCHANGED <<ui, shown>> BY <1>6 DEF Fetch, part
  <2>2. shown' \in Seq(Committed') /\ pages' \in Seq(Committed')
    BY <1>1, <1>4, <2>1 DEF OnScreen
  <2>3. \A t \in Range(shown') : t \in Range(pages') \/ Len(pages') < Place(t)'
    BY <1>1, <1>4, <1>5, <1>6, <2>1
  <2> QED BY <2>1, <2>2, <2>3 DEF OnScreen, ScreenKeeps
<1>7. CASE Len(part) # PageSize
  <2>1. pages' = <<>> /\ shown' = pages \o part /\ ui' # "fetching"
    BY <1>7 DEF Fetch, part
  <2>2. shown' \in Seq(Committed') /\ pages' \in Seq(Committed')
    BY <1>1, <1>4, <2>1
  <2>3. Range(shown) \subseteq Range(shown') BY <1>5, <1>7, <2>1
  <2> QED BY <2>1, <2>2, <2>3 DEF OnScreen, ScreenKeeps
<1> QED BY <1>6, <1>7

LEMMA ScreenStep ==
  ASSUME IInv, IInv', PageInv, OnScreen, [Next]_vars
  PROVE  OnScreen' /\ ScreenKeeps
<1>1. CASE \E t \in Address, o \in Outcome : Commit(t, o)
  <2>1. PICK t \in Address, o \in Outcome : Commit(t, o) BY <1>1
  <2>2. UNCHANGED page /\ result' = [result EXCEPT ![t] = o] /\ row' = row
    BY <2>1 DEF Commit, Ledger!Record, table
  <2>3. Committed \subseteq Committed'
    BY <2>2, JobAssumption DEF Committed, IInv, Typed
  <2> QED BY <2>2, <2>3, ScreenRests
<1>2. CASE \E t \in Address : DrawId(t)
  <2>1. PICK t \in Address : DrawId(t) BY <1>2
  <2>2. UNCHANGED <<page, result>> /\ t \notin Committed
    BY <2>1 DEF DrawId, tasks, Committed
  <2>3. \A s \in Address : s # t => row'[s] = row[s] BY <2>1 DEF DrawId, IInv, Typed
  <2>4. Committed' = Committed /\ Committed \subseteq Address BY <2>2 DEF Committed
  <2> QED BY <2>2, <2>3, <2>4, ScreenRests
<1>3. CASE Poll \/ FetchFails BY <1>3, RoundsStart
<1>4. CASE Fetch BY <1>4, RoundsGoOn
<1>5. CASE /\ ~\E t \in Address : DrawId(t) \/ \E o \in Outcome : Commit(t, o)
           /\ ~(Poll \/ FetchFails \/ Fetch)
  <2>1. UNCHANGED <<page, result, row>>
    BY <1>5 DEF Next, vars, tasks, table, CreateJob, Abandon, Answer, Send, Take, Return,
       Confirm, PublishFails, GiveUp, CheckComplete, Select, Ledger!Accept, Ledger!Park,
       Ledger!Refuse
  <2>2. Committed' = Committed BY <2>1 DEF Committed
  <2> QED BY <2>1, <2>2, ScreenRests
<1> QED BY <1>1, <1>2, <1>3, <1>4, <1>5

(* An address that the page has shown a result for stays on screen, though *)
(* every round replaces the whole list, loads it in several requests and   *)
(* finds rows that appeared, out of order, between them.                   *)
THEOREM ShownStaysShown == Spec => [][ScreenKeeps]_vars
<1>1. Init => OnScreen
  BY DEF Init, OnScreen
<1>2. IInv /\ IInv' /\ PageInv /\ OnScreen /\ [Next]_vars => OnScreen'
  BY ScreenStep
<1>3. Spec => []OnScreen
  BY <1>1, <1>2, IInvInductive, PageInvariant, PTL DEF Spec
<1>4. IInv /\ IInv' /\ PageInv /\ OnScreen /\ [Next]_vars => [ScreenKeeps]_vars
  BY ScreenStep
<1> QED BY <1>3, <1>4, IInvInductive, PageInvariant, PTL DEF Spec
=============================================================================
