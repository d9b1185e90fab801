------------------------------- MODULE BulkJob -------------------------------
(***************************************************************************)
(* One bulk job from its submission to the last result on screen: the      *)
(* handler of POST /v1/bulk (http/v1/bulk/post.rs) publishes one task per  *)
(* address, a few at a time; the workers, here what TaskLedger promises of *)
(* them, store one row per task; the browser page (deploy/ui/index.html)   *)
(* polls the progress (get_progress.rs) and loads the rows page by page    *)
(* (get_results/mod.rs), and an API client downloads them when the job is  *)
(* complete.  Row ids are drawn before rows become visible, so rows do not *)
(* appear in the order of their ids.                                       *)
(***************************************************************************)
EXTENDS Integers, Sequences, FiniteSets, Functions

CONSTANTS
  Address,      \* the addresses of the job, one task each
  Outcome,      \* what a verification can find
  NoResult,
  Width,        \* how many publishes run at once (10 in the code)
  PageSize,     \* rows per page (10000 for the page and for CSV)
  MaxIds,       \* ids the sequence can give out (model bound)
  MaxFailures   \* failed requests of the page (model bound)

ASSUME JobAssumption ==
  /\ IsFiniteSet(Address) /\ Address # {}
  /\ Width \in Nat \ {0} /\ PageSize \in Nat \ {0}
  /\ MaxIds \in Nat /\ MaxFailures \in Nat
  /\ NoResult \notin Outcome

VARIABLES
  phase,      \* the submitting handler
  total,      \* v1_bulk_job.total_records, 0 before the job exists
  publish,    \* the publish of each task
  accepted, result, parked, refused,  \* the tasks, see TaskLedger
  row,        \* id of the task's row in v1_task_result, 0 for none
  lastId      \* the sequence behind the ids
VARIABLES
  ui,         \* the page: idle (between polls), fetching, stopped
  seen,       \* total_processed of the last poll
  fetched,    \* cur.fetched, -1 when nothing was fetched yet
  pages,      \* rows fetched so far in this round
  shown,      \* cur.results
  failures,   \* failed requests so far
  gate,       \* the download's check that the job is complete has passed
  download    \* rows downloaded so far

submission == <<phase, total, publish>>
tasks == <<accepted, result, parked, refused>>
table == <<row, lastId>>
page == <<ui, seen, fetched, pages, shown, failures>>
client == <<gate, download>>
vars == <<submission, tasks, table, page, client>>

Ledger == INSTANCE TaskLedger WITH Bulk <- Address

Init ==
  /\ phase = "new" /\ total = 0
  /\ publish = [t \in Address |-> "todo"]
  /\ Ledger!Init
  /\ row = [t \in Address |-> 0] /\ lastId = 0
  /\ ui = "idle" /\ seen = 0 /\ fetched = -1
  /\ pages = <<>> /\ shown = <<>> /\ failures = 0
  /\ gate = FALSE /\ download = <<>>
-----------------------------------------------------------------------------
(* What a query sees                                                       *)

Committed == {t \in Address : result[t] # NoResult}

(* Faulty: the task that failed to be stored is counted as processed.      *)
ProcessedOrParked == Cardinality(Committed \cup parked)

Processed == Cardinality(Committed)
Complete == total > 0 /\ Processed >= total

(* ORDER BY: the i-th of S is the one with i keys up to its own.           *)
InOrder(S, key) ==
  [i \in 1..Cardinality(S) |->
     CHOOSE t \in S : Cardinality({s \in S : key[s] <= key[t]}) = i]

(* SELECT ... WHERE job_id = $1 ORDER BY id                                *)
Rows == InOrder(Committed, row)
Page(offset) ==
  SubSeq(Rows, offset + 1,
         IF offset + PageSize < Len(Rows) THEN offset + PageSize ELSE Len(Rows))
-----------------------------------------------------------------------------
(* Submission                                                              *)

CreateJob ==
  /\ phase = "new"
  /\ phase' = "publishing"
  /\ total' = Cardinality(Address)
  /\ UNCHANGED <<publish, tasks, table, page, client>>

InFlight == {t \in Address : publish[t] \in {"sent", "taken", "returned"}}

Send(t) ==
  /\ phase = "publishing"
  /\ publish[t] = "todo"
  /\ Cardinality(InFlight) < Width
  /\ publish' = [publish EXCEPT ![t] = "sent"]
  /\ UNCHANGED <<phase, total, tasks, table, page, client>>

(* The broker takes a message over, whether or not the handler still runs. *)
Take(t) ==
  /\ publish[t] = "sent"
  /\ publish' = [publish EXCEPT ![t] = "taken"]
  /\ Ledger!Accept(t)
  /\ UNCHANGED <<phase, total, table, page, client>>

(* It refuses one (Nack), or returns it as unroutable.                     *)
Return(t) ==
  /\ publish[t] = "sent"
  /\ publish' = [publish EXCEPT ![t] = "returned"]
  /\ UNCHANGED <<phase, total, tasks, table, page, client>>

(* Faulty: the confirmation is awaited and not examined.                   *)
ConfirmAny(t) ==
  /\ phase = "publishing"
  /\ publish[t] \in {"taken", "returned"}
  /\ publish' = [publish EXCEPT ![t] = "done"]
  /\ UNCHANGED <<phase, total, tasks, table, page, client>>

Confirm(t) ==
  /\ phase = "publishing"
  /\ publish[t] = "taken"
  /\ publish' = [publish EXCEPT ![t] = "done"]
  /\ UNCHANGED <<phase, total, tasks, table, page, client>>

(* A refusal, or a connection that breaks before the confirmation: the     *)
(* first error ends the handler, which drops the other publishes.          *)
PublishFails(t) ==
  /\ phase = "publishing"
  /\ t \in InFlight
  /\ phase' = "failed"
  /\ UNCHANGED <<total, publish, tasks, table, page, client>>

(* The caller hangs up or the server exits: the handler is dropped.        *)
Abandon ==
  /\ phase = "publishing"
  /\ phase' = "gone"
  /\ UNCHANGED <<total, publish, tasks, table, page, client>>

Answer ==
  /\ phase = "publishing"
  /\ \A t \in Address : publish[t] = "done"
  /\ phase' = "answered"
  /\ UNCHANGED <<total, publish, tasks, table, page, client>>
-----------------------------------------------------------------------------
(* The workers                                                             *)

(* An INSERT draws an id; one that fails has drawn it for nothing.         *)
DrawId(t) ==
  /\ t \in accepted /\ result[t] = NoResult
  /\ lastId < MaxIds
  /\ lastId' = lastId + 1
  /\ row' = [row EXCEPT ![t] = lastId']
  /\ UNCHANGED <<submission, tasks, page, client>>

(* The row becomes visible.                                                *)
Commit(t, o) ==
  /\ row[t] # 0
  /\ Ledger!Record(t, o)
  /\ UNCHANGED <<submission, table, page, client>>

GiveUp(t) ==
  /\ t \notin parked \cup refused
  /\ Ledger!Park(t) \/ Ledger!Refuse(t)
  /\ UNCHANGED <<submission, table, page, client>>
-----------------------------------------------------------------------------
(* The page                                                                *)

(* Progress first; the rows only when their number has changed.            *)
Poll ==
  /\ phase = "answered" /\ ui = "idle"
  /\ seen' = Processed
  /\ pages' = <<>>
  /\ ui' = IF seen' # fetched THEN "fetching"
           ELSE IF Complete THEN "stopped" ELSE "idle"
  /\ UNCHANGED <<submission, tasks, table, fetched, shown, failures, client>>

(* Faulty: the count is taken when the last page has arrived.              *)
FetchCountingLate ==
  /\ ui = "fetching"
  /\ LET part == Page(Len(pages)) IN
     IF Len(part) = PageSize
     THEN pages' = pages \o part /\ UNCHANGED <<ui, fetched, shown>>
     ELSE /\ shown' = pages \o part
          /\ pages' = <<>>
          /\ fetched' = Processed
          /\ ui' = IF seen >= total THEN "stopped" ELSE "idle"
  /\ UNCHANGED <<submission, tasks, table, seen, failures, client>>

(* fetchResults stops at the first page that is not full.                  *)
Fetch ==
  /\ ui = "fetching"
  /\ LET part == Page(Len(pages)) IN
     IF Len(part) = PageSize
     THEN pages' = pages \o part /\ UNCHANGED <<ui, fetched, shown>>
     ELSE /\ shown' = pages \o part
          /\ pages' = <<>>
          /\ fetched' = seen
          /\ ui' = IF seen >= total THEN "stopped" ELSE "idle"
  /\ UNCHANGED <<submission, tasks, table, seen, failures, client>>

(* Faulty: the count is remembered although the rows did not arrive.       *)
FetchFailsSilently ==
  /\ ui = "fetching" /\ failures < MaxFailures
  /\ failures' = failures + 1
  /\ ui' = "idle" /\ pages' = <<>> /\ fetched' = seen
  /\ UNCHANGED <<submission, tasks, table, seen, shown, client>>

(* A failed request ends the round; the next poll starts over.             *)
FetchFails ==
  /\ ui = "fetching" /\ failures < MaxFailures
  /\ failures' = failures + 1
  /\ ui' = "idle" /\ pages' = <<>>
  /\ UNCHANGED <<submission, tasks, table, seen, fetched, shown, client>>
-----------------------------------------------------------------------------
(* The download, without partial: each page checks and then selects.       *)

(* Faulty: rows are handed out while the job is running.                   *)
CheckNothing ==
  /\ ~gate /\ total > 0 /\ Len(download) < total
  /\ gate' = TRUE
  /\ UNCHANGED <<submission, tasks, table, page, download>>

CheckComplete ==
  /\ ~gate /\ Complete /\ Len(download) < total
  /\ gate' = TRUE
  /\ UNCHANGED <<submission, tasks, table, page, download>>

Select ==
  /\ gate
  /\ gate' = FALSE
  /\ download' = download \o Page(Len(download))
  /\ UNCHANGED <<submission, tasks, table, page>>

Next ==
  \/ CreateJob \/ Abandon \/ Answer
  \/ \E t \in Address :
       \/ Send(t) \/ Take(t) \/ Return(t) \/ Confirm(t) \/ PublishFails(t)
       \/ DrawId(t) \/ GiveUp(t)
       \/ \E o \in Outcome : Commit(t, o)
  \/ Poll \/ Fetch \/ FetchFails
  \/ CheckComplete \/ Select

Spec == Init /\ [][Next]_vars

(* The page polls every five seconds and its requests are answered.        *)
FairSpec == Spec /\ WF_vars(Poll) /\ WF_vars(Fetch)
-----------------------------------------------------------------------------
(* Properties                                                              *)

(* Who gets a job id can count on every address: the broker has taken      *)
(* every task over.  Anything less is answered with an error (post.rs).    *)
AnswerMeansAccepted == phase = "answered" => accepted = Address

(* The page stops polling only with every address on screen, once: what it *)
(* takes for completion is a number of rows (get_progress.rs), counted     *)
(* before it fetched anything.                                             *)
StoppedShowsAll ==
  ui = "stopped" => Len(shown) = total /\ Range(shown) = Address

(* When the number the page remembers is the number of rows there are, it  *)
(* shows exactly these rows, each once, although it counted before it      *)
(* loaded them, rows appeared between two pages, and out of order.         *)
ShownIsStored == fetched = Processed => shown = Rows

(* A download never skips a row or repeats one, although it is several     *)
(* requests: the pages together are the beginning of the final rows.       *)
DownloadConsistent == download = SubSeq(Rows, 1, Len(download))

(* When every task gets a row in the end, the page ends with all of them   *)
(* on screen, whatever requests failed on the way.                         *)
PageFinishes ==
  (<>(phase = "answered") /\ <>(Committed = Address))
    => <>[](ui = "stopped" /\ shown = Rows /\ Len(shown) = Cardinality(Address))
=============================================================================
