----------------------------- MODULE LegacyBulk -----------------------------
(***************************************************************************)
(* A bulk job of /v0 (backend/src/http/v0/bulk): POST /v0/bulk inserts the *)
(* job and spawns a task per address in the sqlxmq queue; a task tries the *)
(* ports until the address is not "unknown", inserts the result and then   *)
(* completes, in two statements; the status and the download count the     *)
(* rows.  backend/src/bin/prune_db.rs deletes what is finished.  sqlxmq    *)
(* runs a task that did not complete again until its attempts are used up; *)
(* that it runs one attempt of a task at a time (its runner keeps a task   *)
(* alive while it works) is assumed of this external crate.                *)
(*                                                                         *)
(* There is one job.  Every step is one SQL statement, or one call of      *)
(* check_email.                                                            *)
(***************************************************************************)
EXTENDS Naturals, Sequences, FiniteSets

CONSTANTS
  Address,   \* the addresses of the job
  Attempts,  \* how often sqlxmq runs a task at most
  MaxPorts,  \* bound of the ports in a request
  PageSize   \* how many results a JSON download has by default, 50 in the code

ASSUME AddressAssumption == IsFiniteSet(Address) /\ Address # {}
ASSUME BoundAssumption ==
  Attempts \in Nat \ {0} /\ MaxPorts \in Nat /\ PageSize \in Nat \ {0}

VARIABLES
  job,      \* "none", "open" while tasks are spawned, "answered", "failed"
  row,      \* whether the row of bulk_jobs exists
  ports,    \* how many SMTP ports the request lists
  task,     \* the state of each task
  left,     \* the attempts it has left
  port,     \* the ports it has tried in this attempt
  unknown,  \* whether the last of them left the address unknown
  results,  \* email_results, by id: whose result it is, after how many ports
  reader,   \* a request for the status or for the results
  pruner    \* prune_db
vars == <<job, row, ports, task, left, port, unknown, results, reader, pruner>>

tasks == <<task, left, port, unknown>>

Total == Cardinality(Address)
Running == {"checking", "inserting", "completing"}
NoReader == [at |-> "idle", format |-> "status"]

TypeOK ==
  /\ job \in {"none", "open", "answered", "failed"}
  /\ row \in BOOLEAN
  /\ ports \in 0..MaxPorts
  /\ task \in [Address -> {"unborn", "queued", "gone", "dead"} \cup Running]
  /\ left \in [Address -> 0..Attempts]
  /\ port \in [Address -> 0..MaxPorts]
  /\ unknown \in [Address -> BOOLEAN]
  /\ results \in Seq([address : Address, tried : 0..MaxPorts, unknown : BOOLEAN])
  /\ reader \in [at : {"idle", "counting", "fetching"},
                 format : {"status", "json", "csv"}]
  /\ pruner \in {"idle", "selected", "emptied", "failed", "done"}

Init ==
  /\ job = "none"
  /\ row = FALSE
  /\ ports \in 0..MaxPorts
  /\ task = [a \in Address |-> "unborn"]
  /\ left = [a \in Address |-> Attempts]
  /\ port = [a \in Address |-> 0]
  /\ unknown = [a \in Address |-> FALSE]
  /\ results = <<>>
  /\ reader = NoReader
  /\ pruner = "idle"
-----------------------------------------------------------------------------
(* POST /v0/bulk                                                           *)

Create ==
  /\ job = "none"
  /\ job' = "open"
  /\ row' = TRUE
  /\ UNCHANGED <<ports, tasks, results, reader, pruner>>

(* submit_job, for one address after the other.                            *)
Spawn(a) ==
  /\ job = "open"
  /\ task[a] = "unborn"
  /\ task' = [task EXCEPT ![a] = "queued"]
  /\ UNCHANGED <<job, row, ports, left, port, unknown, results, reader, pruner>>

Answer ==
  /\ job = "open"
  /\ \A a \in Address : task[a] # "unborn"
  /\ job' = "answered"
  /\ UNCHANGED <<row, ports, tasks, results, reader, pruner>>

(* A task cannot be inserted; the ones before it stay.                     *)
SubmitFails ==
  /\ job = "open"
  /\ \E a \in Address : task[a] = "unborn"
  /\ job' = "failed"
  /\ UNCHANGED <<row, ports, tasks, results, reader, pruner>>
-----------------------------------------------------------------------------
(* email_verification_task                                                 *)

(* The task goes on to state st without the response it had.               *)
Leave(a, st) ==
  /\ task' = [task EXCEPT ![a] = st]
  /\ port' = [port EXCEPT ![a] = 0]
  /\ unknown' = [unknown EXCEPT ![a] = FALSE]

(* Faulty: running a task costs no attempt.                                *)
PollFree(a) ==
  /\ task[a] = "queued"
  /\ task' = [task EXCEPT ![a] = "checking"]
  /\ UNCHANGED <<job, row, ports, left, port, unknown, results, reader, pruner>>

(* mq_poll hands the task out and takes off one attempt.                   *)
Poll(a) ==
  /\ task[a] = "queued"
  /\ task' = [task EXCEPT ![a] = "checking"]
  /\ left' = [left EXCEPT ![a] = @ - 1]
  /\ UNCHANGED <<job, row, ports, port, unknown, results, reader, pruner>>

(* check_email with the next port; "unknown" goes on to the one after it.  *)
Try(a) ==
  /\ task[a] = "checking"
  /\ port[a] < ports
  /\ port' = [port EXCEPT ![a] = @ + 1]
  /\ \E u \in BOOLEAN :
       /\ unknown' = [unknown EXCEPT ![a] = u]
       /\ task' = [task EXCEPT ![a] = IF u /\ port'[a] < ports THEN @ ELSE "inserting"]
  /\ UNCHANGED <<job, row, ports, left, results, reader, pruner>>

(* No port was listed: there is no response to insert.                     *)
SkipInsert(a) ==
  /\ task[a] = "checking"
  /\ ports = 0
  /\ task' = [task EXCEPT ![a] = "completing"]
  /\ UNCHANGED <<job, row, ports, left, port, unknown, results, reader, pruner>>

(* Faulty: an unknown address gets no result.                              *)
InsertKnown(a) ==
  /\ task[a] = "inserting"
  /\ row
  /\ results' = IF unknown[a] THEN results
                ELSE Append(results, [address |-> a, tried |-> port[a],
                                      unknown |-> unknown[a]])
  /\ Leave(a, "completing")
  /\ UNCHANGED <<job, row, ports, left, reader, pruner>>

(* The foreign key lets no result in without its job.                      *)
Insert(a) ==
  /\ task[a] = "inserting"
  /\ row
  /\ results' = Append(results, [address |-> a, tried |-> port[a],
                                 unknown |-> unknown[a]])
  /\ Leave(a, "completing")
  /\ UNCHANGED <<job, row, ports, left, reader, pruner>>

Complete(a) ==
  /\ task[a] = "completing"
  /\ task' = [task EXCEPT ![a] = "gone"]
  /\ UNCHANGED <<job, row, ports, left, port, unknown, results, reader, pruner>>

(* A statement fails or the process dies: sqlxmq runs the task again.      *)
Interrupted(a) ==
  /\ task[a] \in Running
  /\ Leave(a, IF left[a] = 0 THEN "dead" ELSE "queued")
  /\ UNCHANGED <<job, row, ports, left, results, reader, pruner>>
-----------------------------------------------------------------------------
(* GET /v0/bulk/{id} and /v0/bulk/{id}/results                             *)

(* The first statement of both reads the job's total; without the job it   *)
(* finds nothing, and the request ends.                                    *)
Request ==
  /\ reader.at = "idle"
  /\ job # "none"
  /\ \E format \in {"status", "json", "csv"} :
       reader' = IF row THEN [at |-> "counting", format |-> format] ELSE NoReader
  /\ UNCHANGED <<job, row, ports, tasks, results, pruner>>

(* Faulty: a download does not wait for the job.                           *)
CountNothing ==
  /\ reader.at = "counting"
  /\ reader' = IF reader.format = "status" THEN NoReader
               ELSE [reader EXCEPT !.at = "fetching"]
  /\ UNCHANGED <<job, row, ports, tasks, results, pruner>>

(* The second counts the results: fewer than the total is "in progress".   *)
(* A download of a completed job goes on.                                  *)
Count ==
  /\ reader.at = "counting"
  /\ reader' = IF Len(results) < Total \/ reader.format = "status" THEN NoReader
               ELSE [reader EXCEPT !.at = "fetching"]
  /\ UNCHANGED <<job, row, ports, tasks, results, pruner>>

(* The rows that the third finds, for a request without a limit: all of    *)
(* them as CSV, one page as JSON.                                          *)
Fetched ==
  IF reader.format = "json" /\ Len(results) > PageSize THEN PageSize ELSE Len(results)

(* The third answers the request with them.                                *)
Fetch ==
  /\ reader.at = "fetching"
  /\ reader' = NoReader
  /\ UNCHANGED <<job, row, ports, tasks, results, pruner>>
-----------------------------------------------------------------------------
(* prune_db                                                                *)

(* A job with exactly as many results as it has addresses.                 *)
Select ==
  /\ pruner = "idle"
  /\ row /\ Len(results) = Total
  /\ pruner' = "selected"
  /\ UNCHANGED <<job, row, ports, tasks, results, reader>>

(* Both deletions run on the pool, each a transaction of its own.          *)
DeleteResults ==
  /\ pruner = "selected"
  /\ results' = <<>>
  /\ pruner' = "emptied"
  /\ UNCHANGED <<job, row, ports, tasks, reader>>

(* The foreign key does not let a job with results go.                     *)
DeleteJob ==
  /\ pruner = "emptied"
  /\ IF results = <<>>
     THEN row' = FALSE /\ pruner' = "done"
     ELSE pruner' = "failed" /\ UNCHANGED row
  /\ UNCHANGED <<job, ports, tasks, results, reader>>

PruneDies ==
  /\ pruner \in {"selected", "emptied"}
  /\ pruner' = "failed"
  /\ UNCHANGED <<job, row, ports, tasks, results, reader>>

Work(a) == Poll(a) \/ Try(a) \/ SkipInsert(a) \/ Insert(a) \/ Complete(a)

Next ==
  \/ Create \/ Answer \/ SubmitFails
  \/ \E a \in Address : Spawn(a) \/ Work(a) \/ Interrupted(a)
  \/ Request \/ Count \/ Fetch
  \/ Select \/ DeleteResults \/ DeleteJob \/ PruneDies

(***************************************************************************)
(* The runner is polled by the runtime, and sqlxmq hands out what is due;  *)
(* the handler that submits runs to its end.                               *)
(***************************************************************************)
Spec ==
  /\ Init /\ [][Next]_vars
  /\ WF_vars(Answer \/ \E a \in Address : Spawn(a))
  /\ \A a \in Address : WF_vars(Work(a))
-----------------------------------------------------------------------------
RowsOf(a) == Cardinality({i \in DOMAIN results : results[i].address = a})
Pruning == pruner # "idle"

(* email_verification_task gives a result each time it runs, and sqlxmq    *)
(* stops running it: an address has no more results than attempts, however *)
(* insertions and failures to complete follow each other.                  *)
RowsBounded == \A a \in Address : RowsOf(a) + left[a] <= Attempts

(* The loop over smtp_ports: a result says "unknown" only after every port *)
(* was tried, in the attempt that inserted it.                             *)
UnknownTriedAll ==
  \A i \in DOMAIN results : results[i].unknown => results[i].tried = ports

(* job_result counts before it fetches, and counts rows: when a download   *)
(* fetches, there are as many rows as addresses, or a full page of them,   *)
(* and no address is missing - unless a task that had inserted its result  *)
(* was run again before it completed, whose second row passes for another  *)
(* address, or prune_db has been at work in between.                       *)
DownloadIsWhole ==
  reader.at = "fetching" /\ ~Pruning =>
    /\ Fetched >= IF reader.format = "json" /\ Total > PageSize THEN PageSize ELSE Total
    /\ (\E a \in Address : RowsOf(a) = 0) => \E a \in Address : RowsOf(a) > 1

(* Under the fairness above, a job that was answered and lists a port has  *)
(* as many results as addresses in the end, and is "completed", unless a   *)
(* task has used up its attempts or prune_db has been at work.  Which rows *)
(* they are is not said: the status counts them (see DownloadIsWhole).     *)
JobCompletes ==
  job = "answered" /\ ports > 0 ~>
    Len(results) >= Total \/ Pruning \/ \E a \in Address : task[a] = "dead"
=============================================================================
