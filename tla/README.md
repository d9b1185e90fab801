# Verification of check-if-email-exists

TLA+ models, TLC checks and TLAPS proofs for check-if-email-exists: the part that takes verification requests,
routes them, queues them, runs them against mail servers, stores the results and hands them out, and the accounts
in front of it. Paths below are relative to the repository (`src/`).

## The system

| Component | State | Operations | Talks to | Module |
|---|---|---|---|---|
| RabbitMQ worker (`backend/src/worker`) | queue `check_email`, `check_email.failed`, the spawned tasks | consume, verify, store, acknowledge, requeue, republish, park, reply, notify | broker, Postgres, throttle, webhook | `Worker` |
| Throttle (`backend/src/throttle.rs`) | four windows with a counter and a start, one mutex | `try_acquire`, `usage` | consumer loop, HTTP handlers | `Throttle` |
| Bulk jobs v1 (`backend/src/http/v1/bulk`, `deploy/ui`) | `v1_bulk_job`, `v1_task_result`, the page's memory | submit, progress, results, download | broker, Postgres | `BulkJob` |
| Single checks (`http/v1/check_email`, `http/v0/check_email`) | reply queue, slots, request deadline | direct check; a task and its reply | broker, throttle, SMTP check | `SingleCheck` |
| SMTP check (`core/src/smtp`) | hosts, attempts, sessions, probes | connect, probe, classify, retry, next host | mail servers | `SmtpCheck`, `RcptReply`, `Conversation` |
| Verification pipeline and methods (`core/src/lib.rs`, `mx`, `verif_method.rs`; `backend/src/config.rs`) | configuration | admit, override, look up MX, choose provider, method and proxy, verdict | DNS, SMTP check, browser | `Routing`, `CheckEmail`, `Reachability` |
| Catch-all cache (`smtp/catch_all_cache.rs`) | answers by route and domain | look up, remember, purge, clear | concurrent checks | `CheckEmail` |
| Accounts (`http/account`) | users, sessions, second factor, rate limits | register, login, verify, logout, enrol, recovery codes, change password, revoke | Postgres, its pool | `Accounts` |
| Legacy bulk v0 (`http/v0/bulk`, `bin/prune_db.rs`) | sqlxmq jobs, `email_results` | submit, run, retry, status, download, prune | Postgres | `LegacyBulk` |
| Lambda (`sqs`), CLI, self check, browser scripts, formats | none of their own | | | not modelled |

What is hard here: a task passes through a broker and a database that fail separately, so it is verified more
than once and must be stored once; connections break without the process noticing; stores fail after they
committed; counters stand for facts (a redelivered flag for "second attempt", a number of rows for "complete");
the page reads a table that grows under it; windows restart while others ask; replies and tasks share one prefetch
limit; a method and its proxy come from three sources; transactions read before they wait for a lock; jobs and
their results are deleted by two statements.

For each component, what makes it correct:

* worker: no accepted task is lost; a task is stored once and its result is final; a caller is answered once;
  webhooks only for stored tasks; the queue drains.
* throttle: bursts are bounded; refusals are deserved; delays are not too long.
* bulk jobs: a job id means that every task was accepted; complete means every address; pages are consistent.
* single checks: an answer without the help of the deadline, as long as the channel has places left; stored before
  handed out; counted once.
* SMTP check: a verdict needs the server's word about this recipient in a clean session; a host that answered is
  not asked again through another; every probe leaves evidence; an end, whatever servers do.
* routing and cache: nobody departs from the operator's configuration without the right to; a request's proxy is
  used; a cached answer decides only checks that would have gone the same way, and not for long.
* accounts: a revoked session is dead; a code works once; attempts and sessions are limited; no deadlock that
  Postgres does not end.
* legacy bulk: no more results of a task than attempts; downloads miss nobody but by a repeated task.

## The modules

### The worker

* `Worker.tla` models `consume.rs`, `do_work.rs`, `single_shot.rs` and the insert of `storage/postgres.rs`.
  A broker message (`at`, `job`, `attempts`, `redelivered`) is where the broker has it; a run (`run[w][m]`) is
  what process `w` does with its delivery of `m`: `pc` is the next await in the code. `link[w]` is the connection.
  The consumer loop (`Loop`: DropMalformed, RejectThrottled, WaitThrottled, RequeueThrottled, Start) takes one
  buffered delivery at a time and is busy while it sleeps or replies; everything after `tokio::spawn` is `Work`,
  one action per await: RequeueUnknown, CheckDone, Store, StoreFails, Ack, RejectUnstored, Republish, AckOriginal,
  Reply, Notify. A broken connection puts the deliveries back at once (`LoseConnection`) while the process goes on
  until it notices (`Exit`); what it sends meanwhile is lost. `main` ends with the consumer, a supervisor restarts.
  The throttle decides nondeterministically here. History variables count what no table remembers (replies,
  webhooks, refused copies).
* `TaskLedger.tla` is what the worker promises of a bulk task, without queues: accepted, then recorded once with a
  final result, or parked, or refused by the broker. `WorkerLedger.tla` maps the queue, the runs and the table to it.

### The throttle

* `Throttle.tla`: `used` and `since` are the counters and starts of the windows; `UsedNow`/`SinceNow` are
  `reset_if_needed`, `Full`/`Refusing`/`Delay` are `should_throttle`, `Admit`/`Refuse` the two ends of
  `try_acquire`, `Usage` is `usage`. One mutex makes each a step; a refusal reads the clock twice, so `Refuse`
  lets it advance in between. The number of windows, their lengths and limits are constants.

### Bulk jobs

* `BulkJob.tla`: one job from submission to screen. `CreateJob`, `Send`, `Confirm`, `PublishFails`, `Answer`,
  `Abandon` are `http/v1/bulk/post.rs` (`Take` and `Return` are the broker); `DrawId` and `Commit` are the insert,
  split because ids are drawn before rows become visible; `Processed` and `Complete` are `get_progress.rs`;
  `Poll`, `Fetch`, `FetchFails` the page's `poll` and `fetchResults`; `CheckComplete` and `Select` a download
  without `partial`. The workers are `TaskLedger`'s actions: what `Worker` is shown to implement is what this
  module assumes.

### Single checks

* `SingleCheck.tla`: callers of v1 and v0. Without a worker, and for every v0 request, the handler checks, stores
  and uploads by itself, in one of a limited number of slots (`Admit`, `TakeSlot`, `Checked`, `Stored`,
  `NotStored`, `Uploaded`); otherwise it publishes and waits for the reply (`Consume`, `DeliverReply`,
  `TakeReply`). Publishing, consuming and the waiting handlers share one channel, whose prefetch limit counts task
  and reply deliveries together (`Unacked`). `Deadline` is `request_timeout` or a client that hung up: the handler's
  future is dropped wherever it is, and with it go its slot or its reply queue. A reply that was delivered to it stays
  unacknowledged with the channel, which outlives the handler, so its place under the prefetch limit is `Lost`.
  `spare` is what was reserved in the throttle less what was begun. Broken connections are left to `Worker`.

### Routing, the pipeline and the cache

* `Routing.tla` has no state: the method of each provider as configuration (`GetVerifMethod`), request
  (`ToInput`, `Overridden`, `Compat`) and MX host (`FromMxHost`) decide it, the proxy that `get_proxy` finds, what
  a configuration needs to load (`Loads`, `Connects`), and who may ask (`IdentityOf`, `CheckHeader`, `OwnerOf`).
* `CheckEmail.tla` runs concurrent checks over it: `Ask`, `Resolve` (MX hosts by preference, null MX, misc),
  `Route` (method and cache), `Converse` or `Browse`, `Fail`. `domains` is the cache; `Kept` and `Remembered` are
  what it does when it is full. A conversation is one step here, with any of the `Findings` a conversation can
  have; `SmtpCheck` is its detail. `seen` remembers by which way a domain was found to accept anything.
* `Reachability.tla` has no state: the flags of a result and `CalculateReachable`, the verdict, which the pipeline
  and the SMTP check share, and `Found`, the flags that a conversation can return together.
* `Conversation.tla` is what `check_smtp` promises the pipeline: it returns once, with details or an error, and a
  domain is remembered as catch-all only with details that say so. These are the steps `CheckEmail` takes for it.

### The SMTP check

* `RcptReply.tla`: what `check_email_deliverability` concludes from a reply, with the functions of `parser.rs` it
  asks, in the order it asks them. A reply is its kind, the status code of each of two lines and the wordings that
  occur; wordings that the same functions recognise are one phrase, so every combination of the functions'
  answers that some text can produce has a representative. `RcptProbe.tla` gives one reply to both probes.
* `SmtpCheck.tla`: one verification. `Lookup` is the start of `check_smtp`; `Begin`, `Dial`, `DialFails`,
  `CatchAllAccepted`, `CatchAllRejected`, `Reconnect`, `RecipientAnswered`, `RecipientInterrupted`, `ProbeFails`,
  `Return` are the stretches of `create_smtp_future` between its awaits; `TimeOut` is the deadline around it in
  `check_smtp_without_retry`. A failed attempt runs synchronously through `check_smtp_with_retry` (`Explained`,
  `MayRetry`) and the loop over the hosts (`Spoken`, `HostUnreachable`) to the next await: that is `Fail`. The
  variables are the locals and the fields of `SmtpDebug`; `session`, what the server saw, is history.
  `SmtpDetails` are the flags a result is turned into, and `Outcome` is what the pipeline sees of a state; through
  it the module implements `Conversation`.

### Accounts

* `Accounts.tla`: requests as concurrent transactions over one pool. `Charge` is the rate limit, a statement of its
  own; `Begin` takes a connection and evaluates the join with the session; `Lock` is the moment the row lock is
  granted; `Recheck` looks for the session again; `Register`, `Login`, `Verify`, `StartSetup`, `EnableSetup` and
  `Change` (disable, new recovery codes, password, revoke) are the writes with their commit; `Deny` and `Refuse`
  roll back; `Logout` is one statement. The row lock of the user protects every write but one kind: the DELETEs of
  `account_session` reach rows of other users (an old cookie's session, whatever has expired), and keep each row they
  meet locked until the commit. So they are steps of their own, a row at a time: `TakeSession` deletes one of the rows
  that the transaction's present statement is yet to delete (`Doomed`), unless another transaction has deleted it
  (`taken`), and the commit waits until none is left. The order in which a statement meets its rows is arbitrary. The
  sessions beyond the newest are chosen anew for each row, while Postgres chooses them when the statement begins: if
  a logout or another user's transaction deletes one meanwhile, Postgres may drop one more than the model, and no
  property relies on a session being kept. A request is served once, so the session, password,
  secret or codes it creates carry its name. A TOTP step is a tick of the clock. `spent` and `admitted` are history.

### Legacy bulk jobs

* `LegacyBulk.tla`: one job by its SQL statements: `Create`, `Spawn`, `Answer`, `SubmitFails` are the POST; `Poll`,
  `Try`, `SkipInsert`, `Insert`, `Complete`, `Interrupted` an attempt of `email_verification_task`; `Request`,
  `Count`, `Fetch` status and download; `Select`, `DeleteResults`, `DeleteJob`, `PruneDies` are `prune_db`.

Definitions whose comment begins with "Faulty" are variants of the definition that follows them, with a plausible
mistake in it. Nothing uses them; they document which mistakes the properties catch. The `MC*` modules give the
constants their values, the `*Proofs` modules hold the theorems.

## The runs

| Run | What it shows | Bounds |
|---|---|---|
| `worker` | nothing lost, one row, one reply, webhooks after the store, broker and processes agree; refines `TaskLedger` | 2 workers with prefetch 1, a bulk and a single-shot task, 2 messages, limit 2, 2 broken connections |
| `worker_liveness` | the ledger's fair specification: an accepted task is settled in the end; the queue empties in spite of a malformed message; the bulk task has no task_id | 1 worker, 4 messages, limit 1, 1 broken connection, the broker may refuse copies |
| `worker_nack` | violated: a refused copy loses the task | no broken connection needed |
| `throttle` | bounds, refusals and delays | windows of 2, 3 and 5 ticks, limits 1, none, 2; 11 ticks |
| `bulkjob` | an answered job was accepted whole; the page and a download are consistent, and the page ends with everything on screen | 2 addresses published at once, pages of 1 row, 3 ids, 1 failed request |
| `single` | stored before handed out, counted once, everyone answered although another caller may have taken a place of the channel along | 2 callers of either version, with a worker or without, 1 bulk task, prefetch 2, 1 slot, 1 failing store |
| `rcpt` | the two classifications agree; complaints about the sender are no verdicts, and complaints about the IP none on account of a status code, but for a permanent 5.1.1 at the beginning | all 2 x 7 x 7 x 2048 refusals and the other replies: not bounded |
| `smtp` | verdicts have evidence, "safe" was probed, backups and retries as far as they should go, every probe recorded, sessions clean, an end whatever servers do | 4 hosts of which 3 count, the second with the catch-all rule, 2 attempts each, 9 replies |
| `checkemail` | accounts confined, the request's proxy used, the cache bounded and answering only what it may | 2 checks, 1 domain, 3 configurations (one of which must not load), 4 requests, 5 DNS answers, a cache of 2 |
| `checkemail_proxies` | violated: a proxy that nobody defined is bypassed | the same |
| `accounts` | sessions current and bounded, codes good once, attempts bounded, no deadlock but rings of session rows | 2 requests, 2 users, 2 earlier sessions, a pool of 2, 2 sessions, 1 recovery code, 1 attempt per window |
| `legacy` | rows bounded by attempts, downloads whole but for repeated tasks, the job completes | 2 addresses, 2 attempts, up to 2 ports, pages of 1 row |

Why these bounds are enough. A second worker is what it takes to have a task in two hands, and a broken connection
is what gives it to the second; with a second one both have worked on it in vain once. With a limit of two there
is a copy below the limit and one at it; with one process, its runs from before a broken connection compete with
those after it, which is what liveness has to survive. Two windows suffice for one to be full behind the other, the
third has no limit; eleven ticks are two lengths of the longest window. Two addresses on pages of one row make a
second page that the arrival of a row with a smaller id can shift. A prefetch limit of two is the tightest that one
loss leaves anything of: after it, a reply cannot be delivered while any task is held. Three hosts have a first, a middle and a last, and one more
is cut off; two attempts are one that is followed by another and one that is not; the replies of `MCSmtp` have one
representative for each outcome of `VerdictOf` and each way in which an error is treated. Two checks are a reader and
a writer of the cache; the ways to one domain (with and without proxy, two ports) outnumber the places of the cache,
so that it is cleared. Two requests compete for one user's row, or delete sessions of each other's users, and two
sessions are what a ring of two takes; one change under a waiting request is a logout, the clock or the other
request. A pool of two lets both be transactions, and has nothing left for one of them that would ask for more. Two
attempts of two tasks have every order of result and failure.
`MaxLosses`, `Msg`, `MaxTime`, `MaxIds`, `MaxFailures` and `MaxPorts` are bounds of the model, the other constants
are parameters of the code. Symmetry is used in safety runs only. Runs with `CHECK_DEADLOCK FALSE` stop when the
work is done or a model bound is reached.

What the violated runs show:

1. `worker_nack`: `retry_after_storage_failure` does not examine the publisher confirm (`do_work.rs:294`), so a copy
   the broker refuses is acknowledged away; `publish_task` in `bulk/post.rs` examines it.
2. `checkemail_proxies`: `validate_proxies` does not look at Mimecast and Proofpoint (`verif_method.rs:187`), while
   the comment at `config.rs:387` promises the check for each provider. `get_proxy` then finds nothing, and the
   servers are contacted directly.

Read in the model, without a run of their own:

* `connect.rs:305`: the comment says that a mailbox status code does not count where "the reply blames our IP's
  reputation". The code is indeed ignored (`Coded`), but `is_invalid` looks for "permanent: 5.1.1" as a wording
  (`parser.rs:112`), and `mentions_ip_reputation` knows words (blocklist, rbl, barracuda, reputation) that the later
  `is_err_ip_blacklisted` does not, although its comment (`parser.rs:155`) calls it the narrower of the two. So a permanent "5.1.1 ... blocklist" is taken for an undeliverable
  recipient. This is the exception in `BlamesIpAlone`; without it `ComplaintsDecideNothing` is false.
* `v1/check_email/post.rs:223`: a deadline, or a client that hangs up, between the delivery of a reply and its
  acknowledgement (line 146) drops the handler, and the delivery stays unacknowledged on the channel that the worker
  and all handlers share. Nothing settles it (`LostPlacesStayLost`), so after `concurrency` such losses the process
  is delivered neither tasks nor replies until its channel ends, although `consume.rs:118` has it end with the loss
  of its consumer so that a supervisor restarts it: here the consumer is alive and idle. This is the exception in
  `EveryoneAnswered`; `Worker` has no reply consumers, so `PrefetchNeverJams` and `QueueDrains` are about channels
  without such losses.
* `account/mod.rs:296`, `486`, `650`: two transactions, of different users even, can each have deleted a session that
  the other's DELETE meets next. Bob logs in with the cookie of Alice's session while Alice, who revokes her other
  sessions, has deleted one that expired: his look for expired sessions waits for hers, hers for the one he deleted.
  Postgres ends one of the two with an error and the client sees an internal error (`Refuse`). The comment at
  `mod.rs:512` is about connections of the pool, and right.
* `connect.rs:542`: `debug.catch_all_skipped` outlives the host that set it, so a backup host without the rule hears
  the made-up address and the recipient in one session (`OwnSession` therefore asks for no earlier host with the rule).
* `connect.rs:604`: `smtp_timeout` includes the last QUIT, and replaces a result that is already known.
* `do_work.rs:162`: a lost acknowledgement notifies the webhook again, possibly of a result that is not the stored
  one; the comment there speaks of a retried verification only.
* `consume.rs:94`: the comment says that there is one consumer; the consumers of replies are on the same channel.
* The throttle reports the delay of the first full window only, though a longer one may be full as well; a window
  also starts at start-up and at a usage poll, not only with a request.
* `retries` counts attempts per host, each with up to three connections.
* `new_with_same_config_for_all` leaves Yahoo and consumer Outlook to the headless browser (its default), although
  a request with a proxy and nothing else asked for no browser.
* A request that sets Yahoo's or consumer Outlook's method to SMTP and no proxy bypasses the proxy the server is
  configured with: of the configuration only the identity is kept.
* `is_hotmail_b2c` is case-sensitive, `is_hotmail` is not: a host in capitals counts as business Outlook.
* `v0/bulk/get.rs` and `results/mod.rs:80` count rows, not addresses: a task that ran again after it had inserted its
  result completes the job early, and a download then misses an address although `results/mod.rs:63` means to "throw
  an error if the job is still running". This is the exception in `DownloadIsWhole`. `prune_db` selects jobs with
  exactly as many rows as addresses, so a job with a repeated row is never pruned, and it deletes outside the
  transaction it opened (`prune_db.rs:53`).
* `v0/bulk/task.rs:210`: an empty list of ports reaches the branch that the comment calls impossible; such a job has
  no results and never completes (`JobCompletes` therefore asks for a port).

## Fairness

`FairSpec` of `Worker` assumes what the runtime gives: a broken connection is noticed and a supervisor restarts the
process; the loop and the spawned tasks are polled to their end, since every wait in them has a deadline; the broker
hands out a message that stays available (strong fairness: prefetch comes and goes); a message that keeps coming
back finds throttle capacity at some time (strong fairness of `Start`: windows restart). Connections break finitely
often (`MaxLosses`): without that no system of this kind makes progress.

`FairSpec` of `BulkJob` assumes that the page keeps polling and requests are answered; failed requests are bounded.

`FairSpec` of `SmtpCheck` assumes the timers only: the two seconds for QUIT and `smtp_timeout`, which has to be set.
A server may stay silent for ever, so no step that needs its answer is fair.

`FairSpec` of `SingleCheck` assumes that handlers and tasks run on, that the loop takes what it was delivered in the
order it came (strong fairness of `Process` for a caller's task: the loop sleeps for throttled bulk tasks again and
again, but its buffer is first in, first out), that a caller's task is delivered when a place stays free, and that the
broker lets each reply queue have its turn when a place keeps coming free (strong fairness). That single checks go
before bulk tasks is in the guard of `Deliver`. The request's deadline is not assumed to strike: `EveryoneAnswered`
would be worth nothing with it. The throttle may refuse for ever.

`Spec` of `LegacyBulk` assumes that the handler and the tasks are polled and sqlxmq hands out what is due. That
sqlxmq runs one attempt of a task at a time is assumed of that external crate.

## The proofs

All theorems hold for every value of the constants that the named `ASSUME`s allow.

`WorkerProofs`, for any number of workers, messages and tasks, any concurrency and limit, any number of lost
connections:

* `TypeCorrect`, `Ownership` (each action moves a message and the phase of its run together).
* `NoTaskIsLost`: `NoLostTask` is not inductive alone, since that an acknowledgement is harmless has to be known when
  it is sent. The invariant adds `SafeToAck`: in phase "stored" the row exists, in phase "copied" a copy with one
  attempt more than the original is with the broker, stored, or refused. That the copy counts one more is what
  excludes two messages that each count on the other when both are acknowledged. `NothingExcusedWithoutNack`: with a
  broker that refuses nothing, the exception in `NoLostTask` never applies.
* `StorageAttemptsEnd`: a message in the queue was republished fewer than `MAX_STORAGE_ATTEMPTS` times, one in
  `check_email.failed` exactly as often, and none of those is a caller's. A copy is published only through a
  connection that is up, so by the holder of the original (`Ownership`), which had an attempt left.
* `PrefetchNeverJams`: a delivery is never stuck with its process, and a queued message finds a place or a run that
  goes on to make one. A throttled bulk task keeps the loop from what is buffered behind it, and the sleep it keeps
  it for always ends. The theorem says so of states, with the guards of `Loop` and `Work` written out (`RunMoves`),
  as long as the model has a message left for a copy (`Unborn`, a bound of the model).
* `UnknownIsRetriedOnce`: "we requeue the message, but only once" (do_work.rs:174), by whichever process. What a run
  remembers of its delivery is still the broker's flag while its connection is up (`Flagged`), since only the holder
  of a message changes it. It also shows the price: whoever puts a message back, a throttle or a broken connection
  included, uses the one retry up.
* `OneHandAtATime`: until a connection breaks, at most one process has a message of a bulk task that is neither settled
  nor copied, and a task has no more than the original and `MaxStorageAttempts` copies. The invariant (`InTurn`): the
  messages of a task differ in their attempt counts, and all but the last are gone or about to be acknowledged
  (`Passed`), so that a copy, which only the holder of the last can make (`HolderIsLast`), has a new count. Both are
  false after a broken connection: a process that has not noticed works on beside the one
  that got the message next, and an original that was copied but not acknowledged is copied again.
* `TasksAreStoredOnce`: the insert of a task_id that is there is a no-op, whoever does it (`InsertedOnce`).
  `WebhooksComeAfterStore`: a run that is about to notify has its row (`SafeToNotify`).
* `CallersAreAnsweredOnce`: a single-shot task has one message (`OneMessage`), and whoever is about to answer has
  settled it and is alone (`AnswerOnce`): an acknowledgement on a broken connection leads to no reply.
* `LedgerIsKept`: the refinement of `TaskLedger`. Publishing, storing, refusing and parking are the ledger's actions,
  everything else stutters: a message that is parked stays so, and none is parked but a copy at its birth
  (`ShapeParked`). The invariant adds that a message that was never published has no task (`Blank`), so that a task
  is accepted by being published and by nothing else.

`ThrottleProofs`, for any number of windows, lengths and limits: `BurstsAreBounded`, `RefusalsAreDeserved`,
`DelaysAreNeeded`. The invariant says where the admissions lie: the counted ones after the window's start, the
others before it, and those with a whole limit's worth of others between them and the window a full length before
it; the last is what bounds a burst over two windows.

`BulkProofs`, for any number of addresses, concurrent publishes, failed requests and rows per page:

* `AnswersAreKept` (what the handler may confirm is exactly what the broker took over) and `RowsAreOrdered` (ids are
  given out once, so pages have an order).
* `StoppedPageIsWhole`, `PageShowsWhatIsStored`, `DownloadsFitTogether`, from one invariant (`PageInv`). Rows are only
  added. Whatever was counted stays a lower bound, and while it is still the number of rows it stands for the very
  same rows: a page that a row with a smaller id could have shifted is not one whose count is still right. The
  n-th row is the one with n - 1 rows before it (`Rows`), which makes a page a statement on numbers of rows instead
  of on the outcome of sorting.
* `CutShortNeverCompletes`: the job of a submission that failed half-way keeps running for ever, is never given to the
  page and never downloaded (`CutShortStays`: nothing publishes the missing tasks later). The caller
  was told of an error; the tasks published before it are verified all the same.
* `StoppedIsFinal`: once the page has stopped, it shows all rows, and nothing happens to it any more. This is
  `PageFinishes` without fairness: what needs fairness is only that the page gets there.
* `ShownStaysShown`: no row leaves the screen while the page reloads its list. The invariant (`OnScreen`) follows a
  round: a row's place among the ids only grows as others appear (`PlacesRise`), so a row that the last round
  showed is either loaded by now or still ahead of what is being loaded (`RoundsGoOn`).
* `TasksFollowTheLedger`: whatever handler, page and download do, the tasks only move as `TaskLedger` allows.
  `LedgerIsKept` is the other half: the worker moves them no differently.

`SingleProofs`, for any number of callers, bulk tasks and slots, any prefetch limit: `AnswersAreStored` (a reply
that says "ok" is backed by a row or a failed store, wherever it is: `Backed`) and `RunsAreCounted` (an admitted
handler has a reservation: `Reserved`). `NobodyWaitsInVain`: whoever waits for a slot, a worker or a reply can
have it, or somebody who holds a slot or a delivery is able to give it back, or every place under the prefetch limit
is lost with a handler that gave up. The invariant (`Pursued`) follows the task and the reply of a waiting handler: one
of them is always on its way, never both, and a reply under the prefetch limit belongs to a handler that is about to
take it, or is lost. `LostPlacesStayLost`: no step gives a lost place back, so the exception is one for good.

`SmtpProofs`, for any number of hosts and attempts, any hosts with the rule and any set of replies: `TypeCorrect`,
`VerdictsHaveEvidence`, `NoHostAfterAReply`, `CacheGetsCatchAllsOnly` and `RecipientHasItsSession`. The invariant
says where an attempt is (`Stepping`: the last record is of this attempt, the connection's number follows from the
stage), that the result waiting for QUIT is what the last record holds (`Evidence`), that hosts are in order with
replies from the present one only (`InOrder`, which needs `Stepping`, since replies are written into the last
record), and that the flag on the rule comes from a host tried so far (`SkippedByRule`). On top of it,
`ProbesAreExplained`, `SafeIsProbed` and `RetriesAreExhausted` follow how the list of records grows: a step changes
the answer in the last record only (`Keeps`) or adds one, so what earlier records say stays said (`RecordInv`).

* `ChecksOnlyAdvance`: each step ends the check, goes on to a later host, uses up an attempt, or comes further
  within one, which has no more than twenty positions. It is the part of `Terminates` that needs no fairness: no
  server can keep a check busy for ever, it can only stay silent.
* `OneReportPerCheck`: the check implements `Conversation`. All steps but the last stutter; the last turns its result
  into flags that `Found` allows (`DetailsFacts`), and remembers a domain with a catch-all and with nothing else.
* `ComplaintsNeverDecide` and `ProbesAlwaysAgree`, of `RcptProbe`: the run covers all replies of the model, the
  theorems say why. A complaint about the sender is looked for before any code is believed (`SenderBlamed`); one about
  our IP takes the code's weight away, and without a wording about the mailbox nothing else makes a verdict
  (`IpBlamed`, with the exception of 5.1.1 above); and whatever makes the made-up address undeliverable rejects the
  recipient too (`RejectionHoldsForBoth`). `NoFindingRestsOnComplaints` carries the first two into conversations: no
  result of any host, attempt or stage rests on such a reply.

`CheckEmailProofs`, for any configurations, requests, domains and DNS answers, of a conversation with any of the
findings `OneReportPerCheck` leaves it (`FlagAssumption`): `CacheStaysBounded` and
`CacheAnswersWell` (each fresh answer of the cache has its conversation in the history: `Witnessed`), `AccountsStayConfined`
(who asked for what stays with the check: `Entitled`; `ToInput` confines an account's methods), `RequestProxyWins`,
which rests on the lemma `ProxyWins` on `ToInput` and `GetProxy` alone. `ValidatedProxiesAreUsed` says how far the
finding of `checkemail_proxies` goes: a configuration that loads never loses the proxy of a provider that
`validate_proxies` looks at, whatever a request overrides; only Mimecast and Proofpoint are open. It assumes that a
defined proxy is an address and not the model's `None` (`ConfigAssumption`).

`AccountsProofs`, for any number of requests, users, old sessions and connections: `NoStaleSession`,
`SessionsStayBounded`, `CodesAreGoodOnce`, `AttemptsStayBounded`. The invariant: the row lock is exclusive and what a transaction read under
it is still the row (`Locking`); the session a transaction goes on with is its user's and of today's password
(`Snapshot`, which the second look after the lock establishes and the lock then protects); tokens of sessions are of
requests that are done (`Tokens`); and what was spent cannot be presented again (`Fresh`: spent steps are not after
the last one of their secret, spent recovery codes are no longer in the row, and both are of secrets and batches
that exist or never come back). `NobodySkipsTheFactor` (`SecondFactor`): each full session of a user with an
authenticator has a spent code that names it, except the one that set the authenticator up; that tokens are given
out once (`OneSession`) makes the code its own, and a change of the authenticator keeps only the session that proved it
(`RevokedFactor`). For the rate limit it is `Billed`: nobody is charged to a window still to come, and no
more requests to the present one than its counter says. `SomeoneCanGoOn` is `NoStandstill` without ENABLED: while
transactions are open, one of them has its guards met and its choices available (`CanGoOn`), or there is a ring of
session rows. Who waits for a user's row waits for a holder that has its row and its connection and waits, if at all,
for a session row (`HolderGoesOn`, `WaiterGoesOn`); who has deleted a session is in the middle of its writes (`Taking`),
so if nobody goes on, each of those waits for another of them. In particular the sessions to keep can always be
chosen (`NewestExist`), of any finite set of sessions.

`LegacyProofs`, for any addresses, attempts and ports: `RowsStayBounded` (a running attempt makes up for the result
it will insert: `Counted`), `UnknownsTriedAll`, `DownloadsAreWhole` (what was counted stays, unless it is pruned, and
as many rows as addresses leave none out unless another has two: `TwiceOrWhole`).
`JobsGoOn`: an answered job that lists a port has its rows or a task that can go on, unless a task is out of attempts or
`prune_db` came. A task that is through has left its row (`Through`), and a row for each address makes as many rows as
the status asks for (`EnoughRows`). `PortlessJobsNeverComplete` is the other side: without a port no row is ever written.

Liveness, and whatever says ENABLED, is out of the prover's reach, and only model-checked: `LedgerProgress`,
`QueueDrains`, `PageFinishes`, `EveryoneAnswered`, `Terminates`, `JobCompletes` and `NoStandstill`. Behind five of them
stands a theorem on the states alone: `PrefetchNeverJams`, `NobodyWaitsInVain`, `ChecksOnlyAdvance`, `JobsGoOn` and
`SomeoneCanGoOn`. Where such a theorem writes out the guards of an action, TLC has found them equal to ENABLED of that
action in every state of the instance its module's run explores. All other invariants of the runs are proved, and so
are their action properties and `LedgerSafe`, the refinement.

## Plan

Done: worker and ledger; throttle; bulk job; SMTP check and the classification of replies; single checks; routing,
pipeline and cache; accounts; legacy bulk jobs; their invariants proved, the refinements of the ledger (by the worker
and by the bulk job) and of the conversation, and what is left of standstill in worker, single checks, accounts and
legacy jobs.

Open: how often a bulk task is verified in all once connections break. `OneHandAtATime` bounds its messages while they
hold, `StorageAttemptsEnd` every chain of copies always, and `UnknownIsRetriedOnce` the retries of a message; how many
chains a broken connection starts would need a count of the deliveries it drops. And that the page, the queue and the
checks get where they should stays with TLC, being liveness.

## Not modelled

* The Lambda handler: one sequence of calls per message - check, notify, store - without state. Concurrency, retry and
  redelivery are in AWS. It stores without a task_id, so a redelivered message is stored again; that case of the
  insert is `Untagged` in `Worker`.
* Scripts against provider pages, the breach look-up, the self check, the command line, output formats, health and
  version endpoints, logging: data or I/O without state of their own. What a browser script finds is an input of
  `CheckEmail`.
* DNS itself, word lists, syntax and typo suggestions: inputs of `CheckEmail`. Where a configuration comes from, and
  that its numbers are positive. The wording of messages, except for what `parser.rs` looks for.
* Hashing, encryption, cookies, origin checks and the read-only endpoints of accounts; the ownership check and the
  request limits of bulk jobs.
* The trial upload does not affect a queued task's outcome; in a direct check it can fail the request (`Uploaded`).
  Retries inside one webhook delivery are one step. Message priorities are left out of `Worker`: any queued message
  may be delivered next, which includes the order priorities give; `SingleCheck` has them.
