# A TLA+ development of workloadagentplatform

The repository is a set of Go libraries (`src/sharedlibraries`) from which Google Cloud
workload agents are built, and an example agent (`src/integration`). The libraries keep
little persistent state; what is hard in them is concurrency: goroutines that outlive the
call that started them, locks that expire, retries that race with success, sends that fail
halfway through a protocol. This directory models those parts, checks them with TLC and
proves the central ones with TLAPS.

## 1. Inventory

| Component | State | Operations | Interacts with | What is hard |
|---|---|---|---|---|
| **guest actions** `sharedlibraries/guestactions` | the lock table `locker.locks` (key to expiry), the options | `Start`, `connectionHandler`, `acquireLocksForRequest`, `executeAndSendDone` | `communication.Listen` calls the handler for each message; a goroutine per request; `recovery` restarts `Start` after a panic | locks that expire under a busy holder, release by key, a failed send between acquire and release, a new locker while old goroutines run |
| **communication** `sharedlibraries/communication` | the connection, the backoff, `lastErr` | `Listen`, `SendStatusMessage`, `Communicate` | ACS; guest actions | reconnection, errors during the answer, a backoff that ignores the context |
| **uap** `sharedlibraries/uap` | as `Communicate` | `Communicate` | the same service, older code | as `Communicate` |
| **recovery** `sharedlibraries/recovery` | `lastRestart`, the backoff | `StartRoutine` | every long-lived goroutine of an agent; the usage logger | which panics reset the backoff, when restarts stop for good |
| **storage: multipart upload** `storage/multipart.go` | writer, workers with buffers, `parts`, `uploadErr`, the session in GCS | `NewMultipartWriter`, `Write`, `Close`, `uploadPartAsync` | `Upload`; the XML API of GCS | parts that end in any order, a part that fails late, retries of a shared buffer, a lost answer to the completing request |
| **storage: parallel reader** `storage/parallelreader.go` | workers with buffers, `objectOffset`, `currentWorkerID` | `Read`, `assignWorkersChunk`, `fillWorkerBuffer`, `Close` | `Download`; range readers of GCS | delivering concurrent chunks in order, waiting for the right worker, cancellation |
| **storage** `storage/storage.go` | `numRetries` and the counters of one `ReadWriter` | `Upload`, `Download`, `retryOptions`, `defaultArgs`, `ConnectToBucket`, `ListObjects`, `DeleteObject`, `rateLimit` | the two above; the storage client calls back into `retryOptions` | one retry counter for all goroutines and all transfers |
| **metric events** `metricevents` | two maps of events, a timer per group | `AddEvent`, its delayed log | the log | the timer's callback against later events; labels shared with callers |
| **configurable metrics** `configurablemetrics` | none | `CollectMetricsFromFile`, `Evaluate` | files, command output | the random order in which metrics compete for a line |
| **cloud monitoring, time series** | the batch in hand, the counts, the retry policy | `SendTimeSeries`, `sendBatch`, `pruneBatch`, `CreateTimeSeriesWithRetry` | the monitoring API | batches of which some fail; pruning of duplicates |
| **usage metrics** (library and integration) | `lastCalled`, `dailyLogRunningStarted` | `LogStatus`, `LogRunningDaily` | recovery, daemon | a send that fails and is recorded as done; a check and a set that are two steps |
| **example daemon** `integration/example` | configuration, services, loggers | `Execute`, `daemonHandler`, `waitForShutdown` | recovery, usage metrics, log | errors dropped on the way out, requests without a timeout, `os.Exit` before the flush |
| **gce, metadata server** | a cached client; a cached universe domain | waits for disks and snapshots, attach, detach, fetches with retries | the compute API | an operation that ends with an error while it is polled |
| **permissions, iam, log** | caches of clients and loggers | checks of permissions, `SetupLogging`, `CtxLogger` | all of the above | a cached logger outlives its parent |
| command line executor, file system, status helper, parameter manager, secret, rest, osinfo, vmid, zipper, wlm, one-time commands, protocol buffers | none that survives a call | wrappers over one call, parsers, generated code | | nothing a model would add to |

What makes each of the modelled ones correct:

* guest actions: an operation works on its keys alone; every lock is given back, on every
  path; a lock goes only with its owner; the service learns "running" before "done", and
  what it learns is what happened; every delivered operation ends.
* multipart upload: the object is the written bytes or does not exist; a worker is in one
  pair of hands and comes back; a part that failed fails the upload; `Upload` returns.
* parallel reader: bytes come out in order; success means all of them; `Read` waits only
  for a worker that is coming; all goroutines end.
* retries: a goroutine that has the `ReadWriter` to itself retries no API call more than
  `MaxRetries` times, and no call of its transfer inherits the count of another.
* communication: no answer to an operation is lost without an error; the loop ends with its
  context and otherwise comes back to a connection that works.
* recovery: a routine that panics is started again unless it is in a crash loop.
* metric events: every change of a value is logged once, with the labels it had.
* time series: what is counted as sent was written, in the order of the slice for each key.
* configurable metrics: the random order of a map decides between metrics and nothing else.
* example daemon: panics are reported, STARTED comes first, a signal cancels the services and
  ends the agent, and what the main goroutine logged on the way leaves the machine.

The hazards list in `PROJECT.json` gives the lines where each of these could go wrong, and the
reason where no property covers one.

## 2. Plan

Order of work, most important behaviour first:

1. *Done.* `GuestActions` with its abstract specification and proofs; `MultipartUpload`
   with its abstract specification and proofs, the refinement included; `ParallelDownload`
   and its proofs; `RetryBudget` and its proofs.
2. *Done.* `Communicate` and its proofs; `Recovery`, and `Daemon` which composes the agent
   with it; `MetricEvents` with its abstract specification `ChangeLog` and the proof of the
   refinement; `TimeSeriesBatches` and its proofs; `EvalMetrics`.
3. *Done.* The refinement `ImplementsExclusiveOperations`, which needs the clock of
   `PunctualGuestActions` in the invariant; proofs about `EvalMetrics`; the download for any
   claimed size; the safety part of the shutdown.
4. *Left.* A composition of `GuestActions` with `Daemon`, if an agent in the repository
   ever runs both (none does).

## 3. Modules

| Module | Models | Notes |
|---|---|---|
| `GuestActions` | guestactions.go, with `Listen` and `SendStatusMessage` of communication.go and the restart of recovery_handler.go | one listener goroutine, one goroutine per operation, the clock |
| `PunctualGuestActions` | the same, in an environment where a command ends within the timeout it asked for | a history variable `began` constrains the clock, nothing else |
| `ExclusiveOperations` | what the dispatcher promises | abstract; refined by `PunctualGuestActions` |
| `MultipartUpload` | multipart.go and the part of `Upload` that drives it | |
| `AtomicUpload` | what `Upload` promises | abstract; refined by `MultipartUpload` |
| `ParallelDownload` | parallelreader.go and the part of `Download` that drives it | |
| `RetryBudget` | `numRetries` of storage.go: `retryOptions`, `defaultArgs`, the order of calls in `Upload` and `Download` | |
| `Communicate` | `Communicate` of communication.go, and its older copy in uap.go | one goroutine, a connection, a service that delivers again |
| `Recovery` | recovery_handler.go | extended by `Daemon` |
| `Daemon` | main.go, daemon.go, configuration.go and usagemetrics.go of the example agent | all of its goroutines, under `Recovery` |
| `MetricEvents` | metricevents.go | with the Go maps that events and groups hold |
| `ChangeLog` | what metricevents promises | abstract; refined by `MetricEvents` |
| `TimeSeriesBatches` | `SendTimeSeries` of cloudmonitoring.go and what it calls | |
| `EvalMetrics` | `CollectEvalMetricsFromFile` of configurablemetrics.go | |
| `*Proofs` | theorems about the module of that name; `GuestActionsProofs` has those about `PunctualGuestActions` too, `DaemonProofs` those about `Recovery`, and `MetricsProofs` those about `EvalMetrics` and `TimeSeriesBatches` | |
| `MC*` | values for TLC | |

Each module ends with its properties. An operator marked *Slip* states a plausible mistake
in the definition that follows it; no specification uses it, and TLC is run with it in the
place of that definition to see that a property notices.

### GuestActions

`listener` is the program counter of the goroutine in `Start`: `starting` (before the
locker is made), `checking` (the `select` of `Listen`), `receiving`, `replying` (inside the
handler, about to send a status), `stopped`. `phase[o]` is the life of one delivered
request: `refused` and `locked` are inside the handler, before its send; `executing`,
`reporting` and `releasing` are the goroutine of `executeAndSendDone` in `processCommands`,
before `SendStatusMessage` and before its deferred release. `locks` is the map of the
current locker, expiry 0 for an absent key. `epoch` counts the lockers that `Start` made;
`era[o]` says from which of them o took its locks, since goroutines of an earlier `Start`
release into the locker they captured. `acquire` holds the mutex throughout and is one step,
as is `release`. `lease` and `lapsed` are history: what an operation was granted, and the
keys on which a lock was replaced after its expiry.

A request is a sequence of commands; `MixedRequests` holds one key twice with different
timeouts, two keys, the default timeout, a negative timeout, no key, a command without a
handler and an empty request. The result of a command is any outcome; a command without a
handler fails. Messages without labels or operation_id, and bodies that do not parse, are
one action, since `Listen` returns on each of them.

### MultipartUpload

`at` is the program counter of `Upload`: opening the session, copying, inside `Write`,
inside `Close`, completing, updating metadata, verifying. Data is counted in units, and a
buffer or a part is the interval of the written stream it holds, so a wrong, missing or
repeated byte is visible in `object`. `sending[w]` is the part number the goroutine of
worker w uploads. The channel `idleWorkers` is a set, because which worker comes next makes
no difference that a worker's identity could not. `Write` reads `uploadErr` without its
lock: it may see an older value, unless it just received from the channel the very worker
that set it (`MustSeeError`). An abort may fail, a completion may be carried out and its
answer lost.

### ParallelDownload

The goroutine of `Download` is `copying`, `waiting` on the channel, or `returned`; each
worker's goroutine is opening a range, reading it, or done. The object is the sequence of
its units' positions, so `delivered` shows any disorder. `EOFWithData` lets a range reader
return its last data together with `io.EOF`, as the contract of `io.Reader` allows.

### RetryBudget

The storage client calls the error function after each attempt, successful ones included.
`numRetries++` is a load, a store, and the comparison after it a further read, which may be
served from the stored value. `team` is the set of goroutines of the present transfer;
goroutines of one that ended may still be in a call until its context's end reaches them.
`alone` is history: the transfer began with one goroutine and no other was still in a call,
which is the condition under which the counter means what its comment says.

### Communicate

`at` is the program counter of the loop: `connecting` is the first loop, which does not
leave without a connection, `checking` the look at the context at the head of the second,
`receiving` the call of `Receive`, `handling` the call of the message handler and the send
of its result. `Reconnect` is a receive that failed or gave a message without labels: the
wait of the backoff, one attempt to connect, and on with whatever that gave, which is `"nil"`
when it failed. A receive from a nil connection fails or panics, since what it does belongs
to the client library. `received` and `answered` are the service's side. The backoff is the
number of doublings of its interval.

### Recovery

A routine is `idle`, `running`, `panicked`, `reporting`, `waiting` for its next start, `ended`
or `abandoned`. The deferred function of `StartRoutine` is two steps and what follows it a
third: `Panic` resets the policy if the run lasted `ExpectedMinDuration`, `ReportPanic` makes
the request that tells of the panic, and `AskPolicy` is the call of `NextBackOff` once that
request has returned. The time between them is anybody's, and it counts towards the limit of
the policy: `elapsed` runs in all of these phases. `Backoff` gives a wait between half the
interval and one and a half of it, or stops when the time since the last reset and the wait
together pass the limit. Time is counted as far as a comparison can tell it apart, so the sums
saturate.

### Daemon

`at` is the program counter of the main goroutine from `main` to `exited` (or `crashed`, at
the type assertion on an empty configuration, or `killed`, by a signal before
`signal.Notify`). What waits for the network has a place of its own: `reportingStarted` and
`reportingStopped` are inside the request of `LogStatus`, `closing` inside the `Close` that
`daemonHandler` defers, and `closed` lies between that and `os.Exit`. All other goroutines go
on in each of them.

The services are the routines of `Recovery`; `ServicePanics`, `ServiceReports` and
`ServiceWaits` are its three steps. `copied` says whether the copy of the usage logger that a
service was given had its properties, which is what makes its reports leave the machine.
Requests are counted when they are made (`reports`); nobody reads the answers, but whoever
reports waits for one. `unreported` is the set of services that panicked and have made no
request for it since.

`client`, `logsToCloud` and `unsent` are the clients of Cloud Logging, whether the logger writes
to the present one, and which have lines *of the main goroutine* in their buffer. Lines of
services, of their recovery and of `LogRunningDaily` are left out on purpose: these goroutines
are stopped by nobody and may log between `Close` and `os.Exit`, so the code promises nothing
about them, and `ShutdownIsLogged` says nothing about them either.

### MetricEvents

`AddEvent` and the callback of a group's timer each hold the mutex and are one step. A Go map
is a reference, so the model has a heap: `content` says what is in each map, `events` and
`logDelayEvents` say which map each event and each open group holds, and `JoinGroup` writes
into the map of the group, which was the map of an earlier caller. A map that nothing holds
is free for the next call. `FreshMaps = FALSE` lets a caller pass the map of its last event
again. A caller may pass no map, an empty one or a filled one.

### TimeSeriesBatches

A time series is its place in the slice. `first` and `next` delimit the batch that is being
collected or sent; `Pruned` is what `pruneBatch` leaves of it. `calling` is a request under
way, `waiting` the wait of the retry policy. A request that fails may have written any part of
its batch (`written` is what the API has), and one whose key occurs twice fails as a whole.

### EvalMetrics

`evaluating` is the range over the map of the metrics that are not collected yet, which
visits them in any order (`seen`). A metric that does not hold is passed over (`PassOver`), the
first that holds takes the line (`Take`). Which evaluations hold on which line is an input; a
value is the evaluation and the line that it comes from.

## 4. Runs

| Run | Question | Bounds |
|---|---|---|
| `guest_actions` | All properties of the dispatcher: types, leaks, exclusion, ownership, reports, termination | 2 operations, 2 keys, 4 requests, clock up to 2, 1 restart; timeouts are 1 and 2, so a lock can expire under its holder and be taken over |
| `guest_actions_stolen_lock` | *violated:* do two operations never share a key whose lock neither outlived? | 3 operations are the least: one outlives its lock, one takes over, one comes in after the release |
| `guest_actions_lost_done` | *violated:* is "running" always followed by "done"? | 1 operation |
| `punctual_exclusive` | Do the locks give exclusive use when commands are punctual? | 3 operations, 2 keys, single commands with timeouts 2, 1 and the default (which is 2), clock up to 3 |
| `multipart_upload` | All properties of the upload | 3 workers, parts of 2 units, 9 units (5 parts: more than workers, the last one short), writes of 1, 2, 3 and 5 units (shorter, equal, across and longer than a part), 2 retries |
| `parallel_download` | All properties of the download | 3 workers, chunks of 2 units, an object of 9 (each worker is used again, the last chunk is short), reads of 1 and 3 |
| `retries` | Is the budget right for a goroutine that has the `ReadWriter` to itself, and do failing calls of racing goroutines end? | 2 goroutines, every kind of transfer in any sequence, `MaxRetries` 2, up to 4 left in the counter by a transfer before |
| `communicate` | Is no answer lost without a trace, does the loop end with its context, does it come back to a good connection? | 2 operations, each delivered twice at most, an interval that doubles twice |
| `metric_events` | Is every change logged once with its labels, although maps are shared? | 2 identifiers of one path, 2 values, no map, an empty map or a map with one label, 5 maps: every event and every group may hold one, and one is left for a call |
| `daemon` | The agent from main to exit: reports, shutdown, services under recovery | 2 services, one of which must run for 2 ticks and one for none; waits of 1 and 2 and a limit of 2, so that the policy can stop on its first wait after a long report, on a later one, or not; reports counted up to 2 where a second one would be wrong and to 1 elsewhere |
| `metrics` | What does the random order of the map decide? Is what counts as sent written, and in order? | 2 metrics of up to 2 evaluations, up to 3 lines: one for each metric and one that is left over; or up to 5 series of 2 keys, batches of 2 (three batches, the last one short), 2 retries |
| `eval_metrics_shared_line` | *violated:* is every metric set that a line satisfies? | 1 line, 2 metrics of one evaluation |

What the violated runs show is told in `findings` of `PROJECT.json`: `release` deletes by
key and so may free a successor's lock; a final status that cannot be sent is lost; and a line
that satisfies two metrics sets the one that the map gives first, although the doc of
`CollectEvalMetricsFromFile` (configurablemetrics.go:90-92) speaks of "one or more of the
metrics" whose value will be set. The comment inside the function (line 126) assumes that there
is one at most, and the two properties of the run `metrics` say what holds without and with
that assumption.

The run `metrics` has two modules side by side (`MCMetrics`), as `MetricsProofs` has: they share
nothing, and each behaviour is one of either.

Deadlock is not checked (`CHECK_DEADLOCK FALSE`) where the system ends: an upload or
download that returned, a dispatcher that stopped with no operation left. The other modules
either never end or say with an action of their own where they have (`Ended`, `Gone`,
`Returned`), and their runs check for deadlock everywhere else. The bounds that are not the
code's are `MaxTime`, `MaxRestarts`, `SourceSize`, `MaxCount`, `MaxReports`,
`MaxDeliveries`, `MaxSeries`, `MaxLines`, `MaxEvals` and, in `TimeSeriesBatches`, `MaxRetries`;
each stands in a guard, a saturating count or the choice of an input.

**Fairness.** Weak fairness on goroutines, never on the environment.

* `GuestActions`: handlers return and sends end with one outcome or the other; nothing
  obliges the service to send a message, the clock to move, or a panic to happen.
* `MultipartUpload`, `ParallelDownload`: an HTTP request ends (the client has timeouts) and
  the runtime schedules goroutines; that the source is finite is the bound `SourceSize`.
* `RetryBudget`: a goroutine inside an API call goes on, and nothing says that a call
  succeeds; `FailingCallsEnd` is about the runs in which from some time on no success resets
  the counter.
* `Communicate`: connecting, the look at the context and the send of an answer go on, and a
  receive returns once its connection is not open. A receive on an open connection may wait
  for ever. `EveryOperationIsReceived` asks more of the service, which is why that is a
  premise of the property (`ServiceComesBack`) and not part of the specification.
* `MetricEvents`: timers run; nothing obliges anybody to add events.
* `Daemon`: the main goroutine takes the steps for which it waits for nobody (`Alone`). The steps
  that wait for the network, `Answered`, have no fairness: the ping of a new client, the STARTED
  and the STOPPED request and the flush of `Close` may take for ever, since the HTTP client of
  usagemetrics.go:246-253 has no timeout and the 5 second deadline of main.go:122-125 guards a
  flush that never runs. So `SignalEndsDaemon` says two things: a signal cancels the services,
  without any condition; and it ends the agent, with STOPPED reported, *if* the requests of the
  shutdown come back (`NetworkAnswers`, a premise). Nothing is asked of services or of time.
* `TimeSeriesBatches`, `EvalMetrics`: safety only.

### Observations without a run

Changing a constant or the environment shows some more of the code:

* Two punctual commands on one key in one request outlive the lock: `lockTimeout` takes the
  longest of their timeouts, and they run one after the other (give `PunctualExclusive.cfg` a
  request of two commands on one key, such as the first of `MixedRequests` in `MCGuestActions`).
* A parallel download whose `TotalBytes` is zero succeeds and delivers nothing, since the
  reader takes `TotalBytes` as the size of the object; the comment at storage.go:107 names
  only the log of the progress as a consequence. With `TotalBytes` a little larger than the
  object and a last chunk that starts within the object and ends between the two, `Read`
  waits for a worker that nobody set to work. Try 0 and 10 in `Download.cfg`.
* With `EOFWithData = TRUE`, which the contract of `io.Reader` allows, the data that comes
  with `io.EOF` is not counted, and bytes are missing from the middle of a download.
* The workers of a parallel download share one retry counter without a lock, so that one
  of them may retry more often than `MaxRetries`, or less often. A `ReadWriter` that is used
  again after a transfer that gave up gives up at once in the `NewReader` of the next one.
* `Communicate` looks at its context only in its second loop: without a connection the first
  one goes on for ever. It never closes a connection that it replaces, and it may receive
  from a nil connection, which depends on the client library not to panic.
* metricevents.go:147 writes the labels of the event after the change under the name
  `previousLabels`, and those of the events that were replaced under `currentLabels`. The entry
  of the model is the latter field.
* A caller of `AddEvent` that passes one map twice (`FreshMaps = FALSE`) gives the group and the
  event the same map, and the refinement fails. A write into the labels of a group opened by an
  event without labels panics.
* A configuration that cannot be read is reported to a usage logger that has no properties
  yet and says nothing, and the process exits with 0. An empty one panics at daemon.go:137.
* The flush that `main` defers "to ensure execution on any exit from main" (main.go:119) never
  runs, because `os.Exit` follows it at line 132. After a shutdown the `Close` of `daemonHandler`
  stands in for it. On the exit of a configuration that cannot be read nothing does, and the line
  that says why is lost if logs go to the cloud: `at = "exited" => client \notin unsent`,
  `ShutdownIsLogged` without its premise `cancelled`, is violated at once.
* A configuration that names its own project, or does not log to the cloud, leaves what was
  logged before in the buffer of the client that `main` made. In the first case nobody closes it.
* A STOPPED request that is never answered keeps the agent from exiting, and so does a `Close`
  whose flush hangs: neither has a deadline. Further signals change nothing, since `Notify` has
  taken them and nobody reads `shutdownch` again.
* The report of a panic is made inside the attempt that `backoff.Retry` makes, so its time counts
  for the policy: a request that hangs for the limit (15 minutes) makes the policy abandon a
  routine that had run properly until then, whatever its `ExpectedMinDuration`.
* Services and `LogRunningDaily` are not waited for. What they log around `Close` may be lost.
* `NewParallelReader` drops the error of `ConnectToBucket` (parallelreader.go:70): when it fails
  the nil bucket panics at line 71, before the download has started anything.
* A routine whose `ExpectedMinDuration` is zero, as it is for both services of the example,
  resets its policy with every panic and is never given up but for such a report.
* A metric of which no line holds has the value of the last `if_false` it was evaluated with,
  or the empty string when others took all lines first. An error of the scanner ends the
  collection with what there is, and without an error.
* `rateLimit` sleeps for a second less the time of the transfer, which is negative after a
  slow one; only the rate depends on it.

## 5. Proofs

`GuestActionsProofs` proves, for any sets of operations and keys, any requests, any bound on
the clock and any number of restarts, from `ConstantsAssumption` alone (the timeouts fit
`time.Duration`, the default is positive, a request is a sequence of commands):

* `TypeCorrect`: `[]TypeOK`. It needs that the longest timeout of a key is a positive number
  (`LongestTimeoutType`), which rests on `MaxOfBounded`: the `CHOOSE` of `Max` finds a
  maximum of a nonempty bounded set of naturals, by the least upper bound that well-founded
  induction on the naturals gives.
* `LocksAgree`: the inductive invariant `LockInv`. `MutualExclusion` is not inductive:
  `acquire` decides by the table, and nothing in `MutualExclusion` ties the table to the
  operations. `LockInv` adds that what an operation holds on a key that never lapsed is the
  entry of the table (`HoldsItsEntry`), that every entry has an owner (`NoLeakedLock`), and
  that no operation belongs to a later locker than the current one (`ErasPast`), without
  which a restart could turn old leases into current ones. The step has one lemma for each
  way the locks change: granted, released, left alone, replaced by a new locker.
* `Exclusion` and `NoLeak` are conjuncts of it. `OwnersRelease` proves the action property
  `OnlyOwnerReleases` from the same invariant: `release` deletes by key, but on a key that
  never lapsed the key has one holder.
* `Reports`: `[]ReportsFollowExecution`, from the invariant `ReportInv`, which says for each
  phase which reports and how many finished commands it may come with.

About `PunctualGuestActions` it proves, under two more assumptions, `OneCommand` (a request
has one command at most) and `OneStart` (`MaxRestarts = 0`):

* `PunctualOperations`: the inductive invariant `PunctualInv` on top of the two above. An
  operation is `OnSchedule`: each of its leases ends the timeout of its command after the last
  moment at which the command can have been started, and the clock has not reached it. So no
  lock is ever taken over (`lapsed = {}`), and since every entry of the table has an owner,
  `acquire` never finds an expired one.
* `PunctualExclusion`: `UnexpiredLocksExclude`, the property that the run
  `guest_actions_stolen_lock` violates, holds of punctual operations.
* `PunctualImplements`: the refinement `ImplementsExclusiveOperations`. Granted locks map to
  `Begin`, the announcement and the final status to `Announce` and `Conclude`, the release to
  `End`, a refusal and the send that follows it to `TurnAway` and stutters. Each case shows that
  what the abstract state says of all other operations stays as it is (`OnlyStageOf` and its
  kin). The guard of `Begin`, that nobody uses the keys, is where `PunctualInv` is needed:
  `Busy` looks at entries that have not expired, and here all entries are such.

The environment of `PunctualGuestActions` lets no time pass between the end of a command and
the release, the send of the final status included: a send that takes long uses up the lock as a
command does.

Both assumptions are needed. The commands of one request run one after the other, but all of its
locks are taken before the first: the second one may outlive its lock though each keeps to its
timeout. After a restart the listener has a new locker, empty while old goroutines still run.

`MultipartUploadProofs` proves, from `UploadAssumption` (at least one worker, a positive part
size), for any number of workers, any source and any lengths of the `Write` calls:

* `WorkersAgree`: the inductive invariant `WorkInv`, whose conjuncts give `TypeCorrect`,
  `Exclusive` and `NotLost`. Exclusion alone is not inductive: that `Write` never fills a
  worker that gave up rests on the error being set before the worker goes back to the
  channel, which is the third conjunct, and that no part number is sent twice rests on all
  numbers in use being below `partNum`.
* `RetriesKeepData`: `RetriesSendTheSameData`, since the worker `Write` takes has no goroutine.
* `FailedPart`: `FailedPartFailsUpload`, from `OutcomeInv`: when `Close` asks for the object no
  error is set and no goroutine is left that could set one.
* `ObjectIsWhole`: `ObjectIsWhatWasWritten`, from `DataInv`. `HeldInv` says what the current
  worker holds, the units that follow the parts already sent; `PiecesInv` says that the
  confirmed parts and those under way are the pieces 1 to `Last` of the stream, piece p
  starting at (p - 1) * PartSize, and that none is missing unless one was given up. At
  completion none is under way and none was given up, so `DOMAIN parts` is `1 .. Last` and
  the listed parts are the stream.
* `UploadIsAtomic`: the refinement. With the invariants above the object is never `"broken"`,
  so `Complete` maps to `Store` or `Fail`, the return from `UpdateMetadata` or `Verify` to
  `Succeed` or `Fail`, every earlier return to `Fail`, and all other steps to stutters.

`ParallelDownloadProofs` proves, for any number of workers, any sizes and any claim of the
caller:

* `TypeCorrect`: `TypeOK`, with `ChunkInv`, that the offset in a buffer and the bytes left of it
  make up a chunk. It has no assumption.
* `TurnsAgree`: the inductive invariant `DownloadInv`, for range readers that return their data
  before `io.EOF` (`DataBeforeEOF`). That the bytes so far are in order (`OrderInv`) says nothing
  about the next ones: `TurnInv` says that from the first `Read` on the worker whose turn comes
  after t others has the chunk t parts after the one being copied, or no chunk if that lies
  past the claimed end, as long as the copying has not reached the end of the object. `BufferInv`
  says that a buffer is filled, or waits, or is copied from, and holds its whole range when it is
  filled. In the step that uses up a chunk every turn comes one earlier and the copied chunk moves
  on by one part; a chunk that is shorter than a part is the last one, after which no slot is
  within the object.
* `Ordered` (`ProperlyOrdered`) and `BuffersExclusive` (no buffer is copied from while it is
  filled) follow.
* `Whole` (`SuccessIsWhole`) also needs that `TotalBytes` is not less than the size of the object,
  and `InTurn` (`WorkersServeInTurn`) that it is not more (`NoOverclaim`).

The observations above show that each of these assumptions is needed: they are what the caller
and the range reader have to do for the code to work, and the code checks none of them.

`RetryBudgetProofs` proves `Bounded` and `Fresh` for every kind of transfer and any goroutines.
The invariant `BudgetInv` speaks of the states in which a goroutine has the `ReadWriter` to
itself (`alone`) and relates the shared counter to the failures of its call at each place the
call can be (`CountAgrees`): in `"opening"`, before `defaultArgs` resets it, the counter may be
ahead of the call, which is why calls there may give up early and why `BudgetIsFresh` speaks
only of a transfer that moves data.

`CommunicateProofs` proves, for any operations and bounds, `TypeCorrect`, `NilIsComplete`
(`NilMeansAllAnswered`) and `AnswersHaveDeliveries`, from `AnswerInv`: the one delivery in hand
has no answer, and every other delivery without one has left an error, which nothing clears.

`DaemonProofs` proves of `Recovery` that a routine is abandoned only in a crash loop
(`AbandonedInCrashLoop`), for any policy with `0 < InitialInterval <= MaxInterval`. The property
alone is not inductive: after a proper run its bound is the first wait, so the invariant needs
`ResetInv`, that a policy which was reset for a panic is as it was at first until it is asked,
through the report that lies between. `DaemonRecovers` proves that the daemon implements
`RecoverySpec`, so that this holds of its services (`ServicesAreKept`).

Of the daemon itself it proves `TypeCorrect`, `PanicsReported`, `StartedFirstOfAll`,
`ShutdownLogged` and `SignalledExitIsComplete`, the part of `SignalEndsDaemon` that is about
states: an agent that took a signal does not exit before its services are cancelled and STOPPED
is reported. The invariant is in parts. `LifeInv` ties the properties of the logger and the copies
of the services to the place of the main goroutine; on it rests `ReportInv`, what may have been
reported at each place, and on both `EndInv`, what the shutdown has done at each of its places.
`LogInv` is what `ShutdownLogged` needs: the services are cancelled only on the way of the
shutdown, which leads through `closed`; there the client of the daemon is closed, or is none, and
the main goroutine logs nothing any more. Which client that is may have changed long before.

`MetricEventsProofs` proves `TypeCorrect`, `GroupsAreOwners` and the refinement
`ChangesAreLogged`, the last two for callers that make a map for each call. The invariant `Inv`
adds to the property that two events never hold one map (`EventsOwnTheirMaps`) and that an
open group holds an event that was really there (`GroupsHoldEvents`). Then a write into the map
of a group is seen in `pending` of that group and nowhere else, which is what each step needs.

`MetricsProofs` proves two things.

* Of `EvalMetrics`, for any metrics, evaluations and lines: `NoLineWasted` and `FirstMatchCollected`,
  from the invariant `EvalInv` (`CollectionAgrees`). `CollectedInv` says that a metric is off the
  map exactly if it was collected, on a line that is done with, from the first evaluation that
  holds there, and no two of them from one line; `TakenInv` that a line which held for a metric still to be
  collected was taken by some metric. For that the step needs `LineInv`, that nothing held for the
  metrics already tried on the line in hand. `MinOfNaturals` shows that the `CHOOSE` of `Min`
  finds the first evaluation.
* Of `TimeSeriesBatches`, for any slices, batch sizes and retries: `SentWasWritten`,
  `RemainderDiscarded` and `WrittenInOrder`, from `BatchesInv` (`BatchesAgree`). `SendingInv` says
  where the call stands between the batches, and `BatchInv` that each time series of the batch is
  represented in what is left of it by one with its key that does not come later, and that what
  was written belongs to earlier batches or to what is left of this one.

Model-checked only: liveness (`EveryOperationCloses`, `UploadReturns`, `EverythingEnds`,
`FailingCallsEnd`, `CancelledLoopEnds`, `EveryOperationIsReceived`, `EveryChangeIsLogged`,
`SignalEndsDaemon`), which is outside what TLAPS proves. Every invariant, action property and
refinement that a passing run checks is also a theorem, under the assumptions named above.

## 6. What is left out

* Within guest actions: what a command does, the text of messages, the choice of endpoint.
  The code evaluates `g.locker` in the first statement of the new goroutine; the model has
  it captured when the goroutine is launched, which differs only if `Start` is called again
  (after the backoff of the recovery library, half a second at first) before that statement
  runs. A panic in the goroutine of an operation ends the process: there is no state after it.
  Two deliveries with one operation_id are two operations, as they are in the code.
* Within storage: a plain upload or download that uses the client's own writer and reader
  appears in `RetryBudget` only; compression, the connection of each worker to its bucket, the rate limit, the progress log, listing and
  deleting are left out. At least one worker and a positive part size are assumed. Nothing in
  the code ensures them: with `ChunkSizeMb` zero, which the comment at storage.go:77 allows,
  `MultipartWriter.Write` copies nothing and sends empty parts for ever.
* Within communication and uap: one module stands for both copies of `Communicate`; the
  endpoint, the texts and `SendAgentMessage`, which is one send, are left out. The service and
  its client library are modelled as their use in the code requires.
* Within recovery: the policy is the one `StartRoutine` makes when it is given none. Waits are
  in ticks, and the growth of the interval by half is a doubling.
* Within usage metrics: the user agent, the time of the last call and the variant for Cloud
  Run. The check and set of `dailyLogRunningStarted` are two steps in the code; the daemon
  calls `LogRunningDaily` once, so nobody races there.
* Within metric events: `SetLogDelay`, since every delay is any delay, and the levels of the
  log. Keys are put together without a separator in the code; two paths and values that give
  one string would share a group, which the model leaves out.
* Within the daemon: the lines of services, of their recovery and of `LogRunningDaily`, which
  nobody promises to send, and the levels of the log. A service is its loop, and what it does in
  it is left out.
* Within configurable metrics: the comparisons of `evaluateRule`, and `CollectOSCommandMetric`,
  which evaluates one output and keeps no state.
* Within cloud monitoring: the two query functions, one retried request each.
* Without a module: the compute client and the metadata server (one request, or one retried
  until it succeeds, with nothing kept between calls), permissions and IAM (a request and a
  comparison), log (set-up of a third-party logger; what the agent depends on is in `Daemon`),
  and the wrappers, parsers and one-time commands of the last row of the inventory. They have
  no sequence of steps that a model could get wrong in a way the code does not; `PROJECT.json`
  has the reason for each.
* Generated code. About 9,700 of the 18,500 lines of the implementation are `.pb.go` files,
  and most of the rest belongs to the wrappers above, so the modules map a small share of the
  lines and nearly all of the concurrent ones.
