# LCJS in TLA+

A verification project for the long-compute job scheduler (LCJS): a control plane
that keeps jobs in SQLite and hands them to workers that poll it over HTTP. The
modules model the store, the scheduler, the worker agent with the processes it
supervises, the sync protocol between them, the webhook automation, and the clients
that look at jobs; TLC checks small instances, TLAPS proves the safety properties for every
instance.

## 1. The system

| Component | State it keeps | Operations | Talks to |
|---|---|---|---|
| Jobs (`store/sqlite/store.go`) | `jobs`, idempotency keys, audit table `events` | `CreateJob`, `CancelJob` | operators through `httpapi/server.go` |
| Worker sync (`store/sqlite/workers.go`) | `workers`, `attempts`, `worker_events`, `metric_samples`, `artifacts` | `CreateWorker`, `SyncWorker` (`recordWorkerEvent`, `applyWorkerEvent`, `offerJobs`, commands) | workers, by `POST /api/v1/worker/sync` |
| Scheduler (same file) | none: an allocation summed per sync | `currentAllocation`, `jobFits`, `offerJobs` | runs inside the sync's transaction |
| Health policies, webhooks (`store/sqlite/health.go`, `automation/runner.go`) | `webhook_targets`, `health_firings`, `webhook_deliveries`; the loop's local variables | `EvaluateHealthPolicies`, `DueWebhookDeliveries`, `deliver`, `RecordWebhookResult` | webhook receivers; `applyWorkerEvent` fires the finished policies |
| Worker agent (`worker/agent.go`, `executor.go`) | session id, list of commands, sampler goroutines, checksums announced | one cycle: reconcile, sync, accept, acknowledge, launch | control plane, worker store, processes, files |
| Worker store (`worker/store.go`) | `commands`, `outbox` in SQLite | `AcceptCommands`, `MarkStarted`, `MarkFinished`, `EnqueueMetric`, `AnnounceArtifacts`, `Acknowledge` | the agent |
| Supervisor (`cmd/lcjs/supervise.go`) | the process and `status.json` | run the job, publish the status by rename, exit | files the agent reads |
| Sessions (`store/sqlite/auth.go`, `httpapi/server.go`) | `api_tokens`, `browser_sessions`; a cookie | `login`, `logout`, `CreateBrowserSession`, `AuthenticateBrowserSession` | browsers |
| Job views (`store/sqlite/job_detail.go`, `metrics.go`, `httpapi/metrics.go`, `static/charts.js`) | none in the server; cursor, points and last state in the page's script | `GetJobDetail`, `writeJobMetrics`, `poll` | the job tables, one query at a time |
| Command line (`cmd/lcjs/operator.go`) | – | `job submit`, `get`, `wait`, `cancel` | the HTTP API |
| Reports, templates, ids, `protocol/sync.go` | – | – | not modelled, section 7 |

What is hard about it: an event crosses two databases and a network that may lose
the answer; the agent may die between any two of its transactions while its
supervisors live on; the agent looks at files and processes that change under it;
a sync records events, offers jobs and answers in one transaction, so one bad event
undoes all of it; the automation loop reads first and writes later; a view of a job
is put together from several queries while the job goes on; times are compared as
strings. `PROJECT.json`
lists these places under `hazards`, each with its line and the properties that
would notice if it went wrong.

What makes the parts correct:

* jobs: the `jobs`, `attempts` and audit tables agree whatever is interleaved;
  ended is final; the retry budget is exact; a key names one job;
* sync: an event takes effect exactly once, is never lost, and can be recorded;
* scheduler: reservations, parallelism and exclusive GPUs are respected;
* worker: success is only reported for exit code 0, an ended attempt has no process,
  an attempt runs once, artifacts and samples arrive complete and in order;
* health: firings are deserved, deliveries are what the receiver saw, and settle;
* views: what is shown of an ended job is final, a chart has every sample once, who
  waits for a job stops waiting; a session lasts exactly as long as it was granted.

## 2. The modules

```
Scheduling        pure operators: allocation, jobFits
  ControlStore    the database as a value, one operator per statement sequence
    ControlPlane  db, tx, req: the operations as transactions; the properties of the
                  committed database                       -> JobLifecycle (abstract)
      ControlPlaneProofs, SchedulingProofs
    WorkerAgent   store, agent, procs, files: one worker
      SyncSystem  ControlPlane and WorkerAgent joined by HTTP requests
        OutboxProofs, ExecutionProofs, SystemProofs
      Console     ControlPlane beside a client: sessions, job get and wait, the job page
        ConsoleProofs
Timestamps        the two time formats and the order of strings
  TimestampsProofs
  HealthHooks     policies, firings and deliveries (due times are Timestamps)
    HealthHooksProofs
MC*               instances for TLC
```

**ControlStore / ControlPlane.** `db` is what is committed, `tx` what the open
transaction sees. The store uses one connection (`SetMaxOpenConns(1)`), so while a
sync is open (`req # Idle`) nothing else runs. Operator operations are one short
transaction and one action; `SyncWorker` is `BeginSync`, a `RecordEvent` per event,
`BeginOffers`, an `OfferNext` per candidate, `Commit`; `Rollback` is every error and
every crash. In this module workers are free to send any event: the store has to be
correct against them all. Data is abstracted to what the code branches on: an exit
is ok or not, a log tail fits or not, a sample is in range or not, `created_at` is a
rank (drawn freely, since the stored strings do not sort by time).

**WorkerAgent.** `pc` walks through the cycle of `agent.go`: `reap`, `ingest`,
`status`, `alive`, `finish`, `send`, `wait`, `accept`, `ack`, `launch`, `spawned`,
`unstarted`. Each step is one transaction of the worker's store or one look at the
outside. The commands of a worker are a table keyed by attempt. A list of them
(`created_at, command_id`) may be in any order: the times are strings that do not sort by
time within a second, the ids are drawn at random. `store` and `files` survive everything, `procs` survives `Crash` but not
`Reboot`, `agent` survives nothing and draws a new session when it starts. Jobs and
supervisors act at any time: write a metric line or the beginning of one, complete an
artifact, publish a status, exit. A line of the sampler that lands behind a beginning
makes one unreadable line of both (`torn`); what the job then writes of its own line is
unreadable too. A line of more than 1 MiB ends the cycle with an error. `cancelGrace` is the step `GracePasses`. An error of the worker's own
SQLite ends the cycle or the agent in the code; it is part of `Crash`.

**SyncSystem.** `PostSync` puts the batch on the wire; the server may serve it after
its worker gave up (`TimeOut`, `Crash`, `Reboot`), in which case the answer is lost;
it may also be lost before it is served. While a sync's transaction is open only its
own steps are taken (`Aside`): they touch nothing a worker sees before `Commit`, so
any other order has the same effect. `Budget` bounds the faults of each kind in a
behaviour, `MaxFaults` their sum.

**HealthHooks.** The loop of `automation/runner.go`, with its reads (`Evaluate`,
`ListDue`) apart from its writes (`Fire`, `Record`) and the request to the receiver
(`Post`) in between; attempts start, report, are canceled and end between any two.
A receiver may accept a notification whose answer is lost. The rest of the control
plane is reduced to what the loop reads. Time is counted in ticks, four to the second,
and a delivery is due when the string of its time is not after the string of the
current one, as the query compares them.

**Timestamps.** `formatTime` (`time.RFC3339Nano`, trailing zeros trimmed) and
`formatSortableTime` (nine digits) as sequences of character ranks, and SQLite's byte
order on them. Two binary digits of a fraction stand for the nine decimal ones: no
digit, one digit and all digits are the cases a trimmed fraction has.

**Console.** `GetJobDetail` is five queries and `writeJobMetrics` two, without a
transaction: `ReadNext` and `PollNext` are one query each, and `Plane`, a committed
transaction of the control plane, may come between any two. `Plane` takes the store's
operators from ControlStore, and its worker numbers its events and sends each once;
that SyncSystem's lost and repeated syncs come to the same is what `SamplesFaithful` and
`EventsAppliedOnce` say. There is one client, of a kind chosen at the start: `get` and
`wait` ask and read; `browser` signs in, opens the page and runs its script, which
polls, reloads and stops; `visitor` is any number of browsers that only sign in and out
while the clock advances, apart from the jobs, with which sessions have nothing in
common. A request may fail at any query. The order of samples in `GetJobDetail` is that of
the times the job gave, so they are a set there; the chart's are in commit order.

**JobLifecycle** is the promise to a client: the state a job shows and how many of
its attempts failed. `ImplementsLifecycle` maps `db` to it.

Operators whose names end in `_something` after the name of another definition are
mutants: what a plausible bug would make of that definition. No module uses them;
each property has one that breaks it, listed under `mutants`.

## 3. The runs

| Run | Instance | Shows |
|---|---|---|
| `events` | 1 job with 2 attempts, 2 workers × 2 sessions, 4 event ids, sequences 0–2 | tables, audit trail, revisions and life cycle stay coherent; events apply once; finished policies fire once |
| `rivals` | 3 jobs (exclusive GPU, shared GPU, cores and memory), 2 workers, with 2 places and with 1, 2 candidates per sync | GPU exclusion, reservations and parallelism, order of the offers, idempotency keys |
| `samples` | 1 job, its lines and the sampler's, begun, torn, whole and too long, 2 lines, one timeout, one server fault | samples once and in order; no sync refused |
| `restarts` | 1 job, one timeout, one crash, one reboot, artifacts that cannot be collected | no event lost, none recorded out of order |
| `completes` | 1 job with 2 attempts, one timeout, one server fault, fair | success is real, ended means stopped, one execution, commands repeatable; the job ends, the outbox drains |
| `cancels` | 1 job, a webhook target, two artifacts, two sweeps, one timeout, fair | cancellation completes, artifacts complete |
| `hooks` | 1 attempt, a policy of each kind, 2 tries, 2 samples, one crash, list of 1, half a second, one and two seconds, fair | firings are deserved, every end is told, deliveries match the receiver, backoff, giving up, settling |
| `console` | each kind of client, 1 job with 2 attempts, 4 events, 2 sessions of 1½ seconds at 5 moments, one failing request, fair | ended is shown as it stays, charts exact, pages truthful, sessions exact, clients come to rest |
| `resent`, `outofrange`, `exitcode`, `toolong` | as `samples`, with a crash, a sample out of range, no fault at all, a line of more than 1 MiB | a disagreement of code and documentation each, section 6 |

Why the bounds are enough for what they are for. `events`: two attempts are the
least with a retry, two workers let the second attempt go elsewhere, two sessions are
a restart; four ids carry a whole attempt (accept, start, sample, finish) and, with
three sequences per session of which 0 is invalid, force keys and ids to be reused. `rivals`: every
pair of the three kinds of request meets, in both orders, on a worker with two
places, a worker left to its default of one place keeps the others waiting, and on a worker with
one core a job hides behind two that do not fit. The sync runs allow one fault of each kind: a lost answer, then a retry
of the same batch, is one fault; the properties talk about a batch and its successor.
`Seqs` bounds only the type of an event: no behaviour of the instance enqueues more.
Batches of ten carry the whole outbox. `hooks`: two tries contain a failure with its backoff and the end; a list of one makes
deliveries compete; 2, 4 and 8 ticks are a time with a fraction and two without, so that
strings are compared in the wrong order and in the right one; the clock stops at `Horizon` and
what falls due later falls due then, which shortens the last backoff and nothing else.
`cancels`: two files of one rule and a second sweep make the sweep find the other file's
checksum. `console`: four events are a failed attempt's acceptance, start, sample and
end, or two attempts that fail to start; of two sessions one can expire, with or without
a fraction of a second, while the other is created and in use.

`CHECK_DEADLOCK FALSE` is set everywhere: with all ids used and all jobs ended, or
the clock at its end, an instance really stops.

Symmetry. `events` permutes workers, sessions and event ids, `rivals` keys and event
ids. The specification only compares these for equality, both workers of
`events` have the same capacity, and both runs check invariants and box-action
properties only. In the sync runs sessions and ids are numbers and no symmetry is used.

## 4. Fairness

* `WF(AgentAlone)`, `WF(Post)`, `WF(Start)`: `Run` calls the cycle in a loop with a
  timer whatever the last cycle returned, and a stopped agent is started again by
  its service manager.
* `WF(Server)`: `net/http` serves what arrives and a handler runs to its end.
* `SF` for a supervisor that has reported to exit, and for the grace period to pass: neither waits for
  the server's transactions in reality; in the model `Aside` disables them during
  one, so weak fairness would be too weak. Nothing is assumed about operators, about
  faults or about a job: `CancelCompletes` holds for one that ignores SIGTERM.
* `JobsEnd` (only `completes`): processes end by themselves, without which
  `JobsComplete` could not hold.
* `FairSpec` of HealthHooks: the ticker keeps the loop going and time passes.
* `WF(ClientStep)` of Console: whoever waits for the store's connection gets it between
  two transactions (`database/sql` serves waiters in order), and a timer that was set
  goes off. Nothing makes a user act, a job end or a request succeed.

## 5. What is proved

Every theorem is for any jobs, workers, sessions, specs, capacities, events, bounds and
any number of faults. The properties speak of the committed database, and almost none is
inductive as it stands: `Commit` publishes `tx`, whose rows were built by any number of
steps since, so the strengthening demands the property of `tx` too, with what the open
transaction still relies on.

**`ControlPlaneProofs`: jobs.**

| Theorem | From | Why the strengthening is needed |
|---|---|---|
| `TypeCorrect` | itself | one lemma per operator of ControlStore: what it makes of a row is a row |
| `JobsStayCoherent` | `CoherenceInv` | what the offer loop has still to look at is schedulable in `tx`: a job is offered statements after it was selected, and could otherwise get a second live attempt; `LiveIsLast` is what the guards of the event kinds need |
| `EndedStaysEnded`, `HistoryOnlyGrows` (action properties) | `HistoryInv` | `tx` extends `db` row by row (`Extends`, a transitive relation every operator is in), so a commit is one long extension |
| `KeysNameOneJob` | `KeysInv` | a job exists exactly if a key names it, otherwise a second key could be given to it |
| `FinishedPoliciesAlwaysFire` | `PoliciesInv` | the targets of a job's policies still exist, and an attempt that may still end has not fired |
| `StoreImplementsLifecycle` | `SyncedInv` | the refinement of JobLifecycle: whatever a transaction has made of a job is progress that one `Report` of the life cycle may publish |

**`SchedulingProofs`: the scheduler.** `GPUsStayExclusive` and `ReservationsAlwaysFit`
from `ReservedInv`, `OffersGoInOrder` from `OrderInv`: what left the scan does not fit what
the worker has been given since, what was offered was ahead of the rest. All three have
the hypothesis `NoWrap`, that no sum of `jobFits` reaches the width of its word. `Validate`
does not guarantee it (section 6); it is a constant formula, and TLC evaluates it on both
instances of ControlPlane (`NoWrapAssumption`). Sums are folds over sets, and induction
over a set is out of the provers' reach; the few facts about sums that are needed (one
summand more, a part of a sum is no more than the sum) are proved from a smallest
counterexample, which the well-foundedness of the numbers provides.

**`SchedulingProofs`: tables that must agree.** `EventsTakeEffectOnce` from `EventsInv` (an
attempt that may still start has no start on record, in `tx` too) and
`AuditAlwaysAgrees` from `AuditInv` (the audit log counts what the row shows; an attempt
that has not ended has fired nothing, so an end logs exactly the firings it adds).

**`OutboxProofs`: nothing is lost.** `EventsRecordedInOrder` and `NoEventLost`, with
timeouts, lost and late requests, crashes, reboots and rollbacks. `ChainInv` follows the
chain from a worker to the event table: an outbox is consecutive up to the newest number
and starts no later than behind what is committed; a request on the wire, however old,
and the rest of the one being served are consecutive and start no later than where
the control plane is; the table has the numbers 1 to n of every worker; an acknowledgement
is never ahead of it. A batch from before a restart, served after the batch that repeats
it, is the case that needs "no later than" instead of "exactly at".

**`ExecutionProofs`: what a worker executes and says.**

* `SystemTypeCorrect`: `SyncSpec => []SyncTypeOK`, restarts included, from `WorkInv`: the types
  of tables, files, requests and answers, that the list the agent works off is still of
  commands in the state they were listed for, and that an answer is only awaited by
  the one agent that asked. Its hypothesis `Unbounded` says that numbers, ids and sessions
  are all the natural ones; the finite sets of an instance are cut where its budgets end.
* `OneExecutionEach` from `ExecInv`: commands and processes name each other, except
  the process that was started and is not yet recorded (`spawned`), which is the first of
  the list; a pending command has no process; a status is there only when the process is
  through with its job; a finished command has no running process.
* `NoSuccessIsFalse` and `EndedHasStopped` from `TruthInv`: an end is true wherever it is on its
  way, in an outbox, on the wire, in the request being served, in the rows of `tx` and
  `db`; it stays true, since what is over on a worker stays over; and a worker has only
  commands of attempts that are assigned to it.

The last three have the hypothesis `NoRestarts`: agents and machines are not restarted
(both budgets are 0; timeouts, lost and repeated requests and server faults are not
bounded). Without it they are false of the code: an agent that dies between starting a
supervisor and recording it starts a second one (section 6), whose status replaces the first's. The
runs that check these properties are such instances.

**`SystemProofs`: the whole system.** `SystemRunsThePlane` proves `SyncSpec => Spec`, restarts
included: whatever workers send, however late or often, the control plane takes steps of its
own specification or none. So every theorem about ControlPlane holds in the system, and
`SystemImplementsLifecycle` follows at once. The others need what both sides know:

* `WorkersNeverOverloaded`: running processes are of different attempts (`OneExecution`), each
  live in the control plane's table (`EndedMeansStopped`, `TruthInv`) and on this worker, so they
  map one to one into the rows that `PlacesInv` bounds. `PlacesInv` needs no `NoWrap`: places are
  counted, not added up.
* `EndedHasAllArtifacts` from `FilesInv`: whatever announces files, in an outbox, on the wire or
  in the request being served, names only files that are complete, an end names all of
  them, and a process that is through completes no more. Its hypothesis
  `Collects \subseteq {TRUE}`, that the files can be collected at the end, is the one of the
  run: when collecting fails the attempt ends as failed, with the files or without.
* `SyncsNeverRefused` from `StoryInv` and `OneSession`: the events of an attempt that wait on its
  worker are in the order of its life, no further than its command (`Ordered`); its row in
  `db` and in `tx` is no further than the command, and the events beyond the highest recorded
  number `Top` are those that come next for the row (`Matches`), wherever `Top` cuts
  the worker's sequence. So the next new event applies, and one at or under `Top` is the one on record. The
  hypotheses are those of `samples`, and each is needed: without `NoRestarts` it is `resent` that
  fails, without `MetricsDefined` `outofrange`, without `Tails \subseteq {TRUE}` see section 6.
* `CommandsNeverConflict` from `RepeatInv`: the answer to a sync that carried the whole outbox
  repeats no command the worker has, since whatever the worker accepted is on record by
  the time the answer is made. That a sync does carry it is the hypothesis `[]OneBatch`: an
  outbox never has more than `MaxBatch` events. Without it the property is false (section
  6); `completes` has outboxes of at most eight events and batches of ten.
* `SamplesAreTheLines` from `LinesInv`: the samples on record followed by the events still to be
  recorded are the readable lines up to the offset, each once and in order (`Traced`), for
  `db` and for `tx`. The offset and the outbox change in one transaction of the worker
  (`EnqueueMetric`), and what is recorded changes sides; a line may be torn only behind the offset.
  It has the hypothesis `NoRestarts` because it is built on `StoryInv`. With one crash the
  property holds in TLC (the instance of `samples` with `Budget <- Crashing`); that case is not proved.

**`ConsoleProofs`: clients.** `ConsoleTypeCorrect`, `AnswersStayFinal`, `ChartsExact`, `PagesTruthful` and
`SessionsLastExactly`, for any jobs, clients, logins and failing requests, from `ConsoleInv`. The properties
speak of a finished answer; the invariant says what each unfinished one has so far. A job
read as ended is still what every later query found (`ViewKept`: a request reads the state
first, and `CoherenceInv` of the control plane keeps what is ended as it is); the
chart is a beginning of the job's samples as long as its cursor, and a poll that
read an ended state before it reads the samples gets all there were at the end (`ChartKept`, `FinalKept`);
what was granted and has not expired has its row (`SessionsKept`). The last holds because a login
removes only rows whose string compares as expired, which by `SortableOrderIsTime`
are the rows that have expired.

**`HealthHooksProofs`: policies and deliveries**, for any attempts, policies, clock, tries
and crashes. `HooksTypeCorrect`, `DeliveredIsAccepted`, `DeadAfterMaxTries`, `BackoffRespected`, all from
`DeliveryInv`: the type, the three properties, and `ListedPending`, that what the
loop listed or is about to record is still pending. The list is old when it is used;
without `ListedPending` nothing would rule out that a row has meanwhile changed,
and none of the three is inductive alone. `BackoffRespected` needs
`TrimmedOrderBySeconds`, because what the query finds due is what compares as due.
`RepeatsAreExplained`, `FinishedIsTold` and `FiringsAreDeserved` from `FiringInv`: a row that
has not fired was never tried, and what the loop judged when it read the candidates
(`Judging`) still holds when it writes, because time, attempts and samples only move on.

**`TimestampsProofs`**, for any two times: `SortableOrderIsTime`, that strings of
`formatSortableTime` compare as their times, on which sessions rest; and
`TrimmedOrderBySeconds`, that strings of `formatTime` compare as their seconds do, so
that a trimmed time is wrong by less than a second. It is wrong within the second:
…05Z is after …05.5Z, and `NeverEarly` in ticks instead of seconds fails in `hooks`.

The assumptions are `WidthsAssumption`, `SpecAssumption`, `ResourcesAssumption`,
`PolicyAssumption`, `ConsoleAssumption` (what `JobSpec.Validate` and the types of Go
guarantee, and that bounds are numbers), `AgentAssumption` (bounds are numbers, choices are
Booleans) and `JobsAssumption` (finitely many jobs are ever submitted); TLC evaluates them
in the runs of the modules that declare them.

Only model-checked: liveness (`JobsComplete`, `OutboxDrains`, `CancelCompletes`,
`DeliveriesSettle`, `ClientRests`), because temporal reasoning with fairness is beyond the installed
provers; and `SamplesFaithful` with restarts, see above. Every other property of a passing
run is stated by a theorem.

## 6. Where code and documentation disagree

With a run whose counterexample shows it:

* `resent`: a restarted agent resends unacknowledged events under its new session;
  the duplicate test (`workers.go:161`) looks under the request's session, so the sync is
  refused, for ever. README.md:74 promises idempotent, at-least-once delivery.
* `outofrange`: a sample outside the range of its percent metric, or of an
  undeclared name, is enqueued by the agent and refused by the control plane with
  the whole batch, for ever. executor.go:374 says one malformed line must not stop
  the worker.
* `exitcode`: the status is read, then the process table; a supervisor that
  publishes and exits in between is reported as lost with exit code −1
  (`executor.go:215`).
* `toolong`: a line of more than 1 MiB ends the cycle with an error before anything is synced
  and stays at the offset, so every cycle ends there: the attempt's end is never
  reported. The comment under it (`executor.go:374`) says one malformed line must not
  stop the worker.

Found while modelling and reproducible by changing an instance:

* `ReservationsFit` fails with `U32 = 4` and requests of 2 and 3 cores on a worker
  of 3: the unsigned sums of `jobFits` (`workers.go:501`) wrap, and `Validate` bounds no request.
* `CommandsRepeatable` fails with `MaxBatch = 1`, two jobs and a worker with two
  places: an offer whose acceptance waits behind a full batch is sent again
  after its job was canceled, with another revision, and `AcceptCommands`
  (`worker/store.go:152`) refuses the whole answer, the cancel with it.
* `OneExecution` fails in the instance of `resent` (`Budget <- Crashing`): an agent that dies between
  starting the supervisor and recording it (`executor.go:79–84`) starts it again, and
  `NoFalseSuccess` and `EndedMeansStopped` fail there too, for one of the two executions.
* `SyncNeverRefused` fails with `Tails = {TRUE, FALSE}`: a tail of 64 KiB of bytes
  that are not UTF-8 grows when it is encoded and `workers.go:227` refuses it.
  The sync runs therefore assume tails that fit.
* `PageTruthful` without its condition `chart.first = view.state` fails in `console`: a job
  that ends between the page's queries and the script's first poll leaves a page that
  shows it as running and polls no more, since the script compares only its own polls
  (`charts.js:313`). `charts.js:311` says "A state change redraws the whole page so
  attempts, logs, and state chips stay truthful".
* A job behind 100 queued jobs that fit no worker is never offered (`workers.go:395`):
  `OffersInOrder` without its last disjunct fails in `rivals`.

Seen in the code, with no property of their own: metric lines written between the
last ingest and the status (`executor.go:207`) are never sent; the checksums announced by sweeps
are kept per artifact rule (`executor.go:287`), so two files of one rule are announced again by every
sweep, which changes nothing that is stored (`cancels`); a logout whose delete fails (`server.go:226`)
leaves the session good although the browser has forgotten it; artifacts and samples
may still be announced after a job has ended, so the answer of `job wait` has all
samples of the time it ended and not always all there will be;
a candidate read before its attempt ended still gets its check-in
(`health.go:79`); a late cycle fires for the last completed interval only (`health.go:126`), where
docs/health-hooks.md:41 says "after every completed interval".

## 7. What is not modelled

The report (`report.go`) and the templates (`ui.go`): text and layout made from the
same reads; nothing is stored and nothing waits for them. API tokens: one insert, and
nothing in the code revokes one. Flags, environment and printing of the command
line; `job list`, `workers` and the dashboard, which are single reads. Commands that
open the control plane's database beside the server (`worker create`, `token create`)
make a statement of the server fail at worst, which is `Rollback`. Id generation (ids
are fresh), running migrations (only the resulting keys), payloads, signatures,
wording and logs.

In the worker: source preparation and environment are one failure before launch; files
that match an artifact rule have distinct checksums and do not change once complete; a
supervisor dies without a status only by reboot or SIGKILL; sizes of requests are not
counted; pids are not reused. A worker that never returns is outside `JobsComplete`: the
code writes leases and never reads them.

## 8. Plan

1. *Done:* store, scheduler, life cycle, agent, sync protocol, health hooks, time
   formats, torn and over-long lines, scan limit, sessions and views; all the properties of
   ControlPlane and the safety properties of HealthHooks, SyncSystem and Console as theorems,
   the refinement of ControlPlane by the system and of JobLifecycle by both.
2. Prove next: `SamplesFaithful` with restarts. It needs the parts of `StoryInv` that only say
   where an event is (`Ordered`, `Relayed`) apart from those that say what it may be, which a second
   execution of an attempt breaks.
3. Worth modelling if the code comes to handle them: sizes of events against the
   4 MiB body limit, the worker that never returns, reuse of pids.
