------------------------------ MODULE ControlStore ------------------------------
(* The control plane's SQLite database as a value, and what each statement    *)
(* sequence of src/internal/store/sqlite does to it.  No variables: the state *)
(* machine over these operators is ControlPlane.                              *)
(*                                                                            *)
(* A job stands for the id drawn for it and the spec it is submitted with; an *)
(* attempt is <<job, number>>.  A job row carries its attempts in the order   *)
(* of their numbers, its rows of metric_samples in the order of their rowids   *)
(* and the kinds of its rows in the audit table (events).                     *)
EXTENDS Scheduling

CONSTANTS
    Jobs, Workers, Sessions, Keys, Targets, Files,
    Seqs,       \* sequence numbers an event may carry
    EventIds,   \* ids an event may carry
    Points,     \* metric samples, [name, unit]: unit = the value is in 0..1
    JobSpec,    \* Jobs -> spec
    Capacity,   \* Workers -> the capacity each of its syncs advertises
    ScanLimit   \* LIMIT of the candidate query, 100 in the code

Live  == {"offered", "accepted", "running"}
Ended == {"succeeded", "failed", "canceled"}

\* "absent" is a job nobody has submitted.  retry_wait is declared and accepted
\* by CancelJob, but nothing ever moves a job into it.
JobStates  == {"absent", "queued", "running", "canceling"} \cup Ended
AuditKinds == {"job_submitted", "job_canceled", "job_cancel_requested",
               "attempt_offered", "attempt_started", "attempt_finished",
               "health_policy_fired"}

MaxAttempts(j) == JobSpec[j].maxAttempts
AttemptIds == UNION {{j} \X (1 .. MaxAttempts(j)) : j \in Jobs}

Policies(j) == DOMAIN JobSpec[j].health      \* health: sequence of [kind, target]

\* What JobSpec.Validate demands of a spec: at least one attempt, and health
\* policies of a known kind.
ASSUME SpecAssumption ==
    /\ Seqs \subseteq Nat /\ ScanLimit \in Nat \ {0}
    /\ \A j \in Jobs :
           /\ JobSpec[j].priority \in Int
           /\ MaxAttempts(j) \in Nat \ {0}
           /\ JobSpec[j].health
                  \in Seq([kind : {"finished", "periodic", "metric_stalled"},
                           target : Targets])

\* What the unsigned types of a request and of a capacity can hold; Validate
\* refuses a GPU request of zero and an unknown sharing mode.
ASSUME ResourcesAssumption ==
    /\ \A j \in Jobs :
           /\ JobSpec[j].resources.cpu \in 0 .. U32 - 1
           /\ JobSpec[j].resources.memory \in 0 .. U64 - 1
           /\ JobSpec[j].resources.gpus
                  \in Seq([sharing : {"exclusive", "shared"}, count : 1 .. U32 - 1])
    /\ \A w \in Workers :
           Capacity[w] \in [cpu : 0 .. U32 - 1, memory : 0 .. U64 - 1,
                            gpuCount : 0 .. U32 - 1, gpuSharedSlots : 0 .. U32 - 1,
                            maxParallel : 0 .. U32 - 1, labels : {Capacity[w].labels},
                            projects : {Capacity[w].projects}]

---------------------------------------------------------------------------
(* Rows *)

\* A firing of an attempt's policy: the policy's index and the firing key.
Firings == Nat \X {"finished"}

Attempts == [worker : Workers, state : Live \cup Ended,
             files : SUBSET Files, fired : SUBSET Firings]

Samples == [attempt : Nat, point : Points]

JobRows == [state : JobStates, rev : Nat, created : Nat, audit : Seq(AuditKinds),
            attempts : Seq(Attempts), samples : Seq(Samples)]

NoJobRow == [state |-> "absent", rev |-> 0, created |-> 0, audit |-> << >>,
             attempts |-> << >>, samples |-> << >>]

EventKinds == {"attempt_accepted", "attempt_started", "attempt_finished",
               "artifacts", "metric_sample"}

\* worker_events: primary key (worker, session, seq), id unique.
EventRows == [worker : Workers, session : Sessions, seq : Seqs, id : EventIds,
              attempt : AttemptIds, kind : EventKinds]

Databases == [job     : [Jobs -> JobRows],
              worker  : [Workers -> {"absent", "offline", "online"}],
              keys    : SUBSET (Keys \X Jobs),
              targets : SUBSET Targets,
              events  : SUBSET EventRows]

EmptyDatabase == [job     |-> [j \in Jobs |-> NoJobRow],
                  worker  |-> [w \in Workers |-> "absent"],
                  keys    |-> {},
                  targets |-> {},
                  events  |-> {}]

HasLiveAttempt(row) == \E n \in DOMAIN row.attempts : row.attempts[n].state \in Live

LiveOn(d, w) ==
    {a \in AttemptIds : /\ a[2] \in DOMAIN d.job[a[1]].attempts
                        /\ d.job[a[1]].attempts[a[2]].worker = w
                        /\ d.job[a[1]].attempts[a[2]].state \in Live}

Held(d, w) == [a \in LiveOn(d, w) |-> JobSpec[a[1]].resources]

---------------------------------------------------------------------------
(* CreateJob and CancelJob *)

\* The row's created_at: a wall-clock reading formatted with its trailing zeros
\* trimmed, so its rank in string order need not be the order of submission.
Submitted(rank) == [state |-> "queued", rev |-> 1, created |-> rank,
                    audit |-> <<"job_submitted">>,
                    attempts |-> << >>, samples |-> << >>]

\* A mutant: a job that is being canceled can be canceled again.
CanCancel_again(row) == row.state \in {"queued", "running", "canceling"}

CanCancel(row) == row.state \in {"queued", "running"}

\* A job some worker may be executing has to wait for that attempt to end.
Canceled(row) ==
    IF HasLiveAttempt(row)
    THEN [row EXCEPT !.state = "canceling", !.rev = @ + 1,
                     !.audit = Append(@, "job_cancel_requested")]
    ELSE [row EXCEPT !.state = "canceled", !.rev = @ + 1,
                     !.audit = Append(@, "job_canceled")]

---------------------------------------------------------------------------
(* offerJobs *)

\* Queued and held by no worker.
Schedulable(row) == row.state = "queued" /\ ~HasLiveAttempt(row)

\* ORDER BY priority DESC, created_at, id: ranks are drawn without repetition,
\* so the id never decides.
Before(d, j, k) ==
    \/ JobSpec[j].priority > JobSpec[k].priority
    \/ /\ JobSpec[j].priority = JobSpec[k].priority
       /\ d.job[j].created < d.job[k].created

Candidates(d) ==
    LET C == {j \in Jobs : Schedulable(d.job[j])}
    IN  {j \in C : Cardinality({k \in C : Before(d, k, j)}) < ScanLimit}

Offered(row, w) ==
    [row EXCEPT
        !.attempts = Append(@, [worker |-> w, state |-> "offered",
                                files |-> {}, fired |-> {}]),
        !.audit    = Append(@, "attempt_offered")]

---------------------------------------------------------------------------
(* applyWorkerEvent, one pair of guard and effect per event kind *)

\* The message body of each event kind.  ok: exit code 0 and no error; tailFits:
\* the decoded log tail is at most 64 KiB.
EventBodies ==
    [kind : {"attempt_accepted", "attempt_started"}, attempt : AttemptIds]
    \cup [kind : {"attempt_finished"}, attempt : AttemptIds, ok : BOOLEAN,
          tailFits : BOOLEAN, files : SUBSET Files]
    \cup [kind : {"artifacts"}, attempt : AttemptIds, files : SUBSET Files]
    \cup [kind : {"metric_sample"}, attempt : AttemptIds, point : Points]

Events == [seq : Seqs, id : EventIds, body : EventBodies]

Accepted(row, n) == [row EXCEPT !.attempts[n].state = "accepted"]

\* A mutant: the job's revision is not bumped.
Started_sameRevision(row, n) ==
    [row EXCEPT !.attempts[n].state = "running",
                !.state = IF @ = "queued" THEN "running" ELSE @,
                !.audit = Append(@, "attempt_started")]

\* Only a queued job becomes running: one being canceled stays so.
Started(row, n) ==
    [row EXCEPT !.attempts[n].state = "running",
                !.state = IF @ = "queued" THEN "running" ELSE @,
                !.rev   = IF row.state = "queued" THEN @ + 1 ELSE @,
                !.audit = Append(@, "attempt_started")]

AttemptVerdict(row, ok) ==
    IF row.state \in {"canceling", "canceled"} THEN "canceled"
    ELSE IF ok THEN "succeeded" ELSE "failed"

\* A mutant: a job being canceled is retried when its process fails.
JobVerdict_retriesCanceled(row, n, max, ok) ==
    IF row.state \in {"canceling", "canceled"} /\ ok THEN "canceled"
    ELSE IF ok THEN "succeeded"
    ELSE IF n < max THEN "queued" ELSE "failed"

\* A mutant: the retry budget is off by one.
JobVerdict_oneTooMany(row, n, max, ok) ==
    IF row.state \in {"canceling", "canceled"} THEN "canceled"
    ELSE IF ok THEN "succeeded"
    ELSE IF n <= max THEN "queued" ELSE "failed"

\* A mutant: a job to be retried is parked in a state nothing schedules.
JobVerdict_parked(row, n, max, ok) ==
    IF row.state \in {"canceling", "canceled"} THEN "canceled"
    ELSE IF ok THEN "succeeded"
    ELSE IF n < max THEN "retry_wait" ELSE "failed"

JobVerdict(row, n, max, ok) ==
    IF row.state \in {"canceling", "canceled"} THEN "canceled"
    ELSE IF ok THEN "succeeded"
    ELSE IF n < max THEN "queued" ELSE "failed"

\* A mutant: policies of every kind fire.
FiresOnFinish_anyKind(d, j, attempt) ==
    {p \in Policies(j) : /\ JobSpec[j].health[p].target \in d.targets
                         /\ <<p, "finished">> \notin attempt.fired}

\* The finished policies of job j that fire: not fired yet for this attempt and
\* with a target that is configured.  A policy that cannot fire is only logged.
FiresOnFinish(d, j, attempt) ==
    {p \in Policies(j) : /\ JobSpec[j].health[p].kind = "finished"
                         /\ JobSpec[j].health[p].target \in d.targets
                         /\ <<p, "finished">> \notin attempt.fired}

FinishedAttempt(attempt, verdict, files, fires) ==
    [attempt EXCEPT !.state = verdict,
                    !.files = @ \cup files,
                    !.fired = @ \cup {<<p, "finished">> : p \in fires}]

\* The audit rows of a finish: one per firing, then its own.
FinishLog(fires) ==
    [i \in 1 .. Cardinality(fires) |-> "health_policy_fired"] \o <<"attempt_finished">>

Finished(row, n, j, body, fires) ==
    [row EXCEPT
        !.attempts[n] = FinishedAttempt(@, AttemptVerdict(row, body.ok), body.files, fires),
        !.state = JobVerdict(row, n, MaxAttempts(j), body.ok),
        !.rev   = @ + 1,
        !.audit = @ \o FinishLog(fires)]

FilesRecorded(row, n, files) == [row EXCEPT !.attempts[n].files = @ \cup files]

SystemMetrics == [system |-> "number", systemPercent |-> "percent"]

\* The job's own definition of the name wins over the worker's own series.
DefinedMetric(metrics, point) ==
    LET Fits(format) == format # "percent" \/ point.unit
    IN  IF point.name \in DOMAIN metrics
        THEN Fits(metrics[point.name])
        ELSE point.name \in DOMAIN SystemMetrics /\ Fits(SystemMetrics[point.name])

Sampled(row, n, point) ==
    [row EXCEPT !.samples = Append(@, [attempt |-> n, point |-> point])]

\* The attempt exists and is this worker's.
Assigned(d, w, a) ==
    /\ a[2] \in DOMAIN d.job[a[1]].attempts
    /\ d.job[a[1]].attempts[a[2]].worker = w

\* The guards of applyWorkerEvent: any other event is an error.
CanApply(d, w, body) ==
    LET j == body.attempt[1]
        n == body.attempt[2]
        state == d.job[j].attempts[n].state
    IN  /\ Assigned(d, w, body.attempt)
        /\ \/ body.kind = "attempt_accepted" /\ state = "offered"
           \/ body.kind = "attempt_started" /\ state \in {"offered", "accepted"}
           \/ /\ body.kind = "attempt_finished"
              /\ state \in {"accepted", "running"}
              /\ body.tailFits
           \/ body.kind = "artifacts" /\ body.files # {}
           \/ /\ body.kind = "metric_sample"
              /\ DefinedMetric(JobSpec[j].metrics, body.point)

\* What applyWorkerEvent writes to the job's row.
Applied(d, body) ==
    LET j   == body.attempt[1]
        n   == body.attempt[2]
        row == d.job[j]
    IN  CASE body.kind = "attempt_accepted" -> Accepted(row, n)
          [] body.kind = "attempt_started"  -> Started(row, n)
          [] body.kind = "attempt_finished" ->
                 Finished(row, n, j, body, FiresOnFinish(d, j, row.attempts[n]))
          [] body.kind = "artifacts"        -> FilesRecorded(row, n, body.files)
          [] body.kind = "metric_sample"    -> Sampled(row, n, body.point)

---------------------------------------------------------------------------
(* recordWorkerEvent *)

SameKey(r, w, s, e) == r.worker = w /\ r.session = s /\ r.seq = e.seq

\* INSERT OR IGNORE inserts: neither the primary key nor the id is taken.
Fresh(d, w, s, e) ==
    \A r \in d.events : ~SameKey(r, w, s, e) /\ r.id # e.id

\* A mutant: what is already recorded is an error.
Replayed_never(d, w, s, e) == FALSE

\* The insert was ignored and the row under the event's key is this event.
Replayed(d, w, s, e) ==
    \E r \in d.events : SameKey(r, w, s, e) /\ r.id = e.id

\* A sequence of zero is refused before the insert.
CanRecord(d, w, s, e) ==
    /\ e.seq # 0
    /\ \/ Fresh(d, w, s, e) /\ CanApply(d, w, e.body)
       \/ Replayed(d, w, s, e)

EventRow(w, s, e) ==
    [worker |-> w, session |-> s, seq |-> e.seq, id |-> e.id,
     attempt |-> e.body.attempt, kind |-> e.body.kind]

\* A mutant: an event is applied whether its insert was ignored or not.
Recorded_always(d, w, s, e) ==
    IF CanApply(d, w, e.body)
    THEN [d EXCEPT !.events = IF Fresh(d, w, s, e) THEN @ \cup {EventRow(w, s, e)} ELSE @,
                   !.job[e.body.attempt[1]] = Applied(d, e.body)]
    ELSE d

Recorded(d, w, s, e) ==
    IF Fresh(d, w, s, e)
    THEN [d EXCEPT !.events = @ \cup {EventRow(w, s, e)},
                   !.job[e.body.attempt[1]] = Applied(d, e.body)]
    ELSE d
=============================================================================
