------------------------------ MODULE ControlPlane ------------------------------
(* The control plane: the operations of its store as transactions over one    *)
(* SQLite connection (SetMaxOpenConns(1)).  Operator operations are short and  *)
(* take one step.  A worker's sync is a transaction of many statements, so it  *)
(* works on a copy `tx` that Commit publishes and Rollback drops; while it is  *)
(* open the single connection is taken and no other operation runs.           *)
(* Workers are not constrained here: they may send any event of Events in any  *)
(* order, again, or under a key or an id that is already taken.               *)
EXTENDS ControlStore

VARIABLES
    db,     \* what is committed
    tx,     \* what the open transaction sees; equal to db when none is open
    req     \* the sync being served: [phase, worker, session, scan]

vars == <<db, tx, req>>

\* scan: the jobs the offer loop has still to look at.
Requests == [phase : {"events", "offers"}, worker : Workers, session : Sessions,
             scan : SUBSET Jobs]

Idle == [phase |-> "idle"]

TypeOK ==
    /\ db \in Databases
    /\ tx \in Databases
    /\ req \in Requests \cup {Idle}

Init ==
    /\ db = EmptyDatabase
    /\ tx = EmptyDatabase
    /\ req = Idle

---------------------------------------------------------------------------
(* Operations of operators *)

\* A transaction that takes one step.
Do(d) == req = Idle /\ db' = d /\ tx' = d /\ UNCHANGED req

CreateWorker(w) ==
    /\ db.worker[w] = "absent"
    /\ Do([db EXCEPT !.worker[w] = "offline"])

\* The name is unique in webhook_targets; nothing revokes a target.
CreateWebhookTarget(t) ==
    /\ t \notin db.targets
    /\ Do([db EXCEPT !.targets = @ \cup {t}])

\* A mutant: the key is not looked up before the job is inserted.
CreateJob_unchecked(k, j, rank) ==
    /\ db.job[j].state = "absent"
    /\ \A i \in Jobs : db.job[i].created # rank
    /\ \A p \in Policies(j) : JobSpec[j].health[p].target \in db.targets
    /\ Do([db EXCEPT !.job[j] = Submitted(rank), !.keys = @ \cup {<<k, j>>}])

\* A key that is known writes nothing: it returns the job it names when the
\* specs are equal and ErrIdempotencyConflict otherwise.
CreateJob(k, j, rank) ==
    /\ \A i \in Jobs : <<k, i>> \notin db.keys
    /\ db.job[j].state = "absent"
    /\ \A i \in Jobs : db.job[i].created # rank
    /\ \A p \in Policies(j) : JobSpec[j].health[p].target \in db.targets
    /\ Do([db EXCEPT !.job[j] = Submitted(rank), !.keys = @ \cup {<<k, j>>}])

CancelJob(j) ==
    /\ CanCancel(db.job[j])
    /\ Do([db EXCEPT !.job[j] = Canceled(@)])

---------------------------------------------------------------------------
(* SyncWorker *)

BeginSync(w, s) ==
    /\ req = Idle
    /\ db.worker[w] # "absent"
    /\ tx' = [db EXCEPT !.worker[w] = "online"]
    /\ req' = [phase |-> "events", worker |-> w, session |-> s, scan |-> {}]
    /\ UNCHANGED db

RecordEvent(e) ==
    /\ req.phase = "events"
    /\ CanRecord(tx, req.worker, req.session, e)
    /\ tx' = Recorded(tx, req.worker, req.session, e)
    /\ UNCHANGED <<db, req>>

Slack(d, w) ==
    CurrentAllocation(Held(d, w)).active < WithDefaults(Capacity[w]).maxParallel

\* The early return of a worker that is full, or the candidate query.
BeginOffers ==
    /\ req.phase = "events"
    /\ req' = [req EXCEPT !.phase = "offers",
                          !.scan = IF Slack(tx, req.worker) THEN Candidates(tx) ELSE {}]
    /\ UNCHANGED <<db, tx>>

\* A mutant: a job that does not fit ends the loop.
OfferNext_inTurn(j) ==
    LET fits == JobFits(JobSpec[j], WithDefaults(Capacity[req.worker]),
                        CurrentAllocation(Held(tx, req.worker)))
    IN  /\ req.phase = "offers"
        /\ j \in req.scan
        /\ \A k \in req.scan : ~Before(tx, k, j)
        /\ Slack(tx, req.worker)
        /\ req' = [req EXCEPT !.scan = IF fits THEN @ \ {j} ELSE {}]
        /\ tx' = IF fits THEN [tx EXCEPT !.job[j] = Offered(@, req.worker)] ELSE tx
        /\ UNCHANGED db

\* One turn of the offer loop: the first job of the scan is offered or skipped.
OfferNext(j) ==
    /\ req.phase = "offers"
    /\ j \in req.scan
    /\ \A k \in req.scan : ~Before(tx, k, j)
    /\ Slack(tx, req.worker)
    /\ req' = [req EXCEPT !.scan = @ \ {j}]
    /\ tx' = IF JobFits(JobSpec[j], WithDefaults(Capacity[req.worker]),
                        CurrentAllocation(Held(tx, req.worker)))
             THEN [tx EXCEPT !.job[j] = Offered(@, req.worker)]
             ELSE tx
    /\ UNCHANGED db

OffersDone == req.phase = "offers" /\ (req.scan = {} \/ ~Slack(tx, req.worker))

Commit ==
    /\ OffersDone
    /\ db' = tx
    /\ req' = Idle
    /\ UNCHANGED tx

\* An event cannot be recorded, the request is abandoned, a statement fails or
\* the server dies: the deferred Rollback, or SQLite's recovery at the next start.
Rollback ==
    /\ req # Idle
    /\ tx' = db
    /\ req' = Idle
    /\ UNCHANGED db

---------------------------------------------------------------------------
Ranks == 1 .. Cardinality(Jobs)

Operator ==
    \/ \E w \in Workers : CreateWorker(w)
    \/ \E t \in Targets : CreateWebhookTarget(t)
    \/ \E k \in Keys, j \in Jobs, rank \in Ranks : CreateJob(k, j, rank)
    \/ \E j \in Jobs : CancelJob(j)

Sync ==
    \/ \E w \in Workers, s \in Sessions : BeginSync(w, s)
    \/ \E e \in Events : RecordEvent(e)
    \/ BeginOffers
    \/ \E j \in Jobs : OfferNext(j)
    \/ Commit
    \/ Rollback

Next == Operator \/ Sync

Spec == Init /\ [][Next]_vars

---------------------------------------------------------------------------
(* Properties of the committed database *)

\* What a job row may look like: attempts are used one after the other, each
\* after the one before it failed, at most `max` of them, and the job's state
\* is the one its last attempt explains.
JobCoherent(row, max) ==
    LET N    == Len(row.attempts)
        last == row.attempts[N].state
    IN  /\ N <= max
        /\ \A n \in 1 .. N - 1 : row.attempts[n].state = "failed"
        /\ row.state = "absent"    => N = 0
        /\ row.state = "queued"    => \/ N = 0
                                      \/ last \in {"offered", "accepted"}
                                      \/ last = "failed" /\ N < max
        /\ row.state = "running"   => N > 0 /\ last = "running"
        /\ row.state = "canceling" => N > 0 /\ last \in Live
        /\ row.state = "succeeded" => N > 0 /\ last = "succeeded"
        /\ row.state = "failed"    => N = max /\ last = "failed"
        /\ row.state = "canceled"  => \/ N = 0
                                      \/ last = "canceled"
                                      \/ last = "failed" /\ N < max

\* However syncs, retries, duplicates and cancellations interleave, a job has at
\* most one live attempt, never more attempts than its retry budget, and a state
\* its attempts explain (applyWorkerEvent, CancelJob and offerJobs write the two
\* tables separately).
JobsCoherent == \A j \in Jobs : JobCoherent(db.job[j], MaxAttempts(j))

\* No sum of the scheduler reaches the width of its word: a request counts fewer
\* GPUs than a uint32 holds, and so does what a worker may hold together with one
\* request more.  Validate sets no such bound; the theorems about reservations take
\* it as their hypothesis.
NoWrap ==
    \A j \in Jobs :
        LET r == JobSpec[j].resources
        IN  /\ Asked(r, "exclusive") < U32 /\ Asked(r, "shared") < U32
            /\ \A w \in Workers :
                  /\ WithDefaults(Capacity[w]).cpu + r.cpu < U32
                  /\ WithDefaults(Capacity[w]).memory + r.memory < U64
                  /\ WithDefaults(Capacity[w]).gpuSharedSlots + Asked(r, "shared") < U32

\* A job that asks for exclusive GPUs never shares its worker's GPUs: while its
\* attempt is live no other live attempt there asks for any (jobFits).
GPUExclusion ==
    \A w \in Workers : \A a, b \in LiveOn(db, w) :
        a # b /\ AsksExclusive(JobSpec[a[1]].resources)
            => JobSpec[b[1]].resources.gpus = << >>

\* What the live attempts of a worker reserve together never exceeds the cores, the
\* memory, the shared GPU slots and the parallelism it advertises (offerJobs tests
\* one job at a time against a running sum).
ReservationsFit ==
    \A w \in Workers :
        LET capacity == WithDefaults(Capacity[w])
            held == Held(db, w)
            live == LiveOn(db, w)
        IN  /\ capacity.cpu > 0 =>
                   SumFunction([a \in live |-> held[a].cpu]) <= capacity.cpu
            /\ capacity.memory > 0 =>
                   SumFunction([a \in live |-> held[a].memory]) <= capacity.memory
            /\ SumFunction([a \in live |-> GPUs(held[a], "shared")])
                   <= capacity.gpuSharedSlots
            /\ Cardinality(live) <= capacity.maxParallel

\* When the offers of a sync are made, a job that could still have been offered was
\* passed over by none behind it, and waits only because the worker is full or
\* ScanLimit jobs that waited before it filled the candidate query (offerJobs reads
\* the queue once and goes on behind a job that does not fit).
OffersInOrder ==
    LET w == req.worker
        new == {j \in Jobs : Len(tx.job[j].attempts) > Len(db.job[j].attempts)}
        waited == new \cup {j \in Jobs : Schedulable(tx.job[j])}
        fits(j) == JobFits(JobSpec[j], WithDefaults(Capacity[w]),
                           CurrentAllocation(Held(tx, w)))
    IN  OffersDone =>
            \A j \in waited \ new : fits(j) =>
                /\ \A k \in new : Before(tx, k, j)
                /\ \/ ~Slack(tx, w)
                   \/ Cardinality({k \in waited : Before(tx, k, j)}) >= ScanLimit

\* An idempotency key names one job forever, and a job has the one key it was
\* submitted with, however submissions are retried (CreateJob).
KeyNamesOneJob ==
    /\ \A k \in Keys : \A i, j \in Jobs :
           <<k, i>> \in db.keys /\ <<k, j>> \in db.keys => i = j
    /\ \A j \in Jobs :
           db.job[j].state # "absent" <=> \E k \in Keys : <<k, j>> \in db.keys

EventsOf(a, kind) == {r \in db.events : r.attempt = a /\ r.kind = kind}

\* Every event of the event table took effect exactly once, and nothing took
\* effect without one, across replays, sessions and rolled-back syncs
\* (recordWorkerEvent): samples and terminal states match the table.
EventsAppliedOnce ==
    \A a \in AttemptIds :
        LET row == db.job[a[1]] IN
        IF a[2] \in DOMAIN row.attempts
        THEN /\ Cardinality({i \in DOMAIN row.samples : row.samples[i].attempt = a[2]})
                    = Cardinality(EventsOf(a, "metric_sample"))
             /\ Cardinality(EventsOf(a, "attempt_finished"))
                    = IF row.attempts[a[2]].state \in Ended THEN 1 ELSE 0
             /\ Cardinality(EventsOf(a, "attempt_started")) <= 1
             /\ row.attempts[a[2]].state = "running"
                    => EventsOf(a, "attempt_started") # {}
        ELSE \A kind \in EventKinds : EventsOf(a, kind) = {}

Logged(row, kinds) == Cardinality({i \in DOMAIN row.audit : row.audit[i] \in kinds})

\* The audit table tells the same story as the rows: one entry per offer, per
\* ended attempt and per firing, and a cancellation is logged once exactly when
\* the job is canceled or being canceled.
AuditAgrees ==
    \A j \in Jobs :
        LET row == db.job[j]
            ended == {n \in DOMAIN row.attempts : row.attempts[n].state \in Ended}
        IN  /\ row.state # "absent" <=> Logged(row, {"job_submitted"}) = 1
            /\ Logged(row, {"attempt_offered"}) = Len(row.attempts)
            /\ Logged(row, {"attempt_finished"}) = Cardinality(ended)
            /\ Logged(row, {"job_canceled", "job_cancel_requested"})
                   = IF row.state \in {"canceling", "canceled"} THEN 1 ELSE 0
            /\ Logged(row, {"health_policy_fired"})
                   = SumFunction([n \in ended |-> Cardinality(row.attempts[n].fired)])

\* A finished policy fires when its attempt ends and never before, once, and for
\* every ended attempt (its target is configured before the job may exist).
FinishedPoliciesFire ==
    \A a \in AttemptIds :
        LET attempts == db.job[a[1]].attempts
            wanted   == {p \in Policies(a[1]) : JobSpec[a[1]].health[p].kind = "finished"}
        IN  a[2] \in DOMAIN attempts =>
                attempts[a[2]].fired
                    = IF attempts[a[2]].state \in Ended
                      THEN wanted \X {"finished"} ELSE {}

StaysEnded(old, new) ==
    /\ old.state \in Ended => new.state = old.state
    /\ old.state = "canceling" => new.state \in {"canceling", "canceled"}
    /\ \A n \in DOMAIN old.attempts :
          old.attempts[n].state \in Ended => new.attempts[n].state = old.attempts[n].state

\* What ended stays ended: no step changes the state of an ended job or of an
\* ended attempt, and a job being canceled can only become canceled.
EndedIsFinal == [][\A j \in Jobs : StaysEnded(db.job[j], db'.job[j])]_vars

OnlyGrows(old, new) ==
    /\ SubSeq(new.audit, 1, Len(old.audit)) = old.audit
    /\ Len(new.attempts) >= Len(old.attempts)
    /\ new.rev >= old.rev
    /\ new.state # old.state => new.rev > old.rev

\* A job's history only grows: the audit trail and the attempts are extended, and
\* a state is never changed without a new revision, which is what CancelJob's
\* compare-and-set relies on.
HistoryGrows == [][\A j \in Jobs : OnlyGrows(db.job[j], db'.job[j])]_vars

\* The control plane implements the life cycle its clients are promised.
Lifecycle ==
    INSTANCE JobLifecycle WITH
        Budget   <- [j \in Jobs |-> MaxAttempts(j)],
        state    <- [j \in Jobs |-> db.job[j].state],
        failures <- [j \in Jobs |->
                        Cardinality({n \in DOMAIN db.job[j].attempts :
                                        db.job[j].attempts[n].state = "failed"})]

\* Every committed step of the store is a step of JobLifecycle: at most `Budget`
\* failures, "failed" only with the budget spent, "canceled" never left.
ImplementsLifecycle == Lifecycle!Spec
=============================================================================
