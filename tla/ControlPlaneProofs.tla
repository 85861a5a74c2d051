--------------------------- MODULE ControlPlaneProofs ---------------------------
(* What the control plane makes of a job, for every set of jobs, workers, keys,  *)
(* specs and capacities: the rows are coherent, ended stays ended, the audit      *)
(* trail only grows, a key names one job, finished policies fire once, and the    *)
(* store implements the life cycle of JobLifecycle.                               *)
EXTENDS ControlPlane, FiniteSetTheorems, TLAPS

---------------------------------------------------------------------------
(* Rows *)

\* Replacing one attempt of a row keeps the sequence's type and length.
LEMMA AttemptReplaced ==
    ASSUME NEW s \in Seq(Attempts), NEW n \in DOMAIN s, NEW x \in Attempts
    PROVE  /\ [s EXCEPT ![n] = x] \in Seq(Attempts)
           /\ Len([s EXCEPT ![n] = x]) = Len(s)
           /\ DOMAIN [s EXCEPT ![n] = x] = DOMAIN s
           /\ \A m \in DOMAIN s : [s EXCEPT ![n] = x][m] = IF m = n THEN x ELSE s[m]
  OBVIOUS

\* The firings of a finish are counted by a natural number: a spec has finitely
\* many policies.
LEMMA FiresFinite ==
    ASSUME NEW d, NEW j \in Jobs, NEW attempt
    PROVE  /\ Cardinality(FiresOnFinish(d, j, attempt)) \in Nat
           /\ FiresOnFinish(d, j, attempt) \subseteq Nat
  <1>1. Policies(j) = 1 .. Len(JobSpec[j].health) /\ Len(JobSpec[j].health) \in Nat
    BY SpecAssumption DEF Policies
  <1>2. IsFiniteSet(Policies(j))
    BY <1>1, FS_Interval
  <1>3. FiresOnFinish(d, j, attempt) \subseteq Policies(j)
    BY DEF FiresOnFinish
  <1>4. IsFiniteSet(FiresOnFinish(d, j, attempt))
    BY <1>2, <1>3, FS_Subset
  <1> QED
    BY <1>1, <1>3, <1>4, FS_CardinalityType

\* A row with a new state, revision and audit trail.
LEMMA RowUpdated ==
    ASSUME NEW row \in JobRows, NEW state \in JobStates, NEW rev \in Nat,
           NEW audit \in Seq(AuditKinds)
    PROVE  [row EXCEPT !.state = state, !.rev = rev, !.audit = audit] \in JobRows
  BY DEF JobRows

LEMMA SubmittedType ==
    ASSUME NEW rank \in Nat PROVE Submitted(rank) \in JobRows
  BY DEF Submitted, JobRows, JobStates, AuditKinds

LEMMA CanceledType ==
    ASSUME NEW row \in JobRows PROVE Canceled(row) \in JobRows
  <1>1. /\ Append(row.audit, "job_canceled") \in Seq(AuditKinds)
        /\ Append(row.audit, "job_cancel_requested") \in Seq(AuditKinds)
        /\ row.rev + 1 \in Nat
    BY DEF JobRows, AuditKinds
  <1>2. "canceled" \in JobStates /\ "canceling" \in JobStates
    BY DEF JobStates, Ended
  <1> QED
    BY <1>1, <1>2, RowUpdated DEF Canceled

LEMMA OfferedType ==
    ASSUME NEW row \in JobRows, NEW w \in Workers PROVE Offered(row, w) \in JobRows
  <1> DEFINE x == [worker |-> w, state |-> "offered", files |-> {}, fired |-> {}]
  <1>1. x \in Attempts
    BY DEF Attempts, Live
  <1>2. /\ Append(row.attempts, x) \in Seq(Attempts)
        /\ Append(row.audit, "attempt_offered") \in Seq(AuditKinds)
    BY <1>1 DEF JobRows, AuditKinds
  <1> QED
    BY <1>2 DEF Offered, JobRows

LEMMA AcceptedType ==
    ASSUME NEW row \in JobRows, NEW n \in DOMAIN row.attempts
    PROVE  Accepted(row, n) \in JobRows
  <1>1. row.attempts \in Seq(Attempts) /\ row.attempts[n] \in Attempts
    BY DEF JobRows
  <1>2. [row.attempts[n] EXCEPT !.state = "accepted"] \in Attempts
    BY <1>1 DEF Attempts, Live
  <1>3. [row.attempts EXCEPT ![n] = [row.attempts[n] EXCEPT !.state = "accepted"]]
            \in Seq(Attempts)
    BY <1>1, <1>2, AttemptReplaced
  <1> QED
    BY <1>3 DEF Accepted, JobRows

LEMMA StartedType ==
    ASSUME NEW row \in JobRows, NEW n \in DOMAIN row.attempts
    PROVE  Started(row, n) \in JobRows
  <1> DEFINE x     == [row.attempts[n] EXCEPT !.state = "running"]
             ts    == [row.attempts EXCEPT ![n] = x]
             state == IF row.state = "queued" THEN "running" ELSE row.state
             rev   == IF row.state = "queued" THEN row.rev + 1 ELSE row.rev
             audit == Append(row.audit, "attempt_started")
  <1>1. row.attempts \in Seq(Attempts) /\ row.attempts[n] \in Attempts
    BY DEF JobRows
  <1>2. x \in Attempts
    BY <1>1 DEF Attempts, Live
  <1>3. ts \in Seq(Attempts)
    BY <1>1, <1>2, AttemptReplaced
  <1>4. state \in JobStates /\ rev \in Nat /\ audit \in Seq(AuditKinds)
    BY DEF JobRows, JobStates, AuditKinds
  <1>5. Started(row, n) = [row EXCEPT !.attempts = ts, !.state = state,
                                      !.rev = rev, !.audit = audit]
    BY DEF Started, JobRows
  <1> HIDE DEF ts, state, rev, audit
  <1> QED
    BY <1>3, <1>4, <1>5 DEF JobRows

LEMMA FinishedType ==
    ASSUME NEW row \in JobRows, NEW n \in DOMAIN row.attempts, NEW j \in Jobs,
           NEW body, body.ok \in BOOLEAN, body.files \in SUBSET Files,
           NEW fires \in SUBSET Nat, Cardinality(fires) \in Nat
    PROVE  Finished(row, n, j, body, fires) \in JobRows
  <1> DEFINE verdict == AttemptVerdict(row, body.ok)
             x     == FinishedAttempt(row.attempts[n], verdict, body.files, fires)
             ts    == [row.attempts EXCEPT ![n] = x]
             state == JobVerdict(row, n, MaxAttempts(j), body.ok)
             rev   == row.rev + 1
             audit == row.audit \o FinishLog(fires)
  <1>1. row.attempts \in Seq(Attempts) /\ row.attempts[n] \in Attempts
    BY DEF JobRows
  <1>2. verdict \in Live \cup Ended
    BY DEF AttemptVerdict, Ended
  <1>3. row.attempts[n].files \cup body.files \in SUBSET Files
    BY <1>1 DEF Attempts
  <1>4. row.attempts[n].fired \cup {<<p, "finished">> : p \in fires} \in SUBSET Firings
    BY <1>1 DEF Attempts, Firings
  <1>5. x \in Attempts
    BY <1>1, <1>2, <1>3, <1>4 DEF Attempts, FinishedAttempt
  <1>6. ts \in Seq(Attempts)
    BY <1>1, <1>5, AttemptReplaced
  <1>7. state \in JobStates /\ rev \in Nat
    BY DEF JobRows, JobStates, JobVerdict, Ended
  <1>8. FinishLog(fires) \in Seq(AuditKinds)
    BY DEF FinishLog, AuditKinds
  <1>9. audit \in Seq(AuditKinds)
    BY <1>8 DEF JobRows
  <1>10. Finished(row, n, j, body, fires)
            = [row EXCEPT !.attempts = ts, !.state = state, !.rev = rev, !.audit = audit]
    BY DEF Finished
  <1> HIDE DEF ts, state, rev, audit
  <1> QED
    BY <1>6, <1>7, <1>9, <1>10 DEF JobRows

LEMMA FilesRecordedType ==
    ASSUME NEW row \in JobRows, NEW n \in DOMAIN row.attempts, NEW files \in SUBSET Files
    PROVE  FilesRecorded(row, n, files) \in JobRows
  <1> DEFINE x == [row.attempts[n] EXCEPT !.files = @ \cup files]
  <1>1. row.attempts \in Seq(Attempts) /\ row.attempts[n] \in Attempts
    BY DEF JobRows
  <1>2. x \in Attempts
    BY <1>1 DEF Attempts
  <1>3. [row.attempts EXCEPT ![n] = x] \in Seq(Attempts)
    BY <1>1, <1>2, AttemptReplaced
  <1> QED
    BY <1>3 DEF FilesRecorded, JobRows

LEMMA SampledType ==
    ASSUME NEW row \in JobRows, NEW n \in DOMAIN row.attempts, NEW point \in Points
    PROVE  Sampled(row, n, point) \in JobRows
  <1> DEFINE x == [attempt |-> n, point |-> point]
  <1>1. x \in Samples
    BY DEF Samples, JobRows
  <1>2. Append(row.samples, x) \in Seq(Samples)
    BY <1>1 DEF JobRows
  <1> QED
    BY <1>2 DEF Sampled, JobRows

\* applyWorkerEvent writes a well-formed row.
LEMMA AppliedType ==
    ASSUME NEW d, d.job \in [Jobs -> JobRows], NEW w, NEW body \in EventBodies,
           CanApply(d, w, body)
    PROVE  Applied(d, body) \in JobRows
  <1> DEFINE j == body.attempt[1]
             n == body.attempt[2]
             row == d.job[j]
  <1>1. body.attempt \in AttemptIds
    BY DEF EventBodies
  <1>2. j \in Jobs
    BY <1>1 DEF AttemptIds
  <1>3. row \in JobRows
    BY <1>2
  <1>4. n \in DOMAIN row.attempts
    BY DEF CanApply, Assigned
  <1>5. CASE body.kind = "attempt_accepted"
    BY <1>3, <1>4, <1>5, AcceptedType DEF Applied
  <1>6. CASE body.kind = "attempt_started"
    BY <1>3, <1>4, <1>6, StartedType DEF Applied
  <1>7. CASE body.kind = "attempt_finished"
    <2>1. body.ok \in BOOLEAN /\ body.files \in SUBSET Files
      BY <1>7 DEF EventBodies
    <2>2. /\ Cardinality(FiresOnFinish(d, j, row.attempts[n])) \in Nat
          /\ FiresOnFinish(d, j, row.attempts[n]) \in SUBSET Nat
      BY <1>2, FiresFinite
    <2>3. Applied(d, body) = Finished(row, n, j, body, FiresOnFinish(d, j, row.attempts[n]))
      BY <1>7 DEF Applied
    <2> DEFINE fires == FiresOnFinish(d, j, row.attempts[n])
    <2> HIDE DEF j, n, row, fires
    <2>4. Finished(row, n, j, body, fires) \in JobRows
      BY <1>2, <1>3, <1>4, <2>1, <2>2, FinishedType DEF fires
    <2> QED BY <2>3, <2>4 DEF j, n, row, fires
  <1>8. CASE body.kind = "artifacts"
    <2>1. body.files \in SUBSET Files
      BY <1>8 DEF EventBodies
    <2> QED
      BY <1>3, <1>4, <1>8, <2>1, FilesRecordedType DEF Applied
  <1>9. CASE body.kind = "metric_sample"
    <2>1. body.point \in Points
      BY <1>9 DEF EventBodies
    <2> QED
      BY <1>3, <1>4, <1>9, <2>1, SampledType DEF Applied
  <1> QED
    BY <1>5, <1>6, <1>7, <1>8, <1>9 DEF CanApply

\* Writing one job's row, and nothing else of a database.
LEMMA RowWritten ==
    ASSUME NEW d \in Databases, NEW j \in Jobs, NEW row \in JobRows
    PROVE  [d EXCEPT !.job[j] = row] \in Databases
  BY DEF Databases

\* recordWorkerEvent keeps the database well formed.
LEMMA RecordedType ==
    ASSUME NEW d \in Databases, NEW w \in Workers, NEW s \in Sessions,
           NEW e \in Events, CanRecord(d, w, s, e)
    PROVE  Recorded(d, w, s, e) \in Databases
  <1>1. CASE ~Fresh(d, w, s, e)
    BY <1>1 DEF Recorded
  <1>2. CASE Fresh(d, w, s, e)
    <2>1. CanApply(d, w, e.body)
      BY <1>2 DEF CanRecord, Fresh, Replayed, SameKey
    <2>2. e.body \in EventBodies
      BY DEF Events
    <2>3. Applied(d, e.body) \in JobRows
      BY <2>1, <2>2, AppliedType DEF Databases
    <2>4. e.body.attempt \in AttemptIds /\ e.body.kind \in EventKinds
      BY <2>2 DEF EventBodies, EventKinds
    <2>5. e.body.attempt[1] \in Jobs
      BY <2>4 DEF AttemptIds
    <2>6. EventRow(w, s, e) \in EventRows
      BY <2>4 DEF EventRow, EventRows, Events
    <2> DEFINE inserted == [d EXCEPT !.events = @ \cup {EventRow(w, s, e)}]
    <2>7. inserted \in Databases
      BY <2>6 DEF Databases
    <2>8. Recorded(d, w, s, e)
            = [inserted EXCEPT !.job[e.body.attempt[1]] = Applied(d, e.body)]
      BY <1>2 DEF Recorded, Databases
    <2> HIDE DEF inserted
    <2>9. [inserted EXCEPT !.job[e.body.attempt[1]] = Applied(d, e.body)] \in Databases
      BY <2>3, <2>5, <2>7, RowWritten
    <2> QED
      BY <2>8, <2>9
  <1> QED
    BY <1>1, <1>2

---------------------------------------------------------------------------
(* Types *)

LEMMA EmptyType == EmptyDatabase \in Databases
  <1>1. NoJobRow \in JobRows
    BY DEF NoJobRow, JobRows, JobStates
  <1> QED
    BY <1>1 DEF EmptyDatabase, Databases

LEMMA TypeInit == Init => TypeOK
  BY EmptyType DEF Init, TypeOK

LEMMA TypeNext == TypeOK /\ [Next]_vars => TypeOK'
  <1> SUFFICES ASSUME TypeOK, [Next]_vars PROVE TypeOK'
    OBVIOUS
  <1> USE DEF TypeOK
  <1>1. ASSUME NEW w \in Workers, CreateWorker(w) PROVE TypeOK'
    <2>1. [db EXCEPT !.worker[w] = "offline"] \in Databases
      BY DEF Databases
    <2> QED
      BY <1>1, <2>1 DEF CreateWorker, Do
  <1>2. ASSUME NEW t \in Targets, CreateWebhookTarget(t) PROVE TypeOK'
    <2>1. [db EXCEPT !.targets = @ \cup {t}] \in Databases
      BY DEF Databases
    <2> QED
      BY <1>2, <2>1 DEF CreateWebhookTarget, Do
  <1>3. ASSUME NEW k \in Keys, NEW j \in Jobs, NEW rank \in Ranks, CreateJob(k, j, rank)
        PROVE  TypeOK'
    <2>1. Submitted(rank) \in JobRows
      BY SubmittedType DEF Ranks
    <2> DEFINE d == [db EXCEPT !.job[j] = Submitted(rank)]
    <2>2. d \in Databases
      BY <2>1, RowWritten
    <2>3. [db EXCEPT !.job[j] = Submitted(rank), !.keys = @ \cup {<<k, j>>}]
            = [d EXCEPT !.keys = @ \cup {<<k, j>>}]
      BY DEF Databases
    <2> HIDE DEF d
    <2>4. [d EXCEPT !.keys = @ \cup {<<k, j>>}] \in Databases
      BY <2>2 DEF Databases
    <2> QED
      BY <1>3, <2>3, <2>4 DEF CreateJob, Do
  <1>4. ASSUME NEW j \in Jobs, CancelJob(j) PROVE TypeOK'
    <2>1. db.job[j] \in JobRows
      BY DEF Databases
    <2>2. [db EXCEPT !.job[j] = Canceled(db.job[j])] \in Databases
      BY <2>1, CanceledType, RowWritten
    <2> QED
      BY <1>4, <2>2 DEF CancelJob, Do
  <1>5. ASSUME NEW w \in Workers, NEW s \in Sessions, BeginSync(w, s) PROVE TypeOK'
    <2>1. [db EXCEPT !.worker[w] = "online"] \in Databases
      BY DEF Databases
    <2> QED
      BY <1>5, <2>1 DEF BeginSync, Requests
  <1>6. ASSUME NEW e \in Events, RecordEvent(e) PROVE TypeOK'
    <2>1. req \in Requests
      BY <1>6 DEF RecordEvent, Idle
    <2>2. req.worker \in Workers /\ req.session \in Sessions
      BY <2>1 DEF Requests
    <2> QED
      BY <1>6, <2>2, RecordedType DEF RecordEvent
  <1>7. ASSUME BeginOffers PROVE TypeOK'
    <2>1. req \in Requests
      BY <1>7 DEF BeginOffers, Idle
    <2>2. Candidates(tx) \subseteq Jobs
      BY DEF Candidates
    <2>3. req' \in Requests
      BY <1>7, <2>1, <2>2 DEF BeginOffers, Requests
    <2> QED
      BY <1>7, <2>3 DEF BeginOffers
  <1>8. ASSUME NEW j \in Jobs, OfferNext(j) PROVE TypeOK'
    <2>1. req \in Requests
      BY <1>8 DEF OfferNext, Idle
    <2>2. req.worker \in Workers /\ req.scan \in SUBSET Jobs
      BY <2>1 DEF Requests
    <2>3. tx.job[j] \in JobRows
      BY DEF Databases
    <2>4. [tx EXCEPT !.job[j] = Offered(tx.job[j], req.worker)] \in Databases
      BY <2>2, <2>3, OfferedType, RowWritten
    <2>5. req' \in Requests
      BY <1>8, <2>1 DEF OfferNext, Requests
    <2> QED
      BY <1>8, <2>4, <2>5 DEF OfferNext
  <1>9. ASSUME Commit PROVE TypeOK'
    BY <1>9 DEF Commit
  <1>10. ASSUME Rollback PROVE TypeOK'
    BY <1>10 DEF Rollback
  <1>11. ASSUME UNCHANGED vars PROVE TypeOK'
    BY <1>11 DEF vars
  <1> QED
    BY <1>1, <1>2, <1>3, <1>4, <1>5, <1>6, <1>7, <1>8, <1>9, <1>10, <1>11
       DEF Next, Operator, Sync

\* Every reachable state is well typed: the database that is committed, the one
\* the open transaction sees and the request being served.
THEOREM TypeCorrect == Spec => []TypeOK
  BY TypeInit, TypeNext, PTL DEF Spec

---------------------------------------------------------------------------
(* Coherence of a job's row *)

\* A live attempt of a coherent row is its last one: the others have failed.
LEMMA LiveIsLast ==
    ASSUME NEW row \in JobRows, NEW max, JobCoherent(row, max),
           NEW n \in DOMAIN row.attempts, row.attempts[n].state \in Live
    PROVE  n = Len(row.attempts)
  <1>1. n \in 1 .. Len(row.attempts) /\ Len(row.attempts) \in Nat
    BY DEF JobRows
  <1>2. row.attempts[n].state # "failed"
    BY DEF Live
  <1> QED
    BY <1>1, <1>2 DEF JobCoherent

LEMMA SubmittedCoherent ==
    ASSUME NEW rank, NEW max \in Nat PROVE JobCoherent(Submitted(rank), max)
  BY DEF JobCoherent, Submitted

LEMMA CanceledCoherent ==
    ASSUME NEW row \in JobRows, NEW max \in Nat, JobCoherent(row, max), CanCancel(row)
    PROVE  JobCoherent(Canceled(row), max)
  <1>1. Canceled(row).attempts = row.attempts
    BY DEF Canceled, JobRows
  <1>2. CASE HasLiveAttempt(row)
    <2>1. PICK n \in DOMAIN row.attempts : row.attempts[n].state \in Live
      BY <1>2 DEF HasLiveAttempt
    <2>2. n = Len(row.attempts) /\ n > 0
      BY <2>1, LiveIsLast DEF JobRows
    <2>3. Canceled(row).state = "canceling"
      BY <1>2 DEF Canceled, JobRows
    <2> QED
      BY <1>1, <2>1, <2>2, <2>3 DEF JobCoherent
  <1>3. CASE ~HasLiveAttempt(row)
    <2>1. Canceled(row).state = "canceled"
      BY <1>3 DEF Canceled, JobRows
    <2>2. Len(row.attempts) = 0 \/ row.attempts[Len(row.attempts)].state \notin Live
      BY <1>3 DEF HasLiveAttempt, JobRows
    <2> QED
      BY <1>1, <2>1, <2>2 DEF JobCoherent, CanCancel, Live
  <1> QED
    BY <1>2, <1>3

LEMMA OfferedCoherent ==
    ASSUME NEW row \in JobRows, NEW max \in Nat \ {0}, NEW w,
           JobCoherent(row, max), Schedulable(row)
    PROVE  JobCoherent(Offered(row, w), max)
  <1> DEFINE N == Len(row.attempts)
             ts == Offered(row, w).attempts
  <1>1. /\ N \in Nat
        /\ Offered(row, w).state = "queued"
        /\ Len(ts) = N + 1
        /\ ts[N + 1].state = "offered"
        /\ \A n \in 1 .. N : ts[n] = row.attempts[n]
    BY DEF Offered, JobRows, Schedulable
  <1>2. N = 0 \/ row.attempts[N].state \notin Live
    BY <1>1 DEF Schedulable, HasLiveAttempt, JobRows
  <1>3. N = 0 \/ (row.attempts[N].state = "failed" /\ N < max)
    BY <1>2 DEF JobCoherent, Schedulable, Live
  <1>4. \A n \in 1 .. N : row.attempts[n].state = "failed"
    BY <1>1, <1>3 DEF JobCoherent
  <1> QED
    BY <1>1, <1>3, <1>4 DEF JobCoherent

\* Changing only what coherence does not look at.
LEMMA SameStatesCoherent ==
    ASSUME NEW row, NEW new, NEW max, JobCoherent(row, max),
           new.state = row.state, Len(new.attempts) = Len(row.attempts),
           \A m \in 1 .. Len(row.attempts) : new.attempts[m].state = row.attempts[m].state,
           Len(row.attempts) \in Nat
    PROVE  JobCoherent(new, max)
  BY DEF JobCoherent

\* A row whose last attempt moves, together with the job's state.
LEMMA LastMovesCoherent ==
    ASSUME NEW row \in JobRows, NEW max \in Nat, JobCoherent(row, max),
           NEW new \in JobRows, NEW n \in DOMAIN row.attempts,
           row.attempts[n].state \in Live,
           Len(new.attempts) = Len(row.attempts),
           \A m \in DOMAIN row.attempts \ {n} : new.attempts[m] = row.attempts[m],
           \/ new.state = "queued" /\ new.attempts[n].state \in {"offered", "accepted"}
           \/ new.state = "queued" /\ new.attempts[n].state = "failed" /\ n < max
           \/ new.state = "running" /\ new.attempts[n].state = "running"
           \/ new.state = "canceling" /\ new.attempts[n].state \in Live
           \/ new.state = "succeeded" /\ new.attempts[n].state = "succeeded"
           \/ new.state = "failed" /\ new.attempts[n].state = "failed" /\ n = max
           \/ new.state = "canceled" /\ new.attempts[n].state = "canceled"
    PROVE  JobCoherent(new, max)
  <1>1. n = Len(row.attempts)
    BY LiveIsLast
  <1>2. /\ DOMAIN row.attempts = 1 .. Len(row.attempts)
        /\ Len(row.attempts) \in Nat
        /\ Len(row.attempts) > 0
    BY <1>1 DEF JobRows
  <1>3. \A m \in 1 .. n - 1 : new.attempts[m].state = "failed"
    BY SMTT(30), <1>1, <1>2 DEF JobCoherent
  <1>4. n <= max
    BY <1>1 DEF JobCoherent
  <1> QED
    BY <1>1, <1>2, <1>3, <1>4 DEF JobCoherent

\* The state a coherent job shows while an attempt of it is live.
LEMMA LiveJobState ==
    ASSUME NEW row \in JobRows, NEW max \in Nat, JobCoherent(row, max),
           NEW n \in DOMAIN row.attempts, row.attempts[n].state \in Live
    PROVE  /\ row.state \in {"queued", "running", "canceling"}
           /\ row.state = "queued" => row.attempts[n].state \in {"offered", "accepted"}
           /\ row.state = "running" => row.attempts[n].state = "running"
  <1>1. n = Len(row.attempts) /\ Len(row.attempts) > 0
    BY LiveIsLast DEF JobRows
  <1>2. row.state \in JobStates
    BY DEF JobRows
  <1> QED
    BY <1>1, <1>2 DEF JobCoherent, JobStates, Live, Ended

LEMMA AcceptedCoherent ==
    ASSUME NEW row \in JobRows, NEW max \in Nat, JobCoherent(row, max),
           NEW n \in DOMAIN row.attempts, row.attempts[n].state = "offered"
    PROVE  JobCoherent(Accepted(row, n), max)
  <1> DEFINE new == Accepted(row, n)
  <1>1. row.attempts[n].state \in Live /\ row.attempts[n] \in Attempts
    BY DEF Live, JobRows
  <1>2. new \in JobRows
    BY AcceptedType
  <1>3. /\ new.state = row.state
        /\ new.attempts = [row.attempts EXCEPT ![n] = [@ EXCEPT !.state = "accepted"]]
    BY DEF Accepted, JobRows
  <1>4. /\ Len(new.attempts) = Len(row.attempts)
        /\ \A m \in DOMAIN row.attempts \ {n} : new.attempts[m] = row.attempts[m]
        /\ new.attempts[n].state = "accepted"
    BY <1>1, <1>3 DEF JobRows, Attempts
  <1>5. row.state \in {"queued", "canceling"}
    BY <1>1, LiveJobState
  <1> HIDE DEF new
  <1>6. \/ new.state = "queued" /\ new.attempts[n].state \in {"offered", "accepted"}
        \/ new.state = "canceling" /\ new.attempts[n].state \in Live
    BY <1>3, <1>4, <1>5 DEF Live
  <1>7. JobCoherent(new, max)
    BY <1>1, <1>2, <1>4, <1>6, LastMovesCoherent
  <1> QED
    BY <1>7 DEF new

LEMMA StartedCoherent ==
    ASSUME NEW row \in JobRows, NEW max \in Nat, JobCoherent(row, max),
           NEW n \in DOMAIN row.attempts, row.attempts[n].state \in {"offered", "accepted"}
    PROVE  JobCoherent(Started(row, n), max)
  <1> DEFINE new == Started(row, n)
  <1>1. row.attempts[n].state \in Live /\ row.attempts[n] \in Attempts
    BY DEF Live, JobRows
  <1>2. new \in JobRows
    BY StartedType
  <1>3. /\ new.state = IF row.state = "queued" THEN "running" ELSE row.state
        /\ new.attempts = [row.attempts EXCEPT ![n] = [@ EXCEPT !.state = "running"]]
    BY DEF Started, JobRows
  <1>4. /\ Len(new.attempts) = Len(row.attempts)
        /\ \A m \in DOMAIN row.attempts \ {n} : new.attempts[m] = row.attempts[m]
        /\ new.attempts[n].state = "running"
    BY <1>1, <1>3 DEF JobRows, Attempts
  <1>5. row.state \in {"queued", "canceling"}
    BY <1>1, LiveJobState
  <1> HIDE DEF new
  <1>6. JobCoherent(new, max)
    BY ZenonT(30), <1>1, <1>2, <1>3, <1>4, <1>5, LastMovesCoherent DEF Live
  <1> QED
    BY <1>6 DEF new

LEMMA FinishedCoherent ==
    ASSUME NEW row \in JobRows, NEW j \in Jobs, JobCoherent(row, MaxAttempts(j)),
           NEW n \in DOMAIN row.attempts, row.attempts[n].state \in {"accepted", "running"},
           NEW body, body.ok \in BOOLEAN, body.files \in SUBSET Files,
           NEW fires \in SUBSET Nat, Cardinality(fires) \in Nat
    PROVE  JobCoherent(Finished(row, n, j, body, fires), MaxAttempts(j))
  <1> DEFINE new == Finished(row, n, j, body, fires)
             verdict == AttemptVerdict(row, body.ok)
             max == MaxAttempts(j)
  <1>0. max \in Nat
    BY SpecAssumption
  <1>1. row.attempts[n].state \in Live /\ row.attempts[n] \in Attempts
    BY DEF Live, JobRows
  <1>2. new \in JobRows
    BY FinishedType
  <1>3. /\ new.state = JobVerdict(row, n, max, body.ok)
        /\ new.attempts = [row.attempts EXCEPT
                              ![n] = FinishedAttempt(@, verdict, body.files, fires)]
    BY DEF Finished, JobRows
  <1>4. FinishedAttempt(row.attempts[n], verdict, body.files, fires).state = verdict
    BY <1>1 DEF FinishedAttempt, Attempts
  <1>5. /\ Len(new.attempts) = Len(row.attempts)
        /\ \A m \in DOMAIN row.attempts \ {n} : new.attempts[m] = row.attempts[m]
        /\ new.attempts[n].state = verdict
    BY <1>3, <1>4 DEF JobRows
  <1>6. row.state \in {"queued", "running", "canceling"}
    BY <1>0, <1>1, LiveJobState
  <1>7. n \in Nat /\ n <= max
    BY <1>0, <1>1, LiveIsLast DEF JobCoherent, JobRows
  <1>8. \/ new.state = "queued" /\ verdict = "failed" /\ n < max
        \/ new.state = "succeeded" /\ verdict = "succeeded"
        \/ new.state = "failed" /\ verdict = "failed" /\ n = max
        \/ new.state = "canceled" /\ verdict = "canceled"
    BY <1>0, <1>3, <1>6, <1>7 DEF JobVerdict, AttemptVerdict
  <1> HIDE DEF new, verdict, max
  <1>9. JobCoherent(row, max)
    BY DEF max
  <1>10. JobCoherent(new, max)
    BY <1>0, <1>1, <1>2, <1>5, <1>8, <1>9, LastMovesCoherent
  <1> QED
    BY <1>10 DEF new, max

LEMMA FilesRecordedCoherent ==
    ASSUME NEW row \in JobRows, NEW max \in Nat, JobCoherent(row, max),
           NEW n \in DOMAIN row.attempts, NEW files
    PROVE  JobCoherent(FilesRecorded(row, n, files), max)
  <1> DEFINE x   == [row.attempts[n] EXCEPT !.files = @ \cup files]
             new == FilesRecorded(row, n, files)
  <1>1. /\ row.attempts \in Seq(Attempts)
        /\ row.attempts[n] \in Attempts
        /\ Len(row.attempts) \in Nat
    BY DEF JobRows
  <1>2. new.state = row.state /\ new.attempts = [row.attempts EXCEPT ![n] = x]
    BY DEF FilesRecorded, JobRows
  <1>3. x.state = row.attempts[n].state
    BY <1>1 DEF Attempts
  <1> HIDE DEF x
  <1>4. /\ Len(new.attempts) = Len(row.attempts)
        /\ \A m \in 1 .. Len(row.attempts) : new.attempts[m].state = row.attempts[m].state
    BY <1>1, <1>2, <1>3
  <1> HIDE DEF new
  <1>5. JobCoherent(new, max)
    BY <1>1, <1>2, <1>4, SameStatesCoherent
  <1> QED
    BY <1>5 DEF new

LEMMA SampledCoherent ==
    ASSUME NEW row \in JobRows, NEW max \in Nat, JobCoherent(row, max),
           NEW n \in DOMAIN row.attempts, NEW point
    PROVE  JobCoherent(Sampled(row, n, point), max)
  <1>1. /\ Sampled(row, n, point).state = row.state
        /\ Sampled(row, n, point).attempts = row.attempts
    BY DEF Sampled, JobRows
  <1> QED
    BY <1>1 DEF JobCoherent

\* applyWorkerEvent keeps the row coherent.
LEMMA AppliedCoherent ==
    ASSUME NEW d \in Databases, NEW w, NEW body \in EventBodies, CanApply(d, w, body),
           JobCoherent(d.job[body.attempt[1]], MaxAttempts(body.attempt[1]))
    PROVE  JobCoherent(Applied(d, body), MaxAttempts(body.attempt[1]))
  <1> DEFINE j == body.attempt[1]
             n == body.attempt[2]
             row == d.job[j]
  <1>1. body.attempt \in AttemptIds
    BY DEF EventBodies
  <1>2. j \in Jobs
    BY <1>1 DEF AttemptIds
  <1>3. row \in JobRows /\ MaxAttempts(j) \in Nat
    BY <1>2, SpecAssumption DEF Databases
  <1>4. n \in DOMAIN row.attempts
    BY DEF CanApply, Assigned
  <1>5. CASE body.kind = "attempt_accepted"
    BY <1>3, <1>4, <1>5, AcceptedCoherent DEF Applied, CanApply
  <1>6. CASE body.kind = "attempt_started"
    BY <1>3, <1>4, <1>6, StartedCoherent DEF Applied, CanApply
  <1>7. CASE body.kind = "attempt_finished"
    <2>1. body.ok \in BOOLEAN /\ body.files \in SUBSET Files
      BY <1>7 DEF EventBodies
    <2>2. /\ Cardinality(FiresOnFinish(d, j, row.attempts[n])) \in Nat
          /\ FiresOnFinish(d, j, row.attempts[n]) \in SUBSET Nat
      BY <1>2, FiresFinite
    <2>3. row.attempts[n].state \in {"accepted", "running"}
      BY <1>7 DEF CanApply
    <2>4. Applied(d, body) = Finished(row, n, j, body, FiresOnFinish(d, j, row.attempts[n]))
      BY <1>7 DEF Applied
    <2>5. JobCoherent(row, MaxAttempts(j))
      OBVIOUS
    <2> DEFINE fires == FiresOnFinish(d, j, row.attempts[n])
    <2> HIDE DEF j, n, row, fires
    <2>6. JobCoherent(Finished(row, n, j, body, fires), MaxAttempts(j))
      BY <1>2, <1>3, <1>4, <2>1, <2>2, <2>3, <2>5, FinishedCoherent DEF fires
    <2> QED BY <2>4, <2>6 DEF j, n, row, fires
  <1>8. CASE body.kind = "artifacts"
    BY <1>3, <1>4, <1>8, FilesRecordedCoherent DEF Applied
  <1>9. CASE body.kind = "metric_sample"
    BY <1>3, <1>4, <1>9, SampledCoherent DEF Applied
  <1> QED
    BY <1>5, <1>6, <1>7, <1>8, <1>9 DEF CanApply

---------------------------------------------------------------------------
(* Coherence of the store *)

RowsCoherent(d) == \A j \in Jobs : JobCoherent(d.job[j], MaxAttempts(j))

\* The inductive strengthening of JobsCoherent: the open transaction's rows are
\* coherent too, and what the offer loop has yet to look at is still schedulable
\* (the candidate query ran before the loop).
CoherenceInv ==
    /\ TypeOK
    /\ RowsCoherent(db)
    /\ RowsCoherent(tx)
    /\ req.phase = "offers" => \A j \in req.scan : Schedulable(tx.job[j])

LEMMA CoherenceInit == Init => CoherenceInv
  <1> SUFFICES ASSUME Init PROVE CoherenceInv
    OBVIOUS
  <1>1. \A j \in Jobs : JobCoherent(NoJobRow, MaxAttempts(j))
    BY SpecAssumption DEF JobCoherent, NoJobRow
  <1>2. RowsCoherent(EmptyDatabase)
    BY <1>1 DEF RowsCoherent, EmptyDatabase
  <1> QED
    BY <1>2, TypeInit DEF Init, CoherenceInv, Idle

\* Writing a coherent row to a coherent database.
LEMMA RowWrittenCoherent ==
    ASSUME NEW d \in Databases, RowsCoherent(d), NEW j \in Jobs, NEW row,
           JobCoherent(row, MaxAttempts(j)), NEW e,
           \A i \in Jobs : e.job[i] = IF i = j THEN row ELSE d.job[i]
    PROVE  RowsCoherent(e)
  BY DEF RowsCoherent

LEMMA CoherenceNext == CoherenceInv /\ [Next]_vars => CoherenceInv'
  <1> SUFFICES ASSUME CoherenceInv, [Next]_vars PROVE CoherenceInv'
    OBVIOUS
  <1> USE DEF CoherenceInv
  <1>0. TypeOK' /\ db \in Databases /\ tx \in Databases
    BY TypeNext DEF TypeOK
  <1>1. ASSUME NEW w \in Workers, CreateWorker(w) PROVE CoherenceInv'
    <2>1. db' = [db EXCEPT !.worker[w] = "offline"] /\ tx' = db' /\ req = Idle /\ req' = req
      BY <1>1 DEF CreateWorker, Do
    <2>2. db'.job = db.job
      BY <1>0, <2>1 DEF Databases
    <2> QED
      BY <1>0, <2>1, <2>2 DEF RowsCoherent, Idle
  <1>2. ASSUME NEW t \in Targets, CreateWebhookTarget(t) PROVE CoherenceInv'
    <2>1. db' = [db EXCEPT !.targets = @ \cup {t}] /\ tx' = db' /\ req = Idle /\ req' = req
      BY <1>2 DEF CreateWebhookTarget, Do
    <2>2. db'.job = db.job
      BY <1>0, <2>1 DEF Databases
    <2> QED
      BY <1>0, <2>1, <2>2 DEF RowsCoherent, Idle
  <1>3. ASSUME NEW k \in Keys, NEW j \in Jobs, NEW rank \in Ranks, CreateJob(k, j, rank)
        PROVE  CoherenceInv'
    <2>1. /\ db' = [db EXCEPT !.job[j] = Submitted(rank), !.keys = @ \cup {<<k, j>>}]
          /\ tx' = db' /\ req = Idle /\ req' = req
      BY <1>3 DEF CreateJob, Do
    <2>2. \A i \in Jobs : db'.job[i] = IF i = j THEN Submitted(rank) ELSE db.job[i]
      BY <1>0, <2>1 DEF Databases
    <2>3. JobCoherent(Submitted(rank), MaxAttempts(j))
      BY SubmittedCoherent, SpecAssumption
    <2>4. RowsCoherent(db')
      BY <1>0, <2>2, <2>3, RowWrittenCoherent
    <2> QED
      BY <1>0, <2>1, <2>4 DEF RowsCoherent, Idle
  <1>4. ASSUME NEW j \in Jobs, CancelJob(j) PROVE CoherenceInv'
    <2>1. /\ db' = [db EXCEPT !.job[j] = Canceled(db.job[j])]
          /\ tx' = db' /\ req = Idle /\ req' = req
      BY <1>4 DEF CancelJob, Do
    <2>2. \A i \in Jobs : db'.job[i] = IF i = j THEN Canceled(db.job[j]) ELSE db.job[i]
      BY <1>0, <2>1 DEF Databases
    <2>3. db.job[j] \in JobRows /\ CanCancel(db.job[j]) /\ MaxAttempts(j) \in Nat
      BY <1>0, <1>4, SpecAssumption DEF Databases, CancelJob
    <2>4. JobCoherent(Canceled(db.job[j]), MaxAttempts(j))
      BY <2>3, CanceledCoherent DEF RowsCoherent
    <2>5. RowsCoherent(db')
      BY <1>0, <2>2, <2>4, RowWrittenCoherent
    <2> QED
      BY <1>0, <2>1, <2>5 DEF RowsCoherent, Idle
  <1>5. ASSUME NEW w \in Workers, NEW s \in Sessions, BeginSync(w, s) PROVE CoherenceInv'
    <2>1. tx'.job = db.job /\ db' = db /\ req'.phase = "events"
      BY <1>0, <1>5 DEF BeginSync, Databases
    <2> QED
      BY <1>0, <2>1 DEF RowsCoherent
  <1>6. ASSUME NEW e \in Events, RecordEvent(e) PROVE CoherenceInv'
    <2> DEFINE w == req.worker
               s == req.session
               j == e.body.attempt[1]
    <2>1. /\ CanRecord(tx, w, s, e)
          /\ tx' = Recorded(tx, w, s, e)
          /\ db' = db /\ req' = req /\ req.phase = "events"
      BY <1>6 DEF RecordEvent
    <2>2. CASE ~Fresh(tx, w, s, e)
      BY <1>0, <2>1, <2>2 DEF Recorded
    <2>3. CASE Fresh(tx, w, s, e)
      <3>1. CanApply(tx, w, e.body)
        BY <2>1, <2>3 DEF CanRecord, Fresh, Replayed, SameKey
      <3>2. e.body \in EventBodies /\ j \in Jobs
        BY DEF Events, EventBodies, AttemptIds
      <3>3. JobCoherent(Applied(tx, e.body), MaxAttempts(j))
        BY <1>0, <3>1, <3>2, AppliedCoherent DEF RowsCoherent
      <3>4. \A i \in Jobs : tx'.job[i] = IF i = j THEN Applied(tx, e.body) ELSE tx.job[i]
        BY <1>0, <2>1, <2>3, <3>2 DEF Recorded, Databases
      <3>5. RowsCoherent(tx')
        BY <1>0, <3>2, <3>3, <3>4, RowWrittenCoherent
      <3> QED
        BY <1>0, <2>1, <3>5
    <2> QED
      BY <2>2, <2>3
  <1>7. ASSUME BeginOffers PROVE CoherenceInv'
    <2>1. tx' = tx /\ db' = db /\ req'.scan \subseteq Candidates(tx)
      BY <1>7 DEF BeginOffers, TypeOK, Requests, Idle
    <2>2. \A j \in Candidates(tx) : Schedulable(tx.job[j])
      BY DEF Candidates
    <2> QED
      BY <1>0, <2>1, <2>2
  <1>8. ASSUME NEW j \in Jobs, OfferNext(j) PROVE CoherenceInv'
    <2> DEFINE w == req.worker
    <2>1. /\ db' = db
          /\ req.phase = "offers"
          /\ j \in req.scan
          /\ \/ tx' = tx
             \/ tx' = [tx EXCEPT !.job[j] = Offered(tx.job[j], w)]
      BY <1>8 DEF OfferNext
    <2>2. req'.scan = req.scan \ {j}
      BY <1>8 DEF OfferNext, TypeOK, Requests, Idle
    <2>3. CASE tx' = tx
      BY <1>0, <2>1, <2>2, <2>3
    <2>4. CASE tx' = [tx EXCEPT !.job[j] = Offered(tx.job[j], w)]
      <3>1. \A i \in Jobs : tx'.job[i] = IF i = j THEN Offered(tx.job[j], w) ELSE tx.job[i]
        BY <1>0, <2>4 DEF Databases
      <3>2. tx.job[j] \in JobRows /\ MaxAttempts(j) \in Nat \ {0}
        BY <1>0, SpecAssumption DEF Databases
      <3>3. JobCoherent(Offered(tx.job[j], w), MaxAttempts(j))
        BY <2>1, <3>2, OfferedCoherent DEF RowsCoherent
      <3>4. RowsCoherent(tx')
        BY <1>0, <3>1, <3>3, RowWrittenCoherent
      <3>5. req.scan \subseteq Jobs
        BY <2>1 DEF TypeOK, Requests, Idle
      <3> QED
        BY <1>0, <2>1, <2>2, <3>1, <3>4, <3>5
    <2> QED
      BY <2>1, <2>3, <2>4
  <1>9. ASSUME Commit PROVE CoherenceInv'
    BY <1>0, <1>9 DEF Commit, Idle
  <1>10. ASSUME Rollback PROVE CoherenceInv'
    BY <1>0, <1>10 DEF Rollback, Idle
  <1>11. ASSUME UNCHANGED vars PROVE CoherenceInv'
    BY <1>0, <1>11 DEF vars
  <1> QED
    BY <1>1, <1>2, <1>3, <1>4, <1>5, <1>6, <1>7, <1>8, <1>9, <1>10, <1>11
       DEF Next, Operator, Sync

LEMMA Coherence == Spec => []CoherenceInv
  BY CoherenceInit, CoherenceNext, PTL DEF Spec

\* Whatever workers send and operators do, and wherever a sync is cut short, a
\* committed job has at most one live attempt, stays within its retry budget and
\* shows the state its attempts explain.
THEOREM JobsStayCoherent == Spec => []JobsCoherent
  <1>1. CoherenceInv => JobsCoherent
    BY DEF CoherenceInv, RowsCoherent, JobsCoherent
  <1> QED
    BY <1>1, Coherence, PTL

---------------------------------------------------------------------------
(* What a step does to the two copies of the database *)

\* The tables that tell a job's history are the same; targets are only added.
SameTables(d, e) ==
    /\ e.job = d.job /\ e.keys = d.keys /\ e.events = d.events
    /\ d.targets \subseteq e.targets

\* Job j's row, and no other, becomes `row`.
Wrote(d, e, j, row) ==
    /\ \A i \in Jobs : e.job[i] = IF i = j THEN row ELSE d.job[i]
    /\ e.targets = d.targets

StepCreates(k, j, rank) ==
    /\ req = Idle /\ tx' = db'
    /\ Wrote(db, db', j, Submitted(rank))
    /\ db.job[j].state = "absent"
    /\ \A i \in Jobs : <<k, i>> \notin db.keys /\ db.job[i].created # rank
    /\ db'.keys = db.keys \cup {<<k, j>>} /\ db'.events = db.events
    /\ \A p \in Policies(j) : JobSpec[j].health[p].target \in db.targets

StepCancels(j) ==
    /\ req = Idle /\ tx' = db'
    /\ CanCancel(db.job[j])
    /\ Wrote(db, db', j, Canceled(db.job[j]))
    /\ db'.keys = db.keys /\ db'.events = db.events

StepRecords(w, s, e) ==
    /\ db' = db /\ req' = req /\ req.phase = "events"
    /\ Fresh(tx, w, s, e) /\ CanApply(tx, w, e.body)
    /\ Wrote(tx, tx', e.body.attempt[1], Applied(tx, e.body))
    /\ tx'.keys = tx.keys /\ tx'.events = tx.events \cup {EventRow(w, s, e)}

StepOffers(j) ==
    /\ db' = db /\ req.phase = "offers" /\ req'.phase = "offers"
    /\ req.worker \in Workers /\ req'.worker = req.worker
    /\ Schedulable(tx.job[j])
    /\ Slack(tx, req.worker)
    /\ JobFits(JobSpec[j], WithDefaults(Capacity[req.worker]),
               CurrentAllocation(Held(tx, req.worker)))
    /\ Wrote(tx, tx', j, Offered(tx.job[j], req.worker))
    /\ tx'.keys = tx.keys /\ tx'.events = tx.events

\* A turn of the offer loop that leaves the job where it is.
StepSkips == db' = db /\ tx' = tx /\ req # Idle /\ req'.phase = "offers"

LEMMA OfferOrSkip ==
    ASSUME CoherenceInv, NEW j \in Jobs, OfferNext(j)
    PROVE  LET fits == JobFits(JobSpec[j], WithDefaults(Capacity[req.worker]),
                               CurrentAllocation(Held(tx, req.worker)))
           IN  (fits /\ StepOffers(j)) \/ (~fits /\ StepSkips)
  <1> DEFINE w == req.worker
             fits == JobFits(JobSpec[j], WithDefaults(Capacity[w]),
                             CurrentAllocation(Held(tx, w)))
  <1>0. db \in Databases /\ tx \in Databases /\ req \in Requests \cup {Idle}
    BY DEF CoherenceInv, TypeOK
  <1>1. /\ db' = db /\ req.phase = "offers" /\ j \in req.scan /\ Slack(tx, w)
        /\ tx' = IF fits THEN [tx EXCEPT !.job[j] = Offered(tx.job[j], w)] ELSE tx
    BY DEF OfferNext
  <1>2. req \in Requests /\ w \in Workers
    BY <1>0, <1>1 DEF Requests, Idle
  <1>3. req'.phase = "offers" /\ req'.worker = w
    BY <1>1, <1>2 DEF OfferNext, Requests
  <1>4. CASE ~fits
    BY <1>1, <1>3, <1>4 DEF Idle, StepSkips
  <1>5. CASE fits
    <2>1. tx' = [tx EXCEPT !.job[j] = Offered(tx.job[j], w)]
      BY <1>1, <1>5
    <2>2. Wrote(tx, tx', j, Offered(tx.job[j], w))
      BY <1>0, <2>1 DEF Wrote, Databases
    <2>3. tx'.keys = tx.keys /\ tx'.events = tx.events
      BY <1>0, <2>1 DEF Databases
    <2>4. Schedulable(tx.job[j])
      BY <1>1 DEF CoherenceInv
    <2>5. StepOffers(j)
      BY <1>1, <1>2, <1>3, <1>5, <2>2, <2>3, <2>4 DEF StepOffers
    <2> QED
      BY <1>5, <2>5
  <1> QED
    BY <1>4, <1>5

\* Every step creates, cancels, records or offers, publishes what the open
\* transaction wrote, or leaves the tables alone: a transaction that opens or ends
\* without a commit sees what is committed.
LEMMA StepCases ==
    ASSUME CoherenceInv, [Next]_vars
    PROVE  \/ SameTables(db, db') /\ tx' = db' /\ req = Idle /\ req' = Idle
           \/ db' = db /\ SameTables(db, tx') /\ (req' = Idle \/ req'.phase = "events")
           \/ db' = db /\ tx' = tx /\ (req' = req \/ (req # Idle /\ req'.phase = "offers"))
           \/ db' = tx /\ tx' = tx /\ req.phase = "offers" /\ req' = Idle
           \/ \E k \in Keys, j \in Jobs, rank \in Nat : StepCreates(k, j, rank)
           \/ \E j \in Jobs : StepCancels(j)
           \/ \E w \in Workers, s \in Sessions, e \in Events : StepRecords(w, s, e)
           \/ \E j \in Jobs : StepOffers(j)
  <1> DEFINE Goal ==
           \/ SameTables(db, db') /\ tx' = db' /\ req = Idle /\ req' = Idle
           \/ db' = db /\ SameTables(db, tx') /\ (req' = Idle \/ req'.phase = "events")
           \/ db' = db /\ tx' = tx /\ (req' = req \/ (req # Idle /\ req'.phase = "offers"))
           \/ db' = tx /\ tx' = tx /\ req.phase = "offers" /\ req' = Idle
           \/ \E k \in Keys, j \in Jobs, rank \in Nat : StepCreates(k, j, rank)
           \/ \E j \in Jobs : StepCancels(j)
           \/ \E w \in Workers, s \in Sessions, e \in Events : StepRecords(w, s, e)
           \/ \E j \in Jobs : StepOffers(j)
  <1> SUFFICES Goal
    OBVIOUS
  <1>0. db \in Databases /\ tx \in Databases /\ req \in Requests \cup {Idle}
    BY DEF CoherenceInv, TypeOK
  <1>1. ASSUME NEW w \in Workers, CreateWorker(w) PROVE Goal
    BY <1>0, <1>1 DEF CreateWorker, Do, SameTables, Databases
  <1>2. ASSUME NEW t \in Targets, CreateWebhookTarget(t) PROVE Goal
    BY <1>0, <1>2 DEF CreateWebhookTarget, Do, SameTables, Databases
  <1>3. ASSUME NEW k \in Keys, NEW j \in Jobs, NEW rank \in Ranks, CreateJob(k, j, rank)
        PROVE  Goal
    <2>1. rank \in Nat
      BY DEF Ranks
    <2>2. db' = [db EXCEPT !.job[j] = Submitted(rank), !.keys = @ \cup {<<k, j>>}]
      BY <1>3 DEF CreateJob, Do
    <2>3. Wrote(db, db', j, Submitted(rank))
      BY <1>0, <2>2 DEF Wrote, Databases
    <2>4. db'.keys = db.keys \cup {<<k, j>>} /\ db'.events = db.events
      BY <1>0, <2>2 DEF Databases
    <2>5. StepCreates(k, j, rank)
      BY <1>3, <2>3, <2>4 DEF StepCreates, CreateJob, Do
    <2> QED
      BY <2>1, <2>5
  <1>4. ASSUME NEW j \in Jobs, CancelJob(j) PROVE Goal
    <2>1. db' = [db EXCEPT !.job[j] = Canceled(db.job[j])]
      BY <1>4 DEF CancelJob, Do
    <2>2. Wrote(db, db', j, Canceled(db.job[j]))
      BY <1>0, <2>1 DEF Wrote, Databases
    <2>3. db'.keys = db.keys /\ db'.events = db.events
      BY <1>0, <2>1 DEF Databases
    <2>4. StepCancels(j)
      BY <1>4, <2>2, <2>3 DEF StepCancels, CancelJob, Do
    <2> QED
      BY <2>4
  <1>5. ASSUME NEW w \in Workers, NEW s \in Sessions, BeginSync(w, s) PROVE Goal
    BY <1>0, <1>5 DEF BeginSync, SameTables, Databases
  <1>6. ASSUME NEW e \in Events, RecordEvent(e) PROVE Goal
    <2> DEFINE w == req.worker
               s == req.session
               j == e.body.attempt[1]
    <2>1. /\ CanRecord(tx, w, s, e)
          /\ tx' = Recorded(tx, w, s, e)
          /\ db' = db /\ req' = req /\ req.phase = "events"
      BY <1>6 DEF RecordEvent
    <2>2. w \in Workers /\ s \in Sessions
      BY <1>0, <2>1 DEF Requests, Idle
    <2>3. CASE ~Fresh(tx, w, s, e)
      BY <2>1, <2>3 DEF Recorded
    <2>4. CASE Fresh(tx, w, s, e)
      <3>1. CanApply(tx, w, e.body)
        BY <2>1, <2>4 DEF CanRecord, Fresh, Replayed, SameKey
      <3>2. j \in Jobs
        BY DEF Events, EventBodies, AttemptIds
      <3>3. tx' = [tx EXCEPT !.events = @ \cup {EventRow(w, s, e)},
                             !.job[j] = Applied(tx, e.body)]
        BY <2>1, <2>4 DEF Recorded
      <3>4. Wrote(tx, tx', j, Applied(tx, e.body))
        BY <1>0, <3>2, <3>3 DEF Wrote, Databases
      <3>5. tx'.keys = tx.keys /\ tx'.events = tx.events \cup {EventRow(w, s, e)}
        BY <1>0, <3>3 DEF Databases
      <3>6. StepRecords(w, s, e)
        BY <2>1, <2>4, <3>1, <3>4, <3>5 DEF StepRecords
      <3> QED
        BY <2>2, <3>6
    <2> QED
      BY <2>3, <2>4
  <1>7. ASSUME BeginOffers PROVE Goal
    BY <1>0, <1>7 DEF BeginOffers, Requests, Idle
  <1>8. ASSUME NEW j \in Jobs, OfferNext(j) PROVE Goal
    <2>1. StepOffers(j) \/ StepSkips
      BY <1>8, OfferOrSkip
    <2> QED
      BY <2>1 DEF StepSkips
  <1>9. ASSUME Commit PROVE Goal
    BY <1>9 DEF Commit, OffersDone
  <1>10. ASSUME Rollback PROVE Goal
    BY <1>0, <1>10 DEF Rollback, SameTables
  <1>11. ASSUME UNCHANGED vars PROVE Goal
    BY <1>11 DEF vars
  <1> QED
    BY <1>1, <1>2, <1>3, <1>4, <1>5, <1>6, <1>7, <1>8, <1>9, <1>10, <1>11
       DEF Next, Operator, Sync

---------------------------------------------------------------------------
(* What each operator leaves in a row *)

\* The attempts keep their places and only attempt n changes, to x.
Replaces(old, new, n, x) ==
    /\ Len(new.attempts) = Len(old.attempts)
    /\ DOMAIN new.attempts = DOMAIN old.attempts
    /\ \A m \in DOMAIN old.attempts : new.attempts[m] = IF m = n THEN x ELSE old.attempts[m]

LEMMA CanceledFields ==
    ASSUME NEW row \in JobRows
    PROVE  LET new == Canceled(row)
           IN  /\ new.attempts = row.attempts /\ new.samples = row.samples
               /\ new.created = row.created /\ new.rev = row.rev + 1
               /\ HasLiveAttempt(row) => /\ new.state = "canceling"
                                         /\ new.audit = Append(row.audit, "job_cancel_requested")
               /\ ~HasLiveAttempt(row) => /\ new.state = "canceled"
                                          /\ new.audit = Append(row.audit, "job_canceled")
  <1>1. CASE HasLiveAttempt(row)
    BY <1>1 DEF Canceled, JobRows
  <1>2. CASE ~HasLiveAttempt(row)
    BY <1>2 DEF Canceled, JobRows
  <1> QED
    BY <1>1, <1>2

LEMMA OfferedFields ==
    ASSUME NEW row \in JobRows, NEW w \in Workers
    PROVE  LET new == Offered(row, w)
           IN  /\ new.state = row.state /\ new.samples = row.samples
               /\ new.created = row.created /\ new.rev = row.rev
               /\ new.audit = Append(row.audit, "attempt_offered")
               /\ Len(new.attempts) = Len(row.attempts) + 1
               /\ DOMAIN new.attempts = DOMAIN row.attempts \cup {Len(row.attempts) + 1}
               /\ \A n \in DOMAIN row.attempts : new.attempts[n] = row.attempts[n]
               /\ new.attempts[Len(row.attempts) + 1]
                      = [worker |-> w, state |-> "offered", files |-> {}, fired |-> {}]
  <1> DEFINE x == [worker |-> w, state |-> "offered", files |-> {}, fired |-> {}]
  <1>1. x \in Attempts
    BY DEF Attempts, Live
  <1>2. row.attempts \in Seq(Attempts) /\ Len(row.attempts) \in Nat
    BY DEF JobRows
  <1>3. /\ Offered(row, w).attempts = Append(row.attempts, x)
        /\ Offered(row, w).audit = Append(row.audit, "attempt_offered")
        /\ Offered(row, w).state = row.state /\ Offered(row, w).samples = row.samples
        /\ Offered(row, w).created = row.created /\ Offered(row, w).rev = row.rev
    BY DEF Offered, JobRows
  <1> HIDE DEF x
  <1>4. /\ Len(Append(row.attempts, x)) = Len(row.attempts) + 1
        /\ DOMAIN Append(row.attempts, x) = DOMAIN row.attempts \cup {Len(row.attempts) + 1}
        /\ \A n \in DOMAIN row.attempts : Append(row.attempts, x)[n] = row.attempts[n]
        /\ Append(row.attempts, x)[Len(row.attempts) + 1] = x
    BY <1>1, <1>2
  <1> QED
    BY <1>3, <1>4 DEF x

LEMMA AcceptedFields ==
    ASSUME NEW row \in JobRows, NEW n \in DOMAIN row.attempts
    PROVE  LET new == Accepted(row, n)
           IN  /\ new.state = row.state /\ new.samples = row.samples
               /\ new.created = row.created /\ new.rev = row.rev /\ new.audit = row.audit
               /\ Replaces(row, new, n, [row.attempts[n] EXCEPT !.state = "accepted"])
  <1> DEFINE x == [row.attempts[n] EXCEPT !.state = "accepted"]
  <1>1. row.attempts \in Seq(Attempts) /\ row.attempts[n] \in Attempts
    BY DEF JobRows
  <1>2. x \in Attempts
    BY <1>1 DEF Attempts, Live
  <1>3. /\ Accepted(row, n).attempts = [row.attempts EXCEPT ![n] = x]
        /\ Accepted(row, n).state = row.state /\ Accepted(row, n).samples = row.samples
        /\ Accepted(row, n).created = row.created /\ Accepted(row, n).rev = row.rev
        /\ Accepted(row, n).audit = row.audit
    BY DEF Accepted, JobRows
  <1> HIDE DEF x
  <1> QED
    BY <1>1, <1>2, <1>3, AttemptReplaced DEF Replaces, x

LEMMA StartedFields ==
    ASSUME NEW row \in JobRows, NEW n \in DOMAIN row.attempts
    PROVE  LET new == Started(row, n)
           IN  /\ new.state = IF row.state = "queued" THEN "running" ELSE row.state
               /\ new.rev = IF row.state = "queued" THEN row.rev + 1 ELSE row.rev
               /\ new.samples = row.samples /\ new.created = row.created
               /\ new.audit = Append(row.audit, "attempt_started")
               /\ Replaces(row, new, n, [row.attempts[n] EXCEPT !.state = "running"])
  <1> DEFINE x == [row.attempts[n] EXCEPT !.state = "running"]
  <1>1. row.attempts \in Seq(Attempts) /\ row.attempts[n] \in Attempts
    BY DEF JobRows
  <1>2. x \in Attempts
    BY <1>1 DEF Attempts, Live
  <1>3. /\ Started(row, n).attempts = [row.attempts EXCEPT ![n] = x]
        /\ Started(row, n).state = IF row.state = "queued" THEN "running" ELSE row.state
        /\ Started(row, n).rev = IF row.state = "queued" THEN row.rev + 1 ELSE row.rev
        /\ Started(row, n).samples = row.samples /\ Started(row, n).created = row.created
        /\ Started(row, n).audit = Append(row.audit, "attempt_started")
    BY DEF Started, JobRows
  <1> HIDE DEF x
  <1> QED
    BY <1>1, <1>2, <1>3, AttemptReplaced DEF Replaces, x

LEMMA FinishedFields ==
    ASSUME NEW row \in JobRows, NEW n \in DOMAIN row.attempts, NEW j \in Jobs,
           NEW body, body.ok \in BOOLEAN, body.files \in SUBSET Files,
           NEW fires \in SUBSET Nat
    PROVE  LET new == Finished(row, n, j, body, fires)
               x   == FinishedAttempt(row.attempts[n], AttemptVerdict(row, body.ok),
                                      body.files, fires)
           IN  /\ new.state = JobVerdict(row, n, MaxAttempts(j), body.ok)
               /\ new.rev = row.rev + 1
               /\ new.samples = row.samples /\ new.created = row.created
               /\ new.audit = row.audit \o FinishLog(fires)
               /\ Replaces(row, new, n, x)
               /\ x.state = AttemptVerdict(row, body.ok)
               /\ x.worker = row.attempts[n].worker
               /\ x.fired = row.attempts[n].fired \cup {<<p, "finished">> : p \in fires}
  <1> DEFINE verdict == AttemptVerdict(row, body.ok)
             x   == FinishedAttempt(row.attempts[n], verdict, body.files, fires)
             new == Finished(row, n, j, body, fires)
  <1>1. row.attempts \in Seq(Attempts) /\ row.attempts[n] \in Attempts
    BY DEF JobRows
  <1>2. verdict \in Live \cup Ended
    BY DEF AttemptVerdict, Ended
  <1>3. {<<p, "finished">> : p \in fires} \in SUBSET Firings
    BY DEF Firings
  <1>4. /\ x \in Attempts /\ x.state = verdict /\ x.worker = row.attempts[n].worker
        /\ x.fired = row.attempts[n].fired \cup {<<p, "finished">> : p \in fires}
    BY <1>1, <1>2, <1>3 DEF Attempts, FinishedAttempt
  <1>5. /\ new.attempts = [row.attempts EXCEPT ![n] = x]
        /\ new.state = JobVerdict(row, n, MaxAttempts(j), body.ok)
        /\ new.rev = row.rev + 1 /\ new.samples = row.samples /\ new.created = row.created
        /\ new.audit = row.audit \o FinishLog(fires)
    BY DEF Finished, JobRows
  <1> HIDE DEF x, new
  <1>6. Replaces(row, new, n, x)
    BY <1>1, <1>4, <1>5, AttemptReplaced DEF Replaces
  <1> QED
    BY <1>4, <1>5, <1>6 DEF x, new, verdict

LEMMA FilesRecordedFields ==
    ASSUME NEW row \in JobRows, NEW n \in DOMAIN row.attempts, NEW files \in SUBSET Files
    PROVE  LET new == FilesRecorded(row, n, files)
           IN  /\ new.state = row.state /\ new.samples = row.samples
               /\ new.created = row.created /\ new.rev = row.rev /\ new.audit = row.audit
               /\ Replaces(row, new, n, [row.attempts[n] EXCEPT !.files = @ \cup files])
  <1> DEFINE x == [row.attempts[n] EXCEPT !.files = @ \cup files]
             new == FilesRecorded(row, n, files)
  <1>1. row.attempts \in Seq(Attempts) /\ row.attempts[n] \in Attempts
    BY DEF JobRows
  <1>2. x \in Attempts
    BY <1>1 DEF Attempts
  <1>3. /\ new.attempts = [row.attempts EXCEPT ![n] = x]
        /\ new.state = row.state /\ new.samples = row.samples
        /\ new.created = row.created /\ new.rev = row.rev /\ new.audit = row.audit
    BY DEF FilesRecorded, JobRows
  <1> HIDE DEF x, new
  <1>4. Replaces(row, new, n, x)
    BY <1>1, <1>2, <1>3, AttemptReplaced DEF Replaces
  <1> QED
    BY <1>3, <1>4 DEF x, new

LEMMA SampledFields ==
    ASSUME NEW row \in JobRows, NEW n \in DOMAIN row.attempts, NEW point \in Points
    PROVE  LET new == Sampled(row, n, point)
           IN  /\ new.state = row.state /\ new.attempts = row.attempts
               /\ new.created = row.created /\ new.rev = row.rev /\ new.audit = row.audit
               /\ new.samples = Append(row.samples, [attempt |-> n, point |-> point])
  BY DEF Sampled, JobRows

\* The row `new` that an event about attempt n of job j writes over `row`, under its
\* guard; `fires` are the policies that fire.
EventWrites(row, n, j, body, fires, new) ==
    LET state == row.attempts[n].state
    IN  \/ /\ body.kind = "attempt_accepted" /\ state = "offered"
           /\ new = Accepted(row, n)
        \/ /\ body.kind = "attempt_started" /\ state \in {"offered", "accepted"}
           /\ new = Started(row, n)
        \/ /\ body.kind = "attempt_finished" /\ state \in {"accepted", "running"}
           /\ body.ok \in BOOLEAN /\ body.files \in SUBSET Files
           /\ new = Finished(row, n, j, body, fires)
        \/ /\ body.kind = "artifacts" /\ body.files \in SUBSET Files
           /\ new = FilesRecorded(row, n, body.files)
        \/ /\ body.kind = "metric_sample" /\ body.point \in Points
           /\ new = Sampled(row, n, body.point)

\* What is known of the row that an event of worker w is applied to, and of the outcome.
AppliesWell(d, w, body) ==
    LET j     == body.attempt[1]
        n     == body.attempt[2]
        row   == d.job[j]
        fires == FiresOnFinish(d, j, row.attempts[n])
    IN  /\ j \in Jobs /\ row \in JobRows /\ Applied(d, body) \in JobRows
        /\ n \in DOMAIN row.attempts /\ row.attempts[n] \in Attempts
        /\ row.attempts[n].worker = w
        /\ body.attempt = <<j, n>>
        /\ fires \in SUBSET Nat /\ Cardinality(fires) \in Nat
        /\ EventWrites(row, n, j, body, fires, Applied(d, body))

\* applyWorkerEvent writes one of five rows, each under its guard.
LEMMA AppliedCases ==
    ASSUME NEW d, d.job \in [Jobs -> JobRows], NEW w, NEW body \in EventBodies,
           CanApply(d, w, body)
    PROVE  AppliesWell(d, w, body)
  <1> DEFINE j == body.attempt[1]
             n == body.attempt[2]
             row == d.job[j]
             fires == FiresOnFinish(d, j, row.attempts[n])
  <1>1. body.attempt \in AttemptIds
    BY DEF EventBodies
  <1>2. j \in Jobs /\ body.attempt = <<j, n>>
    BY <1>1 DEF AttemptIds
  <1>3. row \in JobRows
    BY <1>2
  <1>4. n \in DOMAIN row.attempts /\ row.attempts[n].worker = w
    BY DEF CanApply, Assigned
  <1>5. row.attempts[n] \in Attempts
    BY <1>3, <1>4 DEF JobRows
  <1>6. Applied(d, body) \in JobRows
    BY AppliedType
  <1>7. fires \in SUBSET Nat /\ Cardinality(fires) \in Nat
    BY <1>2, FiresFinite
  <1>8. /\ body.kind = "attempt_finished" => body.ok \in BOOLEAN /\ body.files \in SUBSET Files
        /\ body.kind = "artifacts" => body.files \in SUBSET Files
        /\ body.kind = "metric_sample" => body.point \in Points
    BY DEF EventBodies
  <1>9. EventWrites(row, n, j, body, fires, Applied(d, body))
    BY <1>8 DEF CanApply, Applied, EventWrites
  <1> HIDE DEF fires
  <1> QED
    BY <1>2, <1>3, <1>4, <1>5, <1>6, <1>7, <1>9 DEF fires, AppliesWell

---------------------------------------------------------------------------
(* A row's history *)

\* `new` continues the history of `old`.  It is transitive, so it relates what is
\* committed to what a sync of any number of events has made of it.
Extends(old, new) ==
    /\ new.state = "absent" => old.state = "absent"
    /\ old.state \in Ended => new.state = old.state
    /\ old.state = "canceling" => new.state \in {"canceling", "canceled"}
    /\ Len(new.attempts) >= Len(old.attempts)
    /\ \A n \in DOMAIN old.attempts :
           old.attempts[n].state \in Ended => new.attempts[n].state = old.attempts[n].state
    /\ Len(new.audit) >= Len(old.audit)
    /\ \A i \in 1 .. Len(old.audit) : new.audit[i] = old.audit[i]
    /\ new.rev >= old.rev
    /\ new.state # old.state => new.rev > old.rev

LEMMA ExtendsReflexive ==
    ASSUME NEW row \in JobRows PROVE Extends(row, row)
  BY DEF Extends, JobRows

LEMMA ExtendsTransitive ==
    ASSUME NEW a \in JobRows, NEW b \in JobRows, NEW c \in JobRows,
           Extends(a, b), Extends(b, c)
    PROVE  Extends(a, c)
  <1>1. /\ Len(a.attempts) \in Nat /\ DOMAIN a.attempts = 1 .. Len(a.attempts)
        /\ Len(b.attempts) \in Nat /\ DOMAIN b.attempts = 1 .. Len(b.attempts)
        /\ Len(c.attempts) \in Nat /\ Len(c.audit) \in Nat
        /\ Len(a.audit) \in Nat /\ Len(b.audit) \in Nat
        /\ a.rev \in Nat /\ b.rev \in Nat /\ c.rev \in Nat
    BY DEF JobRows
  <1>2. \A n \in DOMAIN a.attempts :
            a.attempts[n].state \in Ended => c.attempts[n].state = a.attempts[n].state
    BY SMTT(30), <1>1 DEF Extends
  <1>3. \A i \in 1 .. Len(a.audit) : c.audit[i] = a.audit[i]
    BY <1>1 DEF Extends
  <1>4. /\ a.state \in Ended => c.state = a.state
        /\ a.state = "canceling" => c.state \in {"canceling", "canceled"}
    BY DEF Extends, Ended
  <1>5. c.rev >= a.rev /\ (c.state # a.state => c.rev > a.rev)
    BY <1>1 DEF Extends
  <1> QED
    BY <1>1, <1>2, <1>3, <1>4, <1>5 DEF Extends

\* Appending to the audit trail extends it.
LEMMA AuditAppended ==
    ASSUME NEW s \in Seq(AuditKinds), NEW t \in Seq(AuditKinds)
    PROVE  /\ Len(s \o t) = Len(s) + Len(t) /\ Len(s) \in Nat /\ Len(t) \in Nat
           /\ \A i \in 1 .. Len(s) : (s \o t)[i] = s[i]
           /\ \A k \in AuditKinds : /\ Len(Append(s, k)) = Len(s) + 1
                                    /\ \A i \in 1 .. Len(s) : Append(s, k)[i] = s[i]
  OBVIOUS

LEMMA CanceledExtends ==
    ASSUME NEW row \in JobRows, CanCancel(row) PROVE Extends(row, Canceled(row))
  <1>1. row.audit \in Seq(AuditKinds) /\ row.rev \in Nat /\ Len(row.attempts) \in Nat
    BY DEF JobRows
  <1>2. "job_canceled" \in AuditKinds /\ "job_cancel_requested" \in AuditKinds
    BY DEF AuditKinds
  <1> QED
    BY SMTT(30), <1>1, <1>2, CanceledFields, AuditAppended DEF Extends, CanCancel, Ended

LEMMA OfferedExtends ==
    ASSUME NEW row \in JobRows, NEW w \in Workers PROVE Extends(row, Offered(row, w))
  <1> DEFINE new == Offered(row, w)
  <1>1. row.audit \in Seq(AuditKinds) /\ row.rev \in Nat /\ Len(row.attempts) \in Nat
    BY DEF JobRows
  <1>2. "attempt_offered" \in AuditKinds
    BY DEF AuditKinds
  <1>3. /\ new.state = row.state /\ new.rev = row.rev
        /\ new.audit = Append(row.audit, "attempt_offered")
        /\ Len(new.attempts) = Len(row.attempts) + 1
        /\ \A n \in DOMAIN row.attempts : new.attempts[n] = row.attempts[n]
    BY OfferedFields
  <1>4. Len(new.audit) = Len(row.audit) + 1 /\ Len(row.audit) \in Nat
        /\ \A i \in 1 .. Len(row.audit) : new.audit[i] = row.audit[i]
    BY <1>1, <1>2, <1>3, AuditAppended
  <1> HIDE DEF new
  <1>5. Extends(row, new)
    BY <1>1, <1>3, <1>4 DEF Extends
  <1> QED
    BY <1>5 DEF new

\* Attempt n, which has not ended, becomes x, the job's state moves along and `log`
\* is added to the audit trail.
Moves(row, new, n, x, log) ==
    /\ Replaces(row, new, n, x)
    /\ row.attempts[n].state \notin Ended \/ x.state = row.attempts[n].state
    /\ new.state # "absent"
    /\ row.state \in Ended => new.state = row.state
    /\ row.state = "canceling" => new.state \in {"canceling", "canceled"}
    /\ new.audit = row.audit \o log
    /\ new.rev >= row.rev
    /\ new.state # row.state => new.rev > row.rev

LEMMA MovedExtends ==
    ASSUME NEW row \in JobRows, NEW new, NEW n \in DOMAIN row.attempts, NEW x,
           NEW log \in Seq(AuditKinds), Moves(row, new, n, x, log)
    PROVE  Extends(row, new)
  <1>1. row.audit \in Seq(AuditKinds) /\ row.rev \in Nat /\ Len(row.attempts) \in Nat
    BY DEF JobRows
  <1>2. new.audit = row.audit \o log
    BY DEF Moves
  <1>3. Len(new.audit) >= Len(row.audit) /\ \A i \in 1 .. Len(row.audit) : new.audit[i] = row.audit[i]
    BY <1>1, <1>2, AuditAppended
  <1>4. Len(new.attempts) >= Len(row.attempts)
    BY <1>1 DEF Moves, Replaces
  <1>5. ASSUME NEW m \in DOMAIN row.attempts, row.attempts[m].state \in Ended
        PROVE  new.attempts[m].state = row.attempts[m].state
    <2>1. CASE m = n
      BY <1>5, <2>1 DEF Moves, Replaces
    <2>2. CASE m # n
      BY <2>2 DEF Moves, Replaces
    <2> QED
      BY <2>1, <2>2
  <1> QED
    BY <1>3, <1>4, <1>5 DEF Extends, Moves

\* Nothing logged, one entry logged.
LEMMA AuditTails ==
    ASSUME NEW s \in Seq(AuditKinds)
    PROVE  /\ << >> \in Seq(AuditKinds) /\ s = s \o << >>
           /\ \A k \in AuditKinds : <<k>> \in Seq(AuditKinds) /\ Append(s, k) = s \o <<k>>
  OBVIOUS

LEMMA AcceptedExtends ==
    ASSUME NEW row \in JobRows, NEW n \in DOMAIN row.attempts, row.state # "absent",
           row.attempts[n].state = "offered"
    PROVE  Extends(row, Accepted(row, n))
  <1> DEFINE new == Accepted(row, n)
             x == [row.attempts[n] EXCEPT !.state = "accepted"]
  <1>1. row.audit \in Seq(AuditKinds) /\ row.rev \in Nat /\ new \in JobRows
    BY AcceptedType DEF JobRows
  <1>2. row.attempts[n].state \notin Ended
    BY DEF Ended
  <1>3. /\ Replaces(row, new, n, x)
        /\ new.state = row.state /\ new.rev = row.rev /\ new.audit = row.audit \o << >>
    BY <1>1, AcceptedFields, AuditTails
  <1>4. << >> \in Seq(AuditKinds)
    OBVIOUS
  <1> HIDE DEF new, x
  <1>5. Moves(row, new, n, x, << >>)
    BY <1>1, <1>2, <1>3 DEF Moves
  <1>6. Extends(row, new)
    BY <1>4, <1>5, MovedExtends
  <1> QED
    BY <1>6 DEF new

LEMMA StartedExtends ==
    ASSUME NEW row \in JobRows, NEW n \in DOMAIN row.attempts,
           row.state \in {"queued", "canceling"},
           row.attempts[n].state \in {"offered", "accepted"}
    PROVE  Extends(row, Started(row, n))
  <1> DEFINE new == Started(row, n)
             x == [row.attempts[n] EXCEPT !.state = "running"]
  <1>1. row.audit \in Seq(AuditKinds) /\ row.rev \in Nat /\ new \in JobRows
    BY StartedType DEF JobRows
  <1>2. row.attempts[n].state \notin Ended /\ row.state \notin Ended
    BY DEF Ended
  <1>3. "attempt_started" \in AuditKinds
    BY DEF AuditKinds
  <1>4. /\ Replaces(row, new, n, x)
        /\ new.state = IF row.state = "queued" THEN "running" ELSE row.state
        /\ new.rev = IF row.state = "queued" THEN row.rev + 1 ELSE row.rev
        /\ new.audit = row.audit \o <<"attempt_started">>
        /\ <<"attempt_started">> \in Seq(AuditKinds)
    BY <1>1, <1>3, StartedFields, AuditTails
  <1> HIDE DEF new, x
  <1>5. Moves(row, new, n, x, <<"attempt_started">>)
    BY <1>1, <1>2, <1>4 DEF Moves
  <1>6. Extends(row, new)
    BY <1>4, <1>5, MovedExtends
  <1> QED
    BY <1>6 DEF new

LEMMA FinishedExtends ==
    ASSUME NEW row \in JobRows, NEW n \in DOMAIN row.attempts, NEW j \in Jobs,
           NEW body, body.ok \in BOOLEAN, body.files \in SUBSET Files,
           NEW fires \in SUBSET Nat, Cardinality(fires) \in Nat,
           row.state \in {"queued", "running", "canceling"},
           row.attempts[n].state \in {"accepted", "running"}
    PROVE  Extends(row, Finished(row, n, j, body, fires))
  <1> DEFINE new == Finished(row, n, j, body, fires)
             x == FinishedAttempt(row.attempts[n], AttemptVerdict(row, body.ok),
                                  body.files, fires)
             log == FinishLog(fires)
  <1>1. row.audit \in Seq(AuditKinds) /\ row.rev \in Nat /\ new \in JobRows
    <2>1. new \in JobRows
      BY FinishedType
    <2> QED BY <2>1 DEF JobRows
  <1>2. row.attempts[n].state \notin Ended /\ row.state \notin Ended
    BY DEF Ended
  <1>3. log \in Seq(AuditKinds)
    BY DEF FinishLog, AuditKinds
  <1>4. /\ Replaces(row, new, n, x)
        /\ new.state = JobVerdict(row, n, MaxAttempts(j), body.ok)
        /\ new.rev = row.rev + 1
        /\ new.audit = row.audit \o log
    BY FinishedFields
  <1>5. new.state # "absent" /\ (row.state = "canceling" => new.state = "canceled")
    BY <1>4 DEF JobVerdict
  <1> HIDE DEF new, x, log
  <1>6. Moves(row, new, n, x, log)
    BY <1>1, <1>2, <1>4, <1>5 DEF Moves
  <1>7. Extends(row, new)
    BY <1>3, <1>6, MovedExtends
  <1> QED
    BY <1>7 DEF new

LEMMA FilesRecordedExtends ==
    ASSUME NEW row \in JobRows, NEW n \in DOMAIN row.attempts, row.state # "absent",
           NEW files \in SUBSET Files
    PROVE  Extends(row, FilesRecorded(row, n, files))
  <1> DEFINE new == FilesRecorded(row, n, files)
             x == [row.attempts[n] EXCEPT !.files = @ \cup files]
  <1>1. row.audit \in Seq(AuditKinds) /\ row.rev \in Nat /\ new \in JobRows
    BY FilesRecordedType DEF JobRows
  <1>2. row.attempts[n] \in Attempts
    BY DEF JobRows
  <1>3. x.state = row.attempts[n].state
    BY <1>2 DEF Attempts
  <1>4. /\ Replaces(row, new, n, x)
        /\ new.state = row.state /\ new.rev = row.rev /\ new.audit = row.audit \o << >>
    BY <1>1, FilesRecordedFields, AuditTails
  <1>5. << >> \in Seq(AuditKinds)
    OBVIOUS
  <1> HIDE DEF new, x
  <1>6. Moves(row, new, n, x, << >>)
    BY <1>1, <1>3, <1>4 DEF Moves
  <1>7. Extends(row, new)
    BY <1>5, <1>6, MovedExtends
  <1> QED
    BY <1>7 DEF new

LEMMA SampledExtends ==
    ASSUME NEW row \in JobRows, NEW n \in DOMAIN row.attempts, NEW point \in Points
    PROVE  Extends(row, Sampled(row, n, point))
  <1>1. /\ Sampled(row, n, point).state = row.state
        /\ Sampled(row, n, point).attempts = row.attempts
        /\ Sampled(row, n, point).rev = row.rev
        /\ Sampled(row, n, point).audit = row.audit
    BY SampledFields
  <1> QED
    BY <1>1, ExtendsReflexive DEF Extends

\* A job with an attempt exists.
LEMMA AttemptedExists ==
    ASSUME NEW row \in JobRows, NEW max, JobCoherent(row, max), NEW n \in DOMAIN row.attempts
    PROVE  row.state # "absent"
  <1>1. Len(row.attempts) > 0
    BY DEF JobRows
  <1> QED
    BY <1>1 DEF JobCoherent

\* What applyWorkerEvent writes continues the row's history.
LEMMA EventExtends ==
    ASSUME NEW row \in JobRows, NEW n \in DOMAIN row.attempts, NEW j \in Jobs,
           JobCoherent(row, MaxAttempts(j)), NEW body, NEW fires \in SUBSET Nat,
           Cardinality(fires) \in Nat, NEW new, EventWrites(row, n, j, body, fires, new)
    PROVE  Extends(row, new)
  <1>1. MaxAttempts(j) \in Nat /\ row.state # "absent"
    BY AttemptedExists, SpecAssumption
  <1>2. row.attempts[n].state \in Live =>
            /\ row.state \in {"queued", "running", "canceling"}
            /\ row.attempts[n].state # "running" => row.state \in {"queued", "canceling"}
    BY <1>1, LiveJobState
  <1>3. CASE body.kind = "attempt_accepted"
    BY <1>1, <1>3, AcceptedExtends DEF EventWrites
  <1>4. CASE body.kind = "attempt_started"
    BY <1>2, <1>4, StartedExtends DEF EventWrites, Live
  <1>5. CASE body.kind = "attempt_finished"
    BY <1>2, <1>5, FinishedExtends DEF EventWrites, Live
  <1>6. CASE body.kind = "artifacts"
    BY <1>1, <1>6, FilesRecordedExtends DEF EventWrites
  <1>7. CASE body.kind = "metric_sample"
    BY <1>7, SampledExtends DEF EventWrites
  <1> QED
    BY <1>3, <1>4, <1>5, <1>6, <1>7 DEF EventWrites

LEMMA AppliedExtends ==
    ASSUME NEW d \in Databases, NEW w, NEW body \in EventBodies, CanApply(d, w, body),
           JobCoherent(d.job[body.attempt[1]], MaxAttempts(body.attempt[1]))
    PROVE  Extends(d.job[body.attempt[1]], Applied(d, body))
  <1>1. d.job \in [Jobs -> JobRows]
    BY DEF Databases
  <1> QED
    <2>1. AppliesWell(d, w, body)
      BY <1>1, AppliedCases
    <2> QED BY <2>1, EventExtends DEF AppliesWell

---------------------------------------------------------------------------
(* The history of the committed rows *)

\* A job nobody has submitted has no history.
Unwritten(d) == \A j \in Jobs : d.job[j].state = "absent" => d.job[j] = NoJobRow

\* What the open transaction sees continues what is committed.
HistoryInv ==
    /\ CoherenceInv
    /\ Unwritten(db) /\ Unwritten(tx)
    /\ \A j \in Jobs : Extends(db.job[j], tx.job[j])

\* What is committed continues what was.
RowsContinue == \A j \in Jobs : Extends(db.job[j], db'.job[j])

LEMMA HistoryInit == Init => HistoryInv
  <1> SUFFICES ASSUME Init PROVE HistoryInv
    OBVIOUS
  <1>1. CoherenceInv
    BY CoherenceInit
  <1>2. db = EmptyDatabase /\ tx = EmptyDatabase
    BY DEF Init
  <1>3. \A j \in Jobs : EmptyDatabase.job[j] = NoJobRow
    BY DEF EmptyDatabase
  <1>4. NoJobRow \in JobRows
    BY DEF NoJobRow, JobRows, JobStates
  <1>5. Extends(NoJobRow, NoJobRow)
    BY <1>4, ExtendsReflexive
  <1> QED
    BY <1>1, <1>2, <1>3, <1>5 DEF HistoryInv, Unwritten

\* A submission continues the empty history.
LEMMA SubmittedExtends ==
    ASSUME NEW rank PROVE Extends(NoJobRow, Submitted(rank)) /\ Submitted(rank).state = "queued"
  BY DEF Extends, NoJobRow, Submitted, Ended

\* What is known of the row that the step recording event e of worker w writes.
RecordsWell(w, e) ==
    LET j     == e.body.attempt[1]
        n     == e.body.attempt[2]
        old   == tx.job[j]
        new   == tx'.job[j]
        fires == FiresOnFinish(tx, j, old.attempts[n])
    IN  /\ j \in Jobs /\ old \in JobRows /\ new \in JobRows
        /\ n \in DOMAIN old.attempts /\ old.attempts[n] \in Attempts
        /\ e.body.attempt = <<j, n>> /\ old.attempts[n].worker = w
        /\ JobCoherent(old, MaxAttempts(j)) /\ JobCoherent(new, MaxAttempts(j))
        /\ fires \in SUBSET Nat /\ Cardinality(fires) \in Nat
        /\ EventWrites(old, n, j, e.body, fires, new)
        /\ Extends(old, new) /\ old.state # "absent" /\ new.state # "absent"
        /\ \A i \in Jobs \ {j} : tx'.job[i] = tx.job[i]

\* The row an event is about, before and after.
LEMMA RecordsRow ==
    ASSUME CoherenceInv, CoherenceInv', NEW w \in Workers, NEW s \in Sessions,
           NEW e \in Events, StepRecords(w, s, e)
    PROVE  RecordsWell(w, e)
  <1> DEFINE j == e.body.attempt[1]
             n == e.body.attempt[2]
             fires == FiresOnFinish(tx, j, tx.job[j].attempts[n])
  <1>1. /\ CanApply(tx, w, e.body)
        /\ \A i \in Jobs : tx'.job[i] = IF i = j THEN Applied(tx, e.body) ELSE tx.job[i]
    BY DEF StepRecords, Wrote
  <1>2. e.body \in EventBodies /\ tx \in Databases /\ tx.job \in [Jobs -> JobRows]
    BY DEF Events, CoherenceInv, TypeOK, Databases
  <1>3. /\ j \in Jobs /\ tx.job[j] \in JobRows
        /\ n \in DOMAIN tx.job[j].attempts /\ tx.job[j].attempts[n] \in Attempts
        /\ e.body.attempt = <<j, n>> /\ tx.job[j].attempts[n].worker = w
        /\ fires \in SUBSET Nat /\ Cardinality(fires) \in Nat
        /\ Applied(tx, e.body) \in JobRows
        /\ EventWrites(tx.job[j], n, j, e.body, fires, Applied(tx, e.body))
    <2>1. AppliesWell(tx, w, e.body)
      BY <1>1, <1>2, AppliedCases
    <2> QED BY <2>1 DEF AppliesWell
  <1>4. tx'.job[j] = Applied(tx, e.body)
    BY <1>1, <1>3
  <1>5. JobCoherent(tx.job[j], MaxAttempts(j)) /\ JobCoherent(tx'.job[j], MaxAttempts(j))
    BY <1>3 DEF CoherenceInv, RowsCoherent
  <1>6. Extends(tx.job[j], tx'.job[j])
    BY <1>1, <1>2, <1>4, <1>5, AppliedExtends
  <1>7. tx.job[j].state # "absent"
    BY <1>3, <1>5, AttemptedExists
  <1>8. tx'.job[j].state # "absent"
    BY <1>6, <1>7 DEF Extends
  <1>9. \A i \in Jobs \ {j} : tx'.job[i] = tx.job[i]
    BY <1>1
  <1> HIDE DEF fires
  <1> QED
    BY <1>3, <1>4, <1>5, <1>6, <1>7, <1>8, <1>9 DEF fires, RecordsWell

\* The row an offer is about, before and after.
LEMMA OffersRow ==
    ASSUME CoherenceInv, NEW j \in Jobs, StepOffers(j)
    PROVE  LET old == tx.job[j]
               new == tx'.job[j]
           IN  /\ old \in JobRows /\ new \in JobRows /\ req.worker \in Workers
               /\ JobCoherent(old, MaxAttempts(j)) /\ Schedulable(old)
               /\ new = Offered(old, req.worker)
               /\ Extends(old, new) /\ old.state = "queued" /\ new.state = "queued"
               /\ \A i \in Jobs \ {j} : tx'.job[i] = tx.job[i]
  <1>1. /\ req.worker \in Workers /\ Schedulable(tx.job[j])
        /\ \A i \in Jobs : tx'.job[i] = IF i = j THEN Offered(tx.job[j], req.worker)
                                        ELSE tx.job[i]
    BY DEF StepOffers, Wrote
  <1>2. tx.job[j] \in JobRows /\ JobCoherent(tx.job[j], MaxAttempts(j))
    BY DEF CoherenceInv, TypeOK, Databases, RowsCoherent
  <1>3. tx'.job[j] = Offered(tx.job[j], req.worker) /\ tx.job[j].state = "queued"
    BY <1>1 DEF Schedulable
  <1>4. tx'.job[j] \in JobRows /\ Extends(tx.job[j], tx'.job[j])
    BY <1>1, <1>2, <1>3, OfferedType, OfferedExtends
  <1>5. tx'.job[j].state = "queued"
    BY <1>2, <1>3 DEF Offered, JobRows
  <1> QED
    BY <1>1, <1>2, <1>3, <1>4, <1>5

\* The row a cancellation is about, before and after.
LEMMA CancelsRow ==
    ASSUME CoherenceInv, NEW j \in Jobs, StepCancels(j)
    PROVE  LET old == db.job[j]
               new == db'.job[j]
           IN  /\ old \in JobRows /\ new \in JobRows
               /\ JobCoherent(old, MaxAttempts(j)) /\ CanCancel(old)
               /\ new = Canceled(old)
               /\ Extends(old, new) /\ old.state \in {"queued", "running"}
               /\ new.state \in {"canceling", "canceled"}
               /\ \A i \in Jobs \ {j} : db'.job[i] = db.job[i]
  <1>1. /\ CanCancel(db.job[j])
        /\ \A i \in Jobs : db'.job[i] = IF i = j THEN Canceled(db.job[j]) ELSE db.job[i]
    BY DEF StepCancels, Wrote
  <1>2. db.job[j] \in JobRows /\ JobCoherent(db.job[j], MaxAttempts(j))
    BY DEF CoherenceInv, TypeOK, Databases, RowsCoherent
  <1>3. db'.job[j] = Canceled(db.job[j]) /\ db.job[j].state \in {"queued", "running"}
    BY <1>1 DEF CanCancel
  <1>4. db'.job[j] \in JobRows /\ Extends(db.job[j], db'.job[j])
    BY <1>1, <1>2, <1>3, CanceledType, CanceledExtends
  <1>5. db'.job[j].state \in {"canceling", "canceled"}
    BY <1>2, <1>3, CanceledFields
  <1> QED
    BY <1>1, <1>2, <1>3, <1>4, <1>5

LEMMA HistoryNext ==
    ASSUME HistoryInv, [Next]_vars PROVE HistoryInv' /\ RowsContinue
  <1>0. /\ CoherenceInv /\ CoherenceInv'
        /\ \A j \in Jobs : Extends(db.job[j], tx.job[j])
        /\ Unwritten(db) /\ Unwritten(tx)
    BY CoherenceNext DEF HistoryInv
  <1>1. /\ \A j \in Jobs : db.job[j] \in JobRows /\ tx.job[j] \in JobRows
        /\ \A j \in Jobs : db'.job[j] \in JobRows /\ tx'.job[j] \in JobRows
    BY <1>0 DEF CoherenceInv, TypeOK, Databases
  <1>2. \A j \in Jobs : Extends(db.job[j], db.job[j]) /\ Extends(tx.job[j], tx.job[j])
    BY <1>1, ExtendsReflexive
  <1>3. \A j \in Jobs : Extends(db'.job[j], db'.job[j])
    BY <1>1, ExtendsReflexive
  <1> DEFINE Goal == /\ Unwritten(db') /\ Unwritten(tx')
                     /\ \A j \in Jobs : Extends(db'.job[j], tx'.job[j])
                     /\ \A j \in Jobs : Extends(db.job[j], db'.job[j])
  <1> SUFFICES Goal
    BY <1>0 DEF HistoryInv, RowsContinue, Unwritten
  <1>4. CASE SameTables(db, db') /\ tx' = db'
    BY <1>0, <1>2, <1>4 DEF SameTables, Unwritten
  <1>5. CASE db' = db /\ SameTables(db, tx')
    BY <1>0, <1>2, <1>5 DEF SameTables, Unwritten
  <1>6. CASE db' = db /\ tx' = tx
    BY <1>0, <1>2, <1>6
  <1>7. CASE db' = tx /\ tx' = tx
    BY <1>0, <1>2, <1>7
  <1>8. ASSUME NEW k \in Keys, NEW j \in Jobs, NEW rank \in Nat, StepCreates(k, j, rank)
        PROVE  Goal
    <2>1. /\ tx' = db' /\ db.job[j].state = "absent"
          /\ \A i \in Jobs : db'.job[i] = IF i = j THEN Submitted(rank) ELSE db.job[i]
      BY <1>8 DEF StepCreates, Wrote
    <2>2. db.job[j] = NoJobRow
      BY <1>0, <2>1 DEF Unwritten
    <2>3. Extends(db.job[j], db'.job[j]) /\ db'.job[j].state = "queued"
      BY <2>1, <2>2, SubmittedExtends
    <2> QED
      BY <1>0, <1>2, <1>3, <2>1, <2>3 DEF Unwritten
  <1>9. ASSUME NEW j \in Jobs, StepCancels(j) PROVE Goal
    <2>1. /\ tx' = db' /\ Extends(db.job[j], db'.job[j]) /\ db'.job[j].state # "absent"
          /\ \A i \in Jobs \ {j} : db'.job[i] = db.job[i]
      BY <1>0, <1>9, CancelsRow DEF StepCancels
    <2> QED
      BY <1>0, <1>2, <1>3, <2>1 DEF Unwritten
  <1>10. ASSUME NEW w \in Workers, NEW s \in Sessions, NEW e \in Events, StepRecords(w, s, e)
         PROVE  Goal
    <2> DEFINE j == e.body.attempt[1]
    <2>1. /\ j \in Jobs /\ Extends(tx.job[j], tx'.job[j]) /\ tx'.job[j].state # "absent"
          /\ \A i \in Jobs \ {j} : tx'.job[i] = tx.job[i]
      <3>1. RecordsWell(w, e)
        BY <1>0, <1>10, RecordsRow
      <3> QED BY <3>1 DEF RecordsWell
    <2>2. db' = db
      BY <1>10 DEF StepRecords
    <2> HIDE DEF j
    <2>3. \A i \in Jobs : Extends(tx.job[i], tx'.job[i])
      BY <1>2, <2>1
    <2>4. \A i \in Jobs : Extends(db.job[i], tx'.job[i])
      BY <1>0, <1>1, <2>3, ExtendsTransitive
    <2> QED
      BY <1>0, <1>2, <2>1, <2>2, <2>4 DEF Unwritten
  <1>11. ASSUME NEW j \in Jobs, StepOffers(j) PROVE Goal
    <2>1. /\ Extends(tx.job[j], tx'.job[j]) /\ tx'.job[j].state # "absent"
          /\ \A i \in Jobs \ {j} : tx'.job[i] = tx.job[i]
      BY <1>0, <1>11, OffersRow
    <2>2. db' = db
      BY <1>11 DEF StepOffers
    <2>3. \A i \in Jobs : Extends(tx.job[i], tx'.job[i])
      BY <1>2, <2>1
    <2>4. \A i \in Jobs : Extends(db.job[i], tx'.job[i])
      BY <1>0, <1>1, <2>3, ExtendsTransitive
    <2> QED
      BY <1>0, <1>2, <2>1, <2>2, <2>4 DEF Unwritten
  <1> QED
    BY <1>0, <1>4, <1>5, <1>6, <1>7, <1>8, <1>9, <1>10, <1>11, StepCases

LEMMA History == Spec => []HistoryInv
  <1>1. HistoryInv /\ [Next]_vars => HistoryInv'
    BY HistoryNext
  <1> QED
    BY <1>1, HistoryInit, PTL DEF Spec

\* However syncs, retries, duplicates and cancellations interleave, a job or an
\* attempt that ended keeps its state, and a job being canceled is canceled in the
\* end (applyWorkerEvent, CancelJob).
THEOREM EndedStaysEnded == Spec => EndedIsFinal
  <1>1. HistoryInv /\ [Next]_vars => [\A j \in Jobs : StaysEnded(db.job[j], db'.job[j])]_vars
    BY HistoryNext DEF RowsContinue, Extends, StaysEnded
  <1> QED
    BY <1>1, History, PTL DEF Spec, EndedIsFinal

\* No step rewrites the audit trail, drops an attempt or changes a job's state under
\* the same revision (CancelJob's compare-and-set relies on it).
THEOREM HistoryOnlyGrows == Spec => HistoryGrows
  <1>1. ASSUME NEW old \in JobRows, NEW new \in JobRows, Extends(old, new)
        PROVE  OnlyGrows(old, new)
    <2>1. /\ old.audit \in Seq(AuditKinds) /\ new.audit \in Seq(AuditKinds)
          /\ Len(new.audit) >= Len(old.audit)
          /\ \A i \in 1 .. Len(old.audit) : new.audit[i] = old.audit[i]
      BY <1>1 DEF Extends, JobRows
    <2>2. SubSeq(new.audit, 1, Len(old.audit)) = old.audit
      BY <2>1
    <2> QED
      BY <1>1, <2>2 DEF Extends, OnlyGrows
  <1>2. HistoryInv /\ [Next]_vars => [\A j \in Jobs : OnlyGrows(db.job[j], db'.job[j])]_vars
    <2> SUFFICES ASSUME HistoryInv, [Next]_vars
                 PROVE  \A j \in Jobs : OnlyGrows(db.job[j], db'.job[j])
      OBVIOUS
    <2>1. RowsContinue /\ HistoryInv'
      BY HistoryNext
    <2>2. \A j \in Jobs : db.job[j] \in JobRows /\ db'.job[j] \in JobRows
      BY <2>1 DEF HistoryInv, CoherenceInv, TypeOK, Databases
    <2> QED
      BY <1>1, <2>1, <2>2 DEF RowsContinue
  <1> QED
    BY <1>2, History, PTL DEF Spec, HistoryGrows

---------------------------------------------------------------------------
(* Keys *)

\* KeyNamesOneJob of either copy of the database.
KeysName(d) ==
    /\ \A k \in Keys : \A i, j \in Jobs :
           <<k, i>> \in d.keys /\ <<k, j>> \in d.keys => i = j
    /\ \A j \in Jobs :
           d.job[j].state # "absent" <=> \E k \in Keys : <<k, j>> \in d.keys

KeysInv == CoherenceInv /\ KeysName(db) /\ KeysName(tx)

\* The keys stay and no job appears or disappears.
LEMMA KeysKept ==
    ASSUME NEW d, NEW e, KeysName(d), e.keys = d.keys,
           \A j \in Jobs : e.job[j].state = "absent" <=> d.job[j].state = "absent"
    PROVE  KeysName(e)
  BY DEF KeysName

LEMMA KeysInit == Init => KeysInv
  <1> SUFFICES ASSUME Init PROVE KeysInv
    OBVIOUS
  <1>1. KeysName(EmptyDatabase)
    BY DEF KeysName, EmptyDatabase, NoJobRow
  <1> QED
    BY <1>1, CoherenceInit DEF Init, KeysInv

LEMMA KeysNext == KeysInv /\ [Next]_vars => KeysInv'
  <1> SUFFICES ASSUME KeysInv, [Next]_vars PROVE KeysName(db') /\ KeysName(tx')
    BY CoherenceNext DEF KeysInv, KeysName
  <1> DEFINE Goal == KeysName(db') /\ KeysName(tx')
  <1>0. CoherenceInv /\ CoherenceInv' /\ KeysName(db) /\ KeysName(tx)
    BY CoherenceNext DEF KeysInv
  <1>1. CASE SameTables(db, db') /\ tx' = db'
    BY <1>0, <1>1, KeysKept DEF SameTables
  <1>2. CASE db' = db /\ SameTables(db, tx')
    BY <1>0, <1>2, KeysKept DEF SameTables
  <1>3. CASE (db' = db /\ tx' = tx) \/ (db' = tx /\ tx' = tx)
    BY <1>0, <1>3
  <1>4. ASSUME NEW k \in Keys, NEW j \in Jobs, NEW rank \in Nat, StepCreates(k, j, rank)
        PROVE  Goal
    <2>1. /\ tx' = db' /\ db.job[j].state = "absent"
          /\ \A i \in Jobs : db'.job[i] = IF i = j THEN Submitted(rank) ELSE db.job[i]
          /\ \A i \in Jobs : <<k, i>> \notin db.keys
          /\ db'.keys = db.keys \cup {<<k, j>>}
      BY <1>4 DEF StepCreates, Wrote
    <2>2. \A i \in Jobs : db'.job[i].state = IF i = j THEN "queued" ELSE db.job[i].state
      BY <2>1, SubmittedExtends
    <2>3. \A h \in Keys, i \in Jobs :
             <<h, i>> \in db'.keys <=> <<h, i>> \in db.keys \/ (h = k /\ i = j)
      BY <2>1
    <2>4. KeysName(db')
      BY <1>0, <2>1, <2>2, <2>3 DEF KeysName
    <2> QED
      BY <2>1, <2>4
  <1>5. ASSUME NEW j \in Jobs, StepCancels(j) PROVE Goal
    <2>1. /\ tx' = db' /\ db.job[j].state # "absent" /\ db'.job[j].state # "absent"
          /\ \A i \in Jobs \ {j} : db'.job[i] = db.job[i]
          /\ db'.keys = db.keys
      BY <1>0, <1>5, CancelsRow DEF StepCancels
    <2> QED
      BY <1>0, <2>1, KeysKept
  <1>6. ASSUME NEW w \in Workers, NEW s \in Sessions, NEW e \in Events, StepRecords(w, s, e)
        PROVE  Goal
    <2> DEFINE j == e.body.attempt[1]
    <2>1. /\ j \in Jobs /\ tx.job[j].state # "absent" /\ tx'.job[j].state # "absent"
          /\ \A i \in Jobs \ {j} : tx'.job[i] = tx.job[i]
      <3>1. RecordsWell(w, e)
        BY <1>0, <1>6, RecordsRow
      <3> QED BY <3>1 DEF RecordsWell
    <2>2. db' = db /\ tx'.keys = tx.keys
      BY <1>6 DEF StepRecords
    <2> HIDE DEF j
    <2> QED
      BY <1>0, <2>1, <2>2, KeysKept
  <1>7. ASSUME NEW j \in Jobs, StepOffers(j) PROVE Goal
    <2>1. /\ tx.job[j].state # "absent" /\ tx'.job[j].state # "absent"
          /\ \A i \in Jobs \ {j} : tx'.job[i] = tx.job[i]
      BY <1>0, <1>7, OffersRow
    <2>2. db' = db /\ tx'.keys = tx.keys
      BY <1>7 DEF StepOffers
    <2> QED
      BY <1>0, <2>1, <2>2, KeysKept
  <1> QED
    BY <1>0, <1>1, <1>2, <1>3, <1>4, <1>5, <1>6, <1>7, StepCases

\* An idempotency key names one job forever, and the jobs that exist are those some
\* key names, however submissions are retried (CreateJob).
THEOREM KeysNameOneJob == Spec => []KeyNamesOneJob
  <1>1. KeysInv => KeyNamesOneJob
    BY DEF KeysInv, KeysName, KeyNamesOneJob
  <1> QED
    BY <1>1, KeysInit, KeysNext, PTL DEF Spec

---------------------------------------------------------------------------
(* Finished policies *)

FinishedPolicies(j) == {p \in Policies(j) : JobSpec[j].health[p].kind = "finished"}

\* What an attempt in this state has fired.
FiredBy(j, state) == IF state \in Ended THEN FinishedPolicies(j) \X {"finished"} ELSE {}

RowFired(j, row) ==
    \A n \in DOMAIN row.attempts : row.attempts[n].fired = FiredBy(j, row.attempts[n].state)

\* FinishedPoliciesFire of either copy of the database, and what it rests on: the
\* targets of a job that exists are configured.
PoliciesFired(d) ==
    /\ \A j \in Jobs : d.job[j].state # "absent" =>
           \A p \in Policies(j) : JobSpec[j].health[p].target \in d.targets
    /\ \A j \in Jobs : RowFired(j, d.job[j])

PoliciesInv == CoherenceInv /\ PoliciesFired(db) /\ PoliciesFired(tx)

LEMMA PoliciesInit == Init => PoliciesInv
  <1> SUFFICES ASSUME Init PROVE PoliciesInv
    OBVIOUS
  <1>1. PoliciesFired(EmptyDatabase)
    BY DEF PoliciesFired, RowFired, EmptyDatabase, NoJobRow
  <1> QED
    BY <1>1, CoherenceInit DEF Init, PoliciesInv

\* An event leaves the firings its attempt's state calls for.
LEMMA EventFires ==
    ASSUME NEW row \in JobRows, NEW n \in DOMAIN row.attempts, NEW j \in Jobs,
           NEW body, NEW fires \in SUBSET Nat, NEW new,
           RowFired(j, row),
           row.attempts[n].fired = {} => fires = FinishedPolicies(j),
           EventWrites(row, n, j, body, fires, new)
    PROVE  RowFired(j, new)
  <1> USE DEF RowFired
  <1>0. row.attempts[n] \in Attempts
    BY DEF JobRows
  <1>1. ASSUME NEW x, Replaces(row, new, n, x), x.fired = FiredBy(j, x.state) PROVE RowFired(j, new)
    BY <1>1 DEF Replaces
  <1>2. CASE body.kind = "attempt_accepted"
    <2> DEFINE x == [row.attempts[n] EXCEPT !.state = "accepted"]
    <2>1. row.attempts[n].state = "offered" /\ new = Accepted(row, n)
      BY <1>2 DEF EventWrites
    <2>2. x.fired = row.attempts[n].fired /\ x.state = "accepted"
      BY <1>0 DEF Attempts
    <2>3. x.fired = FiredBy(j, x.state)
      BY <2>1, <2>2 DEF FiredBy, Ended
    <2>4. Replaces(row, new, n, x)
      BY <2>1, AcceptedFields
    <2> QED
      BY <1>1, <2>3, <2>4
  <1>3. CASE body.kind = "attempt_started"
    <2> DEFINE x == [row.attempts[n] EXCEPT !.state = "running"]
    <2>1. row.attempts[n].state \in {"offered", "accepted"} /\ new = Started(row, n)
      BY <1>3 DEF EventWrites
    <2>2. x.fired = row.attempts[n].fired /\ x.state = "running"
      BY <1>0 DEF Attempts
    <2>3. x.fired = FiredBy(j, x.state)
      BY <2>1, <2>2 DEF FiredBy, Ended
    <2>4. Replaces(row, new, n, x)
      BY <2>1, StartedFields
    <2> QED
      BY <1>1, <2>3, <2>4
  <1>4. CASE body.kind = "attempt_finished"
    <2> DEFINE x == FinishedAttempt(row.attempts[n], AttemptVerdict(row, body.ok),
                                    body.files, fires)
    <2>1. /\ row.attempts[n].state \in {"accepted", "running"}
          /\ body.ok \in BOOLEAN /\ body.files \in SUBSET Files
          /\ new = Finished(row, n, j, body, fires)
      BY <1>4 DEF EventWrites
    <2>2. /\ Replaces(row, new, n, x) /\ x.state = AttemptVerdict(row, body.ok)
          /\ x.fired = row.attempts[n].fired \cup {<<p, "finished">> : p \in fires}
      BY <2>1, FinishedFields
    <2>3. row.attempts[n].fired = {}
      BY <2>1 DEF FiredBy, Ended
    <2>4. fires = FinishedPolicies(j)
      BY <2>3
    <2>5. x.state \in Ended
      BY <2>2 DEF AttemptVerdict, Ended
    <2> HIDE DEF x
    <2>6. x.fired = FinishedPolicies(j) \X {"finished"}
      BY <2>2, <2>3, <2>4
    <2>7. x.fired = FiredBy(j, x.state)
      BY <2>5, <2>6 DEF FiredBy
    <2> QED
      BY <1>1, <2>2, <2>7
  <1>5. CASE body.kind = "artifacts"
    <2> DEFINE x == [row.attempts[n] EXCEPT !.files = @ \cup body.files]
    <2>1. body.files \in SUBSET Files /\ new = FilesRecorded(row, n, body.files)
      BY <1>5 DEF EventWrites
    <2>2. x.fired = row.attempts[n].fired /\ x.state = row.attempts[n].state
      BY <1>0 DEF Attempts
    <2>3. Replaces(row, new, n, x)
      BY <2>1, FilesRecordedFields
    <2> HIDE DEF x
    <2>4. x.fired = FiredBy(j, x.state)
      BY <2>2
    <2> QED
      BY <1>1, <2>3, <2>4
  <1>6. CASE body.kind = "metric_sample"
    <2>1. body.point \in Points /\ new = Sampled(row, n, body.point)
      BY <1>6 DEF EventWrites
    <2>2. new.attempts = row.attempts
      BY <2>1, SampledFields
    <2> QED
      BY <2>2
  <1> QED
    BY <1>2, <1>3, <1>4, <1>5, <1>6 DEF EventWrites

LEMMA PoliciesNext == PoliciesInv /\ [Next]_vars => PoliciesInv'
  <1> SUFFICES ASSUME PoliciesInv, [Next]_vars PROVE PoliciesFired(db') /\ PoliciesFired(tx')
    BY CoherenceNext DEF PoliciesInv, PoliciesFired
  <1> DEFINE Goal == PoliciesFired(db') /\ PoliciesFired(tx')
  <1>0. CoherenceInv /\ CoherenceInv' /\ PoliciesFired(db) /\ PoliciesFired(tx)
    BY CoherenceNext DEF PoliciesInv
  <1>1. CASE SameTables(db, db') /\ tx' = db'
    BY <1>0, <1>1 DEF SameTables, PoliciesFired
  <1>2. CASE db' = db /\ SameTables(db, tx')
    BY <1>0, <1>2 DEF SameTables, PoliciesFired
  <1>3. CASE (db' = db /\ tx' = tx) \/ (db' = tx /\ tx' = tx)
    BY <1>0, <1>3
  <1>4. ASSUME NEW k \in Keys, NEW j \in Jobs, NEW rank \in Nat, StepCreates(k, j, rank)
        PROVE  Goal
    <2>1. /\ tx' = db' /\ db'.targets = db.targets
          /\ \A i \in Jobs : db'.job[i] = IF i = j THEN Submitted(rank) ELSE db.job[i]
          /\ \A p \in Policies(j) : JobSpec[j].health[p].target \in db.targets
      BY <1>4 DEF StepCreates, Wrote
    <2>2. DOMAIN Submitted(rank).attempts = {}
      BY DEF Submitted
    <2> QED
      BY <1>0, <2>1, <2>2 DEF PoliciesFired, RowFired
  <1>5. ASSUME NEW j \in Jobs, StepCancels(j) PROVE Goal
    <2>1. /\ db.job[j] \in JobRows /\ db'.job[j] = Canceled(db.job[j])
          /\ db.job[j].state # "absent"
          /\ \A i \in Jobs \ {j} : db'.job[i] = db.job[i]
      BY <1>0, <1>5, CancelsRow
    <2>2. db'.job[j].attempts = db.job[j].attempts
      BY <2>1, CanceledFields
    <2>3. tx' = db' /\ db'.targets = db.targets
      BY <1>5 DEF StepCancels, Wrote
    <2> QED
      BY <1>0, <2>1, <2>2, <2>3 DEF PoliciesFired, RowFired
  <1>6. ASSUME NEW w \in Workers, NEW s \in Sessions, NEW e \in Events, StepRecords(w, s, e)
        PROVE  Goal
    <2> DEFINE j == e.body.attempt[1]
               n == e.body.attempt[2]
               fires == FiresOnFinish(tx, j, tx.job[j].attempts[n])
    <2>1. /\ j \in Jobs /\ tx.job[j] \in JobRows /\ n \in DOMAIN tx.job[j].attempts
          /\ tx.job[j].state # "absent" /\ fires \in SUBSET Nat
          /\ EventWrites(tx.job[j], n, j, e.body, fires, tx'.job[j])
          /\ \A i \in Jobs \ {j} : tx'.job[i] = tx.job[i]
      <3>1. RecordsWell(w, e)
        BY <1>0, <1>6, RecordsRow
      <3> QED BY <3>1 DEF RecordsWell
    <2>2. db' = db /\ tx'.targets = tx.targets
      BY <1>6 DEF StepRecords, Wrote
    <2>3. /\ RowFired(j, tx.job[j])
          /\ \A p \in Policies(j) : JobSpec[j].health[p].target \in tx.targets
      BY <1>0, <2>1 DEF PoliciesFired
    <2>4. tx.job[j].attempts[n].fired = {} => fires = FinishedPolicies(j)
      BY <2>3 DEF FiresOnFinish, FinishedPolicies
    <2> HIDE DEF j, n, fires
    <2>5. RowFired(j, tx'.job[j])
      BY <2>1, <2>3, <2>4, EventFires
    <2> QED
      BY <1>0, <2>1, <2>2, <2>3, <2>5 DEF PoliciesFired
  <1>7. ASSUME NEW j \in Jobs, StepOffers(j) PROVE Goal
    <2>1. /\ tx.job[j] \in JobRows /\ tx.job[j].state # "absent" /\ req.worker \in Workers
          /\ tx'.job[j] = Offered(tx.job[j], req.worker)
          /\ \A i \in Jobs \ {j} : tx'.job[i] = tx.job[i]
      BY <1>0, <1>7, OffersRow
    <2>2. db' = db /\ tx'.targets = tx.targets
      BY <1>7 DEF StepOffers, Wrote
    <2> DEFINE N == Len(tx.job[j].attempts) + 1
    <2>3. /\ DOMAIN tx'.job[j].attempts = DOMAIN tx.job[j].attempts \cup {N}
          /\ \A m \in DOMAIN tx.job[j].attempts :
                tx'.job[j].attempts[m] = tx.job[j].attempts[m]
          /\ tx'.job[j].attempts[N]
                = [worker |-> req.worker, state |-> "offered", files |-> {}, fired |-> {}]
      BY <2>1, OfferedFields
    <2>4. tx'.job[j].attempts[N].fired = FiredBy(j, tx'.job[j].attempts[N].state)
      BY <2>3 DEF FiredBy, Ended
    <2> HIDE DEF N
    <2>5. RowFired(j, tx'.job[j])
      BY <1>0, <2>3, <2>4 DEF PoliciesFired, RowFired
    <2> QED
      BY <1>0, <2>1, <2>2, <2>5 DEF PoliciesFired
  <1> QED
    BY <1>0, <1>1, <1>2, <1>3, <1>4, <1>5, <1>6, <1>7, StepCases

\* Every ended attempt has fired each of its finished policies exactly once and no
\* live one has fired any: the targets exist before the job does and are never
\* removed (applyWorkerEvent, fireHealthPolicyTx).
THEOREM FinishedPoliciesAlwaysFire == Spec => []FinishedPoliciesFire
  <1>1. ASSUME PoliciesInv PROVE FinishedPoliciesFire
    <2>1. \A a \in AttemptIds : a[1] \in Jobs
      BY DEF AttemptIds
    <2>2. \A j \in Jobs : \A n \in DOMAIN db.job[j].attempts :
             db.job[j].attempts[n].fired
                 = IF db.job[j].attempts[n].state \in Ended
                   THEN {p \in Policies(j) : JobSpec[j].health[p].kind = "finished"}
                            \X {"finished"}
                   ELSE {}
      BY <1>1 DEF PoliciesInv, PoliciesFired, RowFired, FiredBy, FinishedPolicies
    <2> QED
      BY <2>1, <2>2 DEF FinishedPoliciesFire
  <1> QED
    BY <1>1, PoliciesInit, PoliciesNext, PTL DEF Spec

---------------------------------------------------------------------------
(* The refinement of JobLifecycle *)

FailedOf(row) == {n \in DOMAIN row.attempts : row.attempts[n].state = "failed"}
Failures(row) == Cardinality(FailedOf(row))

\* Attempts fail one after the other, so their number is known from the last one.
LEMMA FailuresCounted ==
    ASSUME NEW row \in JobRows, NEW max, JobCoherent(row, max)
    PROVE  LET N == Len(row.attempts)
           IN  /\ N = 0 => Failures(row) = 0
               /\ N > 0 /\ row.attempts[N].state = "failed" => Failures(row) = N
               /\ N > 0 /\ row.attempts[N].state # "failed" => Failures(row) = N - 1
  <1> DEFINE N == Len(row.attempts)
  <1>1. N \in Nat /\ DOMAIN row.attempts = 1 .. N
    BY DEF JobRows
  <1>2. \A n \in 1 .. N - 1 : row.attempts[n].state = "failed"
    BY DEF JobCoherent
  <1>3. /\ N = 0 => FailedOf(row) = 1 .. 0
        /\ N > 0 /\ row.attempts[N].state = "failed" => FailedOf(row) = 1 .. N
        /\ N > 0 /\ row.attempts[N].state # "failed" => FailedOf(row) = 1 .. (N - 1)
    BY <1>1, <1>2 DEF FailedOf
  <1>4. \A m \in Nat : Cardinality(1 .. m) = m
    BY FS_Interval
  <1>5. /\ Cardinality(1 .. 0) = 0 /\ Cardinality(1 .. N) = N
        /\ N > 0 => Cardinality(1 .. (N - 1)) = N - 1
    BY <1>1, <1>4
  <1> HIDE DEF N
  <1>6. /\ N = 0 => Failures(row) = 0
        /\ N > 0 /\ row.attempts[N].state = "failed" => Failures(row) = N
        /\ N > 0 /\ row.attempts[N].state # "failed" => Failures(row) = N - 1
    BY <1>3, <1>5 DEF Failures
  <1> QED
    BY <1>6 DEF N

\* The same attempts in the same states.
LEMMA SameFailures ==
    ASSUME NEW row \in JobRows, NEW new \in JobRows, NEW n \in DOMAIN row.attempts, NEW x,
           Replaces(row, new, n, x),
           x.state = "failed" <=> row.attempts[n].state = "failed"
    PROVE  Failures(new) = Failures(row)
  <1>1. FailedOf(new) = FailedOf(row)
    BY DEF FailedOf, Replaces
  <1> QED
    BY <1>1 DEF Failures

\* What a sync has made of a job's row so far: Progress, and as long as events are
\* recorded at most one failure, after which nothing of the job is live.
SyncedRow(old, new, max, offering) ==
    /\ Lifecycle!Progress(old.state, Failures(old), new.state, Failures(new), max)
    /\ offering \/ Failures(new) = Failures(old) \/ ~HasLiveAttempt(new)

LEMMA SyncedReflexive ==
    ASSUME NEW row, NEW max, NEW offering PROVE SyncedRow(row, row, max, offering)
  BY DEF SyncedRow, Lifecycle!Progress

\* An event keeps the sync's progress with a job's row.
LEMMA EventSynced ==
    ASSUME NEW old \in JobRows, NEW row \in JobRows, NEW new \in JobRows,
           NEW n \in DOMAIN row.attempts, NEW j \in Jobs, NEW body,
           NEW fires \in SUBSET Nat, Cardinality(fires) \in Nat,
           JobCoherent(old, MaxAttempts(j)),
           JobCoherent(row, MaxAttempts(j)), JobCoherent(new, MaxAttempts(j)),
           SyncedRow(old, row, MaxAttempts(j), FALSE),
           EventWrites(row, n, j, body, fires, new)
    PROVE  SyncedRow(old, new, MaxAttempts(j), FALSE)
  <1> DEFINE max == MaxAttempts(j)
             N == Len(row.attempts)
             Goal == SyncedRow(old, new, max, FALSE)
  <1>0. max \in Nat /\ row.attempts[n] \in Attempts /\ N \in Nat
        /\ DOMAIN row.attempts = 1 .. N
    BY SMTT(30), SpecAssumption DEF JobRows
  <1>1. ASSUME row.attempts[n].state \in Live
        PROVE  /\ n = N /\ N > 0 /\ Failures(row) = N - 1 /\ Failures(old) = N - 1
               /\ HasLiveAttempt(row)
               /\ row.state \in {"queued", "running", "canceling"}
               /\ row.attempts[n].state # "running" => row.state \in {"queued", "canceling"}
               /\ row.state = old.state \/ (old.state = "queued" /\ row.state = "running")
    <2>1. n = N /\ N > 0 /\ HasLiveAttempt(row)
      BY <1>0, <1>1, LiveIsLast DEF HasLiveAttempt
    <2>2. row.attempts[N].state # "failed"
      BY <1>1, <2>1 DEF Live
    <2>3. Failures(row) = N - 1
      BY <2>1, <2>2, FailuresCounted
    <2>4. Failures(old) = N - 1
      BY <2>1, <2>3 DEF SyncedRow
    <2>5. /\ row.state \in {"queued", "running", "canceling"}
          /\ row.attempts[n].state # "running" => row.state \in {"queued", "canceling"}
      BY <1>0, <1>1, LiveJobState
    <2>6. Lifecycle!Progress(old.state, N - 1, row.state, N - 1, max)
      BY <2>3, <2>4 DEF SyncedRow
    <2>7. row.state = old.state \/ (old.state = "queued" /\ row.state = "running")
      BY <1>0, <2>5, <2>6 DEF Lifecycle!Progress
    <2> QED
      BY <2>1, <2>3, <2>4, <2>5, <2>7
  <1>2. CASE body.kind = "attempt_accepted"
    <2> DEFINE x == [row.attempts[n] EXCEPT !.state = "accepted"]
    <2>1. row.attempts[n].state = "offered" /\ new = Accepted(row, n)
      BY <1>2 DEF EventWrites
    <2>2. x.state = "accepted"
      BY <1>0 DEF Attempts
    <2>3. Replaces(row, new, n, x) /\ new.state = row.state
      BY <2>1, AcceptedFields
    <2> HIDE DEF x
    <2>4. Failures(new) = Failures(row)
      BY <2>1, <2>2, <2>3, SameFailures
    <2>5. Failures(row) = Failures(old)
      BY <1>1, <2>1 DEF Live
    <2> QED
      BY <2>3, <2>4, <2>5 DEF SyncedRow
  <1>3. CASE body.kind = "attempt_started"
    <2> DEFINE x == [row.attempts[n] EXCEPT !.state = "running"]
    <2>1. row.attempts[n].state \in {"offered", "accepted"} /\ new = Started(row, n)
      BY <1>3 DEF EventWrites
    <2>2. x.state = "running"
      BY <1>0 DEF Attempts
    <2>3. /\ Replaces(row, new, n, x)
          /\ new.state = IF row.state = "queued" THEN "running" ELSE row.state
      BY <2>1, StartedFields
    <2> HIDE DEF x
    <2>4. Failures(new) = Failures(row)
      BY <2>1, <2>2, <2>3, SameFailures
    <2>5. /\ Failures(row) = Failures(old) /\ row.state \in {"queued", "canceling"}
          /\ row.state = old.state
      BY <1>1, <2>1 DEF Live
    <2> QED
      BY <2>3, <2>4, <2>5 DEF SyncedRow, Lifecycle!Progress
  <1>4. CASE body.kind = "attempt_finished"
    <2> DEFINE x == FinishedAttempt(row.attempts[n], AttemptVerdict(row, body.ok),
                                    body.files, fires)
    <2>1. /\ row.attempts[n].state \in {"accepted", "running"}
          /\ body.ok \in BOOLEAN /\ body.files \in SUBSET Files
          /\ new = Finished(row, n, j, body, fires)
      BY <1>4 DEF EventWrites
    <2>2. /\ Replaces(row, new, n, x) /\ x.state = AttemptVerdict(row, body.ok)
          /\ new.state = JobVerdict(row, n, max, body.ok)
      BY <2>1, FinishedFields
    <2> HIDE DEF x
    <2>3. /\ n = N /\ N > 0 /\ Failures(row) = N - 1 /\ Failures(old) = N - 1
          /\ row.state \in {"queued", "running", "canceling"}
          /\ row.state = old.state \/ (old.state = "queued" /\ row.state = "running")
      BY <1>1, <2>1 DEF Live
    <2>4. Len(new.attempts) = N /\ new.attempts[N] = x
      BY <2>2, <2>3 DEF Replaces
    <2>5. IF x.state = "failed" THEN Failures(new) = N ELSE Failures(new) = N - 1
      BY <2>3, <2>4, FailuresCounted
    <2>6. N <= max
      BY DEF JobCoherent
    <2>7. ~HasLiveAttempt(new)
      <3>1. x.state \notin Live
        BY <2>2 DEF AttemptVerdict, Live
      <3>2. \A m \in DOMAIN new.attempts : m # n => new.attempts[m].state = "failed"
        BY <1>0, <2>2, <2>3 DEF Replaces, JobCoherent
      <3> QED
        BY <2>3, <2>4, <3>1, <3>2 DEF HasLiveAttempt, Live
    <2>8. Lifecycle!Progress(old.state, Failures(old), new.state, Failures(new), max)
      <3>1. CASE row.state = "canceling"
        <4>1. old.state = "canceling" /\ new.state = "canceled" /\ x.state = "canceled"
          BY <2>2, <2>3, <3>1 DEF JobVerdict, AttemptVerdict
        <4> QED
          BY <2>3, <2>5, <4>1 DEF Lifecycle!Progress
      <3>2. CASE row.state # "canceling" /\ body.ok
        <4>1. /\ old.state \in {"queued", "running"}
              /\ new.state = "succeeded" /\ x.state = "succeeded"
          BY <2>2, <2>3, <3>2 DEF JobVerdict, AttemptVerdict
        <4> QED
          BY <2>3, <2>5, <4>1 DEF Lifecycle!Progress
      <3>3. CASE row.state # "canceling" /\ ~body.ok
        <4>1. /\ old.state \in {"queued", "running"} /\ x.state = "failed"
              /\ new.state = IF n < max THEN "queued" ELSE "failed"
          BY <2>2, <2>3, <3>3 DEF JobVerdict, AttemptVerdict
        <4> QED
          BY <1>0, <2>3, <2>5, <2>6, <4>1 DEF Lifecycle!Progress
      <3> QED
        BY <3>1, <3>2, <3>3
    <2> QED
      BY <2>7, <2>8 DEF SyncedRow
  <1>5. CASE body.kind = "artifacts"
    <2> DEFINE x == [row.attempts[n] EXCEPT !.files = @ \cup body.files]
    <2>1. body.files \in SUBSET Files /\ new = FilesRecorded(row, n, body.files)
      BY <1>5 DEF EventWrites
    <2>2. x.state = row.attempts[n].state
      BY <1>0 DEF Attempts
    <2>3. Replaces(row, new, n, x) /\ new.state = row.state
      BY <2>1, FilesRecordedFields
    <2> HIDE DEF x
    <2>4. Failures(new) = Failures(row)
      BY <2>2, <2>3, SameFailures
    <2>5. HasLiveAttempt(new) = HasLiveAttempt(row)
      BY <2>2, <2>3 DEF HasLiveAttempt, Replaces
    <2> QED
      BY <2>3, <2>4, <2>5 DEF SyncedRow
  <1>6. CASE body.kind = "metric_sample"
    <2>1. body.point \in Points /\ new = Sampled(row, n, body.point)
      BY <1>6 DEF EventWrites
    <2>2. new.attempts = row.attempts /\ new.state = row.state
      BY <2>1, SampledFields
    <2> QED
      BY <2>2 DEF SyncedRow, Failures, FailedOf, HasLiveAttempt
  <1> QED
    BY <1>2, <1>3, <1>4, <1>5, <1>6 DEF EventWrites

LEMMA OfferedSynced ==
    ASSUME NEW old, NEW row \in JobRows, NEW w \in Workers, NEW max,
           SyncedRow(old, row, max, TRUE)
    PROVE  SyncedRow(old, Offered(row, w), max, TRUE)
  <1> DEFINE new == Offered(row, w)
             N == Len(row.attempts) + 1
  <1>1. /\ new.state = row.state
        /\ DOMAIN new.attempts = DOMAIN row.attempts \cup {N}
        /\ \A n \in DOMAIN row.attempts : new.attempts[n] = row.attempts[n]
        /\ new.attempts[N] = [worker |-> w, state |-> "offered", files |-> {}, fired |-> {}]
    BY OfferedFields
  <1> HIDE DEF new, N
  <1>2. new.attempts[N].state # "failed"
    BY <1>1
  <1>3. FailedOf(new) = FailedOf(row)
    BY <1>1, <1>2 DEF FailedOf
  <1>4. SyncedRow(old, new, max, TRUE)
    BY <1>1, <1>3 DEF SyncedRow, Failures
  <1> QED
    BY <1>4 DEF new

\* The refinement's invariant: what the open transaction made of every job is
\* progress that one Report may publish.
SyncedInv ==
    /\ CoherenceInv
    /\ \A j \in Jobs :
           SyncedRow(db.job[j], tx.job[j], MaxAttempts(j), req.phase = "offers")

LEMMA SyncedInit == Init => SyncedInv
  BY CoherenceInit, SyncedReflexive DEF Init, SyncedInv

LEMMA SyncedWeakens ==
    ASSUME NEW old, NEW new, NEW max, NEW p, SyncedRow(old, new, max, p)
    PROVE  SyncedRow(old, new, max, TRUE)
  BY DEF SyncedRow

LEMMA SyncedNext == SyncedInv /\ [Next]_vars => SyncedInv'
  <1> DEFINE Goal == \A j \in Jobs :
                SyncedRow(db'.job[j], tx'.job[j], MaxAttempts(j), req'.phase = "offers")
  <1> SUFFICES ASSUME SyncedInv, [Next]_vars PROVE Goal
    BY CoherenceNext DEF SyncedInv
  <1>0. CoherenceInv /\ CoherenceInv'
    BY CoherenceNext DEF SyncedInv
  <1>1. ASSUME \A j \in Jobs : tx'.job[j] = db'.job[j] PROVE Goal
    BY <1>1, SyncedReflexive
  <1>2. CASE SameTables(db, db') /\ tx' = db'
    BY <1>1, <1>2
  <1>3. CASE db' = db /\ SameTables(db, tx')
    BY <1>1, <1>3 DEF SameTables
  <1>4. CASE db' = db /\ tx' = tx /\ (req' = req \/ (req # Idle /\ req'.phase = "offers"))
    <2>1. CASE req' = req
      BY <1>4, <2>1 DEF SyncedInv
    <2>2. CASE req'.phase = "offers"
      BY <1>4, <2>2, SyncedWeakens DEF SyncedInv
    <2> QED
      BY <1>4, <2>1, <2>2
  <1>5. CASE db' = tx /\ tx' = tx
    BY <1>1, <1>5
  <1>6. ASSUME NEW k \in Keys, NEW j \in Jobs, NEW rank \in Nat, StepCreates(k, j, rank)
        PROVE  Goal
    BY <1>1, <1>6 DEF StepCreates
  <1>7. ASSUME NEW j \in Jobs, StepCancels(j) PROVE Goal
    BY <1>1, <1>7 DEF StepCancels
  <1>8. ASSUME NEW w \in Workers, NEW s \in Sessions, NEW e \in Events, StepRecords(w, s, e)
        PROVE  Goal
    <2> DEFINE j == e.body.attempt[1]
               n == e.body.attempt[2]
               fires == FiresOnFinish(tx, j, tx.job[j].attempts[n])
    <2>1. /\ j \in Jobs /\ tx.job[j] \in JobRows /\ n \in DOMAIN tx.job[j].attempts
          /\ tx'.job[j] \in JobRows
          /\ JobCoherent(tx.job[j], MaxAttempts(j)) /\ JobCoherent(tx'.job[j], MaxAttempts(j))
          /\ fires \in SUBSET Nat /\ Cardinality(fires) \in Nat
          /\ EventWrites(tx.job[j], n, j, e.body, fires, tx'.job[j])
          /\ \A i \in Jobs \ {j} : tx'.job[i] = tx.job[i]
      <3>1. RecordsWell(w, e)
        BY <1>0, <1>8, RecordsRow
      <3> QED BY <3>1 DEF RecordsWell
    <2>2. db' = db /\ req' = req /\ (req.phase = "offers") = FALSE
      BY <1>8 DEF StepRecords
    <2>3. db.job[j] \in JobRows /\ JobCoherent(db.job[j], MaxAttempts(j))
      BY <1>0, <2>1 DEF CoherenceInv, TypeOK, Databases, RowsCoherent
    <2>4. SyncedRow(db.job[j], tx.job[j], MaxAttempts(j), FALSE)
      BY <2>1, <2>2 DEF SyncedInv
    <2> HIDE DEF j, n, fires
    <2>5. SyncedRow(db.job[j], tx'.job[j], MaxAttempts(j), FALSE)
      BY <2>1, <2>3, <2>4, EventSynced
    <2> QED
      BY <2>1, <2>2, <2>5 DEF SyncedInv
  <1>9. ASSUME NEW j \in Jobs, StepOffers(j) PROVE Goal
    <2>1. /\ tx.job[j] \in JobRows /\ req.worker \in Workers
          /\ tx'.job[j] = Offered(tx.job[j], req.worker)
          /\ \A i \in Jobs \ {j} : tx'.job[i] = tx.job[i]
      BY <1>0, <1>9, OffersRow
    <2>2. db' = db /\ (req.phase = "offers") = TRUE /\ (req'.phase = "offers") = TRUE
      BY <1>9 DEF StepOffers
    <2>3. SyncedRow(db.job[j], tx.job[j], MaxAttempts(j), TRUE)
      BY <2>2 DEF SyncedInv
    <2>4. SyncedRow(db.job[j], tx'.job[j], MaxAttempts(j), TRUE)
      BY <2>1, <2>3, OfferedSynced
    <2> QED
      BY <2>1, <2>2, <2>4 DEF SyncedInv
  <1> QED
    BY <1>0, <1>2, <1>3, <1>4, <1>5, <1>6, <1>7, <1>8, <1>9, StepCases

\* The mapped state.
JobState == [j \in Jobs |-> db.job[j].state]
JobFailures == [j \in Jobs |-> Failures(db.job[j])]

LEMMA LifecycleInit == Init => Lifecycle!Init
  <1> SUFFICES ASSUME Init PROVE Lifecycle!Init
    OBVIOUS
  <1>1. \A j \in Jobs : db.job[j] = NoJobRow
    BY DEF Init, EmptyDatabase
  <1>2. NoJobRow.state = "absent" /\ DOMAIN NoJobRow.attempts = {}
    BY DEF NoJobRow
  <1>3. \A j \in Jobs : /\ db.job[j].state = "absent"
                        /\ {n \in DOMAIN db.job[j].attempts :
                               db.job[j].attempts[n].state = "failed"} = {}
    BY <1>1, <1>2
  <1>4. Cardinality({}) = 0
    BY FS_EmptySet
  <1> QED
    BY <1>3, <1>4 DEF Lifecycle!Init

\* Every step of the store is a step of JobLifecycle or leaves it alone.
LEMMA LifecycleStep ==
    ASSUME SyncedInv, SyncedInv', [Next]_vars
    PROVE  [Lifecycle!Next]_<<JobState, JobFailures>>
  <1> DEFINE Goal == [Lifecycle!Next]_<<JobState, JobFailures>>
  <1>0. CoherenceInv /\ CoherenceInv'
    BY DEF SyncedInv
  <1>1. ASSUME \A j \in Jobs : db'.job[j] = db.job[j] PROVE Goal
    BY <1>1 DEF JobState, JobFailures
  <1>2. CASE SameTables(db, db') /\ tx' = db'
    BY <1>1, <1>2 DEF SameTables
  <1>3. CASE db' = db
    BY <1>1, <1>3
  <1>4. CASE db' = tx
    <2>1. \A j \in Jobs :
             Lifecycle!Progress(db.job[j].state, Failures(db.job[j]),
                                db'.job[j].state, Failures(db'.job[j]), MaxAttempts(j))
      BY <1>4 DEF SyncedInv, SyncedRow
    <2>2. Lifecycle!Report
      BY <2>1 DEF Lifecycle!Report, Failures, FailedOf
    <2> QED
      BY <2>2 DEF Lifecycle!Next
  <1>5. ASSUME NEW k \in Keys, NEW j \in Jobs, NEW rank \in Nat, StepCreates(k, j, rank)
        PROVE  Goal
    <2>1. /\ db.job[j].state = "absent"
          /\ \A i \in Jobs : db'.job[i] = IF i = j THEN Submitted(rank) ELSE db.job[i]
      BY <1>5 DEF StepCreates, Wrote
    <2>2. Submitted(rank).state = "queued" /\ FailedOf(Submitted(rank)) = {}
      BY DEF Submitted, FailedOf
    <2>3. FailedOf(db.job[j]) = {}
      <3> DEFINE row == db.job[j]
      <3>1. row \in JobRows /\ JobCoherent(row, MaxAttempts(j))
        BY <1>0 DEF CoherenceInv, RowsCoherent, TypeOK, Databases
      <3>2. row.attempts \in Seq(Attempts)
        BY <3>1 DEF JobRows
      <3>3. Len(row.attempts) = 0
        BY <2>1, <3>1 DEF JobCoherent
      <3>4. DOMAIN row.attempts = 1 .. 0
        BY <3>2, <3>3
      <3> QED BY <3>4 DEF FailedOf
    <2>4. \A i \in Jobs : /\ FailedOf(db'.job[i]) = FailedOf(db.job[i])
                          /\ db'.job[i].state = IF i = j THEN "queued" ELSE db.job[i].state
      BY <2>1, <2>2, <2>3
    <2>5. Lifecycle!Submit(j)
      BY <2>1, <2>4 DEF Lifecycle!Submit, FailedOf
    <2> QED
      BY <2>5 DEF Lifecycle!Next
  <1>6. ASSUME NEW j \in Jobs, StepCancels(j) PROVE Goal
    <2>1. /\ db.job[j] \in JobRows /\ db'.job[j] = Canceled(db.job[j])
          /\ db.job[j].state \in {"queued", "running"}
          /\ db'.job[j].state \in {"canceling", "canceled"}
          /\ \A i \in Jobs \ {j} : db'.job[i] = db.job[i]
      BY <1>0, <1>6, CancelsRow
    <2>2. db'.job[j].attempts = db.job[j].attempts
      BY <2>1, CanceledFields
    <2>3. \A i \in Jobs : db'.job[i].attempts = db.job[i].attempts
      BY <2>1, <2>2
    <2>4. Lifecycle!Cancel(j)
      BY <2>1, <2>3 DEF Lifecycle!Cancel
    <2> QED
      BY <2>4 DEF Lifecycle!Next
  <1>7. ASSUME NEW w \in Workers, NEW s \in Sessions, NEW e \in Events, StepRecords(w, s, e)
        PROVE  Goal
    BY <1>3, <1>7 DEF StepRecords
  <1>8. ASSUME NEW j \in Jobs, StepOffers(j) PROVE Goal
    BY <1>3, <1>8 DEF StepOffers
  <1> QED
    BY <1>0, <1>2, <1>3, <1>4, <1>5, <1>6, <1>7, <1>8, StepCases

\* The store implements the life cycle its clients are promised, with any number of
\* jobs, events and syncs: what one sync publishes is at most one failure per job,
\* "failed" comes with the budget spent and "canceled" is never left.
THEOREM StoreImplementsLifecycle == Spec => ImplementsLifecycle
  <1>1. SyncedInv /\ SyncedInv' /\ [Next]_vars => [Lifecycle!Next]_<<JobState, JobFailures>>
    BY LifecycleStep
  <1>2. Init => SyncedInv
    BY SyncedInit
  <1>3. SyncedInv /\ [Next]_vars => SyncedInv'
    BY SyncedNext
  <1>4. Init => Lifecycle!Init
    BY LifecycleInit
  <1> QED
    BY <1>1, <1>2, <1>3, <1>4, PTL
       DEF Spec, ImplementsLifecycle, Lifecycle!Spec, JobState, JobFailures, Failures, FailedOf
=============================================================================
