------------------------------ MODULE ConsoleProofs ------------------------------
(* What those who look at a job are shown, for every job, every order of the     *)
(* queries and the control plane's transactions, and every clock: answers and    *)
(* pages that show an end show the end, charts are exact, sessions last as long   *)
(* as they were granted.                                                          *)
EXTENDS Console, ControlPlaneProofs, TimestampsProofs, SequenceTheorems

---------------------------------------------------------------------------
(* The invariant *)

\* The control plane's part: nothing is open between two transactions.
PlaneRests == CoherenceInv /\ Unwritten(db) /\ tx = db /\ req = Idle

Row == db.job[Watched]

\* The samples a are the first of b.
Begins(a, b) == Len(a) <= Len(b) /\ \A i \in 1 .. Len(a) : a[i] = b[i]

\* What was there when the job ended is still there.
FinalKept == final \in JobRows /\ (Row.state \in Ended => Begins(final.samples, Row.samples))

\* A session's row is what was granted; what has not expired has its row.
Granted(g) == [id |-> g.id, expires |-> Written(g.until)]

SessionsKept ==
    /\ clock \in Moments /\ logins \in 0 .. MaxLogins[client.kind]
    /\ \A g \in granted : g.id \in 1 .. logins /\ g.until \in Nat
    /\ \A g, h \in granted : g.id = h.id => g = h
    /\ \A r \in sessions : \E g \in granted : r = Granted(g)
    /\ \A g \in granted : clock < g.until => Granted(g) \in sessions

\* Where each kind of client can be, and the queries its request has still to make.
DetailRests == {<<"state", "attempts", "samples", "files", "fired">>,
                <<"attempts", "samples", "files", "fired">>,
                <<"samples", "files", "fired">>, <<"files", "fired">>, <<"fired">>}
MetricsRests == {<<"state", "samples">>, <<"samples">>}

ClientPlaced ==
    /\ client \in [kind : Clients, pc : Pcs, cookie : 0 .. MaxLogins[client.kind],
                   todo : Seq(Columns)]
    /\ client.pc \in {"ask", "done", "gaveup"} => client.kind \in {"get", "wait"}
    /\ client.pc \in {"home", "open", "page", "poll", "stopped"} => client.kind = "browser"
    /\ client.pc = "login" => client.kind \in {"browser", "visitor"}
    /\ client.pc = "read" => client.kind # "visitor" /\ client.todo \in DetailRests
    /\ client.pc = "poll" => client.todo \in MetricsRests
    /\ client.pc \notin {"read", "poll"} => client.todo = << >>
    /\ failures \in 0 .. MaxFailures

\* What a request has read so far, or all that an answer or a page shows.
HasRead(c) ==
    \/ Shown
    \/ client.pc = "read" /\ \A i \in DOMAIN client.todo : client.todo[i] # c

\* A job that is read exists; one that was read as ended is as it was read.
ViewKept ==
    /\ view = [state |-> view.state, attempts |-> view.attempts, samples |-> view.samples,
               files |-> view.files, fired |-> view.fired]
    /\ client.pc \in {"read", "page", "poll"} => Row.state # "absent"
    /\ HasRead("state") => view.state \in JobStates \ {"absent"}
    /\ client.kind = "wait" /\ client.pc = "done" => view.state \in Ended
    /\ HasRead("state") /\ view.state \in Ended =>
          /\ view.state = Row.state
          /\ HasRead("attempts") => view.attempts = Column(Row, "attempts")
          /\ HasRead("fired") => view.fired = Column(Row, "fired")
          /\ HasRead("samples") => Unordered(final.samples) \subseteq view.samples

\* The chart begins the samples; all its polls found one state.
ChartKept ==
    /\ chart = [cursor |-> chart.cursor, points |-> chart.points, known |-> chart.known,
                first |-> chart.first]
    /\ chart.points \in Seq(Samples) /\ chart.cursor = Len(chart.points)
    /\ chart.known \in JobStates \cup {Nothing} /\ chart.first = chart.known
    /\ client.pc \notin {"page", "poll", "stopped"} => chart = NoChart
    /\ Begins(chart.points, Row.samples)
    /\ client.pc = "stopped" => /\ chart.known \in Ended /\ Row.state \in Ended
                                /\ Begins(final.samples, chart.points)
    /\ payload = [state |-> payload.state, samples |-> payload.samples]
    /\ client.pc = "poll" /\ client.todo = <<"samples">> =>
          /\ payload.state \in JobStates
          /\ payload.state \in Ended => Row.state = payload.state

ConsoleInv == PlaneRests /\ FinalKept /\ SessionsKept /\ ClientPlaced /\ ViewKept /\ ChartKept

---------------------------------------------------------------------------
(* What a transaction leaves of a row *)

\* Samples stay and an ended job's state, attempts and firings do not change.
Stays(old, new) ==
    /\ new \in JobRows /\ Begins(old.samples, new.samples)
    /\ old.state # "absent" => new.state # "absent"
    /\ old.state \in Ended =>
          /\ new.state = old.state
          /\ Column(new, "attempts") = Column(old, "attempts")
          /\ Column(new, "fired") = Column(old, "fired")

LEMMA BeginsSelf == ASSUME NEW s \in Seq(Samples) PROVE Begins(s, s)
BY DEF Begins

LEMMA BeginsOn ==
    ASSUME NEW a \in Seq(Samples), NEW b \in Seq(Samples), NEW c \in Seq(Samples),
           Begins(a, b), Begins(b, c)
    PROVE  Begins(a, c)
<1>1. Len(a) \in Nat /\ Len(b) \in Nat /\ Len(c) \in Nat /\ Len(a) <= Len(b) /\ Len(b) <= Len(c)
  BY DEF Begins
<1>2. \A i \in 1 .. Len(a) : i \in 1 .. Len(b) /\ a[i] = b[i] /\ b[i] = c[i]
  BY <1>1 DEF Begins
<1> QED BY <1>1, <1>2 DEF Begins

LEMMA BeginsPrefix ==
    ASSUME NEW a \in Seq(Samples), NEW b \in Seq(Samples), Begins(a, b)
    PROVE  IsPrefix(a, b) /\ Unordered(a) \subseteq Unordered(b)
<1>1. /\ Len(a) \in Nat /\ Len(b) \in Nat /\ Len(a) <= Len(b)
      /\ DOMAIN a = 1 .. Len(a) /\ DOMAIN b = 1 .. Len(b)
      /\ \A i \in 1 .. Len(a) : a[i] = b[i]
  BY DEF Begins
<1>2. SubSeq(a, 1, Len(a)) = a
  BY <1>1
<1>3. SubSeq(b, 1, Len(a)) = a
  BY <1>1
<1>4. \A i \in DOMAIN a : i \in DOMAIN b /\ <<i, a[i]>> = <<i, b[i]>>
  BY <1>1
<1> QED BY <1>1, <1>2, <1>3, <1>4 DEF IsPrefix, Unordered

LEMMA SameStays ==
    ASSUME NEW row \in JobRows PROVE Stays(row, row)
BY BeginsSelf DEF Stays, JobRows

LEMMA UnendedStays ==
    ASSUME NEW old \in JobRows, NEW new \in JobRows, old.state \notin Ended,
           new.state # "absent", new.samples = old.samples
    PROVE  Stays(old, new)
BY BeginsSelf DEF Stays, JobRows

\* An ended job has no live attempt.
LEMMA EndedHasNone ==
    ASSUME NEW row \in JobRows, NEW max \in Nat \ {0}, JobCoherent(row, max), row.state \in Ended,
           NEW n \in DOMAIN row.attempts
    PROVE  row.attempts[n].state \notin Live
<1>1. Len(row.attempts) \in Nat /\ n \in 1 .. Len(row.attempts)
  BY DEF JobRows
<1>2. CASE n < Len(row.attempts)
  BY <1>1, <1>2 DEF JobCoherent, Live
<1>3. CASE n = Len(row.attempts)
  BY <1>1, <1>3 DEF JobCoherent, Live, Ended
<1> QED BY <1>1, <1>2, <1>3

\* An event's row.
LEMMA EventStays ==
    ASSUME NEW j \in Jobs, NEW row \in JobRows, JobCoherent(row, MaxAttempts(j)),
           NEW n \in DOMAIN row.attempts, NEW body, NEW fires, NEW new \in JobRows,
           EventWrites(row, n, j, body, fires, new), Extends(row, new)
    PROVE  Stays(row, new)
<1>0. MaxAttempts(j) \in Nat \ {0} /\ row.samples \in Seq(Samples)
  BY SpecAssumption DEF JobRows
<1>1. row.state # "absent" /\ new.state # "absent"
  BY <1>0, AttemptedExists DEF Extends
<1>2. CASE body.kind \in {"attempt_accepted", "attempt_started", "attempt_finished"}
  <2>1. row.attempts[n].state \in Live
    BY <1>2 DEF EventWrites, Live
  <2>2. row.state \notin Ended
    BY <1>0, <2>1, EndedHasNone
  <2>3. new.samples = row.samples
    <3>1. CASE new = Accepted(row, n)
      BY <3>1 DEF Accepted, JobRows
    <3>2. CASE new = Started(row, n)
      BY <3>2 DEF Started, JobRows
    <3>3. CASE new = Finished(row, n, j, body, fires)
      BY <3>3 DEF Finished, JobRows
    <3> QED BY <1>2, <3>1, <3>2, <3>3 DEF EventWrites
  <2> QED BY <1>1, <2>2, <2>3, UnendedStays
<1>3. CASE body.kind = "artifacts"
  <2>1. new = FilesRecorded(row, n, body.files) /\ row.attempts[n] \in Attempts
    BY <1>3 DEF EventWrites, JobRows
  <2>2. /\ new.state = row.state /\ new.samples = row.samples
        /\ DOMAIN new.attempts = DOMAIN row.attempts
        /\ \A m \in DOMAIN row.attempts : /\ new.attempts[m].state = row.attempts[m].state
                                          /\ new.attempts[m].fired = row.attempts[m].fired
    BY <2>1 DEF FilesRecorded, JobRows, Attempts
  <2> QED BY <1>0, <1>1, <2>2, BeginsSelf DEF Stays, Column
<1>4. CASE body.kind = "metric_sample"
  <2>1. new = Sampled(row, n, body.point)
    BY <1>4 DEF EventWrites
  <2>2. /\ new.state = row.state /\ new.attempts = row.attempts
        /\ new.samples = Append(row.samples, [attempt |-> n, point |-> body.point])
    BY <2>1 DEF Sampled, JobRows
  <2>3. Begins(row.samples, new.samples)
    BY <1>0, <2>2 DEF Begins
  <2> QED BY <1>1, <2>2, <2>3 DEF Stays, Column
<1> QED BY <1>2, <1>3, <1>4 DEF EventWrites

---------------------------------------------------------------------------
(* The control plane goes on *)

\* A committed transaction: nothing is open, and every row stays in this sense.
Committed ==
    /\ PlaneRests' /\ \A j \in Jobs : Stays(db.job[j], db'.job[j])

LEMMA RestRows ==
    ASSUME PlaneRests
    PROVE  /\ db \in Databases /\ db.job \in [Jobs -> JobRows]
           /\ \A j \in Jobs : db.job[j] \in JobRows /\ JobCoherent(db.job[j], MaxAttempts(j))
BY DEF PlaneRests, CoherenceInv, TypeOK, Databases, RowsCoherent

\* A database in which one row was written and that has the right type.
LEMMA DoRests ==
    ASSUME PlaneRests, NEW d \in Databases, Do(d), NEW i \in Jobs,
           JobCoherent(d.job[i], MaxAttempts(i)), d.job[i].state # "absent",
           \A j \in Jobs \ {i} : d.job[j] = db.job[j], Stays(db.job[i], d.job[i])
    PROVE  Committed
<1>1. db' = d /\ tx' = d /\ req' = Idle
  BY DEF Do
<1>2. RowsCoherent(d) /\ Unwritten(d)
  BY RestRows DEF RowsCoherent, PlaneRests, Unwritten
<1>3. TypeOK'
  BY <1>1 DEF TypeOK
<1>4. PlaneRests'
  BY <1>1, <1>2, <1>3 DEF PlaneRests, CoherenceInv, RowsCoherent, Unwritten, Idle
<1>5. \A j \in Jobs : Stays(db.job[j], d.job[j])
  BY RestRows, SameStays
<1> QED BY <1>1, <1>4, <1>5 DEF Committed

LEMMA OperatorCommits ==
    ASSUME PlaneRests, Operator PROVE Committed
<1>0. req.phase \notin {"events", "offers"} /\ req = Idle /\ tx = db /\ CoherenceInv
      /\ Unwritten(db)
  BY DEF PlaneRests, Idle
<1>1. CoherenceInv'
  BY <1>0, CoherenceNext DEF Next
<1>2. tx' = db' /\ req' = Idle
  BY <1>0 DEF Operator, CreateWorker, CreateWebhookTarget, CreateJob, CancelJob, Do
<1>3. \A j \in Jobs : db'.job[j] \in JobRows
  BY <1>1 DEF CoherenceInv, TypeOK, Databases
<1>4. Unwritten(db') /\ \A j \in Jobs : Stays(db.job[j], db'.job[j])
  <2>1. CASE db'.job = db.job
    BY <1>0, <2>1, RestRows, SameStays DEF Unwritten
  <2>2. ASSUME NEW k \in Keys, NEW j \in Jobs, NEW rank \in Nat, StepCreates(k, j, rank)
        PROVE  Unwritten(db') /\ \A i \in Jobs : Stays(db.job[i], db'.job[i])
    <3>1. /\ \A i \in Jobs \ {j} : db'.job[i] = db.job[i]
          /\ db'.job[j] = Submitted(rank) /\ db.job[j].state = "absent"
      BY <2>2 DEF StepCreates, Wrote
    <3>2. db.job[j] = NoJobRow
      BY <1>0, <3>1 DEF Unwritten
    <3>3. db'.job[j].samples = db.job[j].samples /\ db'.job[j].state # "absent"
          /\ db.job[j].state \notin Ended
      BY <3>1, <3>2 DEF NoJobRow, Submitted, Ended
    <3>4. Stays(db.job[j], db'.job[j])
      BY <1>3, <3>3, RestRows, UnendedStays
    <3> QED BY <1>0, <3>1, <3>3, <3>4, RestRows, SameStays DEF Unwritten
  <2>3. ASSUME NEW j \in Jobs, StepCancels(j)
        PROVE  Unwritten(db') /\ \A i \in Jobs : Stays(db.job[i], db'.job[i])
    <3>1. /\ \A i \in Jobs \ {j} : db'.job[i] = db.job[i]
          /\ db'.job[j] = Canceled(db.job[j]) /\ db.job[j].state \in {"queued", "running"}
          /\ db'.job[j].state \in {"canceling", "canceled"}
      BY <1>0, <2>3, CancelsRow
    <3>2. db'.job[j].samples = db.job[j].samples
      BY <3>1, RestRows, CanceledFields
    <3>3. Stays(db.job[j], db'.job[j])
      BY <1>3, <3>1, <3>2, RestRows, UnendedStays DEF Ended
    <3> QED BY <1>0, <3>1, <3>3, RestRows, SameStays DEF Unwritten
  <2> QED BY <1>0, <2>1, <2>2, <2>3, StepCases DEF Next, SameTables, StepRecords, StepOffers
<1> QED BY <1>1, <1>2, <1>4 DEF Committed, PlaneRests, Idle, Unwritten

LEMMA ReportCommits ==
    ASSUME PlaneRests, NEW w \in Workers, NEW s \in Sessions, NEW body \in EventBodies,
           Report(w, s, body)
    PROVE  Committed
<1>1. PICK e \in Events : CanRecord(db, w, s, e) /\ Do(Recorded(db, w, s, e))
  BY DEF Report
<1> DEFINE d == Recorded(db, w, s, e)
<1>2. d \in Databases /\ Do(d)
  BY <1>1, RestRows, RecordedType
<1>3. CASE ~Fresh(db, w, s, e)
  <2>1. d = db
    BY <1>3 DEF Recorded
  <2>2. db' = db /\ tx' = db /\ req' = Idle
    BY <1>2, <2>1 DEF Do
  <2> QED BY <2>2, RestRows, SameStays
          DEF Committed, PlaneRests, CoherenceInv, TypeOK, RowsCoherent, Unwritten, Idle
<1>4. CASE Fresh(db, w, s, e)
  <2>1. CanApply(db, w, e.body) /\ e.body \in EventBodies
    BY <1>1, <1>4 DEF CanRecord, Replayed, Fresh, SameKey, Events
  <2> DEFINE i == e.body.attempt[1]
             n == e.body.attempt[2]
             fires == FiresOnFinish(db, i, db.job[i].attempts[n])
  <2>2. /\ i \in Jobs /\ n \in DOMAIN db.job[i].attempts /\ Applied(db, e.body) \in JobRows
        /\ EventWrites(db.job[i], n, i, e.body, fires, Applied(db, e.body))
    <3>1. AppliesWell(db, w, e.body)
      BY <2>1, RestRows, AppliedCases
    <3> QED BY <3>1 DEF AppliesWell
  <2>3. /\ JobCoherent(Applied(db, e.body), MaxAttempts(i))
        /\ Extends(db.job[i], Applied(db, e.body))
    BY <2>1, <2>2, RestRows, AppliedCoherent, AppliedExtends
  <2>4. d.job[i] = Applied(db, e.body) /\ \A j \in Jobs \ {i} : d.job[j] = db.job[j]
    BY <1>4, <2>2, RestRows DEF Recorded, Databases
  <2>5. Stays(db.job[i], Applied(db, e.body))
    <3> HIDE DEF fires, i, n
    <3> QED BY <2>2, <2>3, RestRows, EventStays
  <2>6. db.job[i].state # "absent"
    BY <2>2, RestRows, AttemptedExists
  <2>7. d.job[i].state # "absent"
    BY <2>4, <2>5, <2>6 DEF Stays
  <2> HIDE DEF i, d
  <2> QED BY <1>2, <2>2, <2>3, <2>4, <2>5, <2>7, DoRests
<1> QED BY <1>3, <1>4

LEMMA OfferCommits ==
    ASSUME PlaneRests, NEW w \in Workers, NEW j \in Jobs, OfferJob(w, j)
    PROVE  Committed
<1> DEFINE row == Offered(db.job[j], w)
           d == [db EXCEPT !.job[j] = row]
<1>1. Schedulable(db.job[j]) /\ Do(d) /\ MaxAttempts(j) \in Nat \ {0}
  BY SpecAssumption, RestRows DEF OfferJob, Databases
<1>2. row \in JobRows /\ JobCoherent(row, MaxAttempts(j))
  BY <1>1, RestRows, OfferedType, OfferedCoherent
<1>3. d \in Databases /\ d.job[j] = row /\ \A i \in Jobs \ {j} : d.job[i] = db.job[i]
  <2> HIDE DEF row
  <2> QED BY <1>2, RestRows, RowWritten DEF Databases
<1>4. row.state = "queued" /\ row.samples = db.job[j].samples /\ db.job[j].state = "queued"
  BY <1>1, RestRows, OfferedFields DEF Schedulable
<1>5. Stays(db.job[j], row)
  BY <1>2, <1>4, RestRows, UnendedStays DEF Ended
<1> HIDE DEF d, row
<1> QED BY <1>1, <1>2, <1>3, <1>4, <1>5, DoRests

LEMMA PlaneKeeps ==
    ASSUME ConsoleInv, Plane PROVE ConsoleInv'
<1>0. PlaneRests /\ FinalKept /\ SessionsKept /\ ClientPlaced /\ ViewKept /\ ChartKept
      /\ Watched \in Jobs
  BY ConsoleAssumption DEF ConsoleInv
<1>1. Committed
  <2>1. \/ Operator
        \/ \E w \in Workers, s \in Sessions, body \in EventBodies : Report(w, s, body)
        \/ \E w \in Workers, j \in Jobs : OfferJob(w, j)
    BY DEF Plane
  <2> QED BY <1>0, <2>1, OperatorCommits, ReportCommits, OfferCommits
<1>2. /\ PlaneRests' /\ Row \in JobRows /\ Row' \in JobRows
      /\ Row.samples \in Seq(Samples) /\ Row'.samples \in Seq(Samples) /\ Stays(Row, Row')
  BY <1>0, <1>1, RestRows DEF Committed, Stays, Row, JobRows
<1>3. /\ final' = IF Row.state \notin Ended /\ Row'.state \in Ended THEN Row' ELSE final
      /\ UNCHANGED <<clock, sessions, granted, logins, client, view, payload, chart, failures>>
  BY DEF Plane, clientVars, Row
<1> DEFINE old == Row
           new == Row'
<1>4. FinalKept' /\ (old.state \in Ended => final' = final)
  <2>1. final.samples \in Seq(Samples) /\ final \in JobRows
    BY <1>0 DEF FinalKept, JobRows
  <2>2. CASE old.state \notin Ended /\ new.state \in Ended
    BY <1>2, <1>3, <2>2, BeginsSelf DEF FinalKept
  <2>3. CASE old.state \in Ended
    <3>1. Begins(final.samples, old.samples) /\ Begins(old.samples, new.samples)
      BY <1>0, <1>2, <2>3 DEF FinalKept, Stays
    <3>2. Begins(final.samples, new.samples) /\ final' = final
      BY <1>2, <1>3, <2>1, <2>3, <3>1, BeginsOn
    <3> QED BY <2>1, <3>2 DEF FinalKept
  <2>4. CASE old.state \notin Ended /\ new.state \notin Ended
    BY <1>3, <2>1, <2>4 DEF FinalKept
  <2> QED BY <2>2, <2>3, <2>4
<1>5. SessionsKept' /\ ClientPlaced'
  BY <1>0, <1>3 DEF SessionsKept, ClientPlaced, Granted
<1>6. \A c : HasRead(c)' <=> HasRead(c)
  BY <1>3 DEF HasRead, Shown
<1>7. ViewKept'
  <2>1. /\ old.state # "absent" => new.state # "absent"
        /\ old.state \in Ended => /\ new.state = old.state
                                  /\ Column(new, "attempts") = Column(old, "attempts")
                                  /\ Column(new, "fired") = Column(old, "fired")
    BY <1>2 DEF Stays
  <2>2. HasRead("state")' = HasRead("state") /\ HasRead("attempts")' = HasRead("attempts")
        /\ HasRead("fired")' = HasRead("fired") /\ HasRead("samples")' = HasRead("samples")
    BY <1>3 DEF HasRead, Shown
  <2>3. client' = client /\ view' = view
    BY <1>3
  <2> HIDE DEF old, new
  <2> QED BY <1>0, <1>4, <2>1, <2>2, <2>3 DEF ViewKept, old, new
<1>8. ChartKept'
  <2>1. Begins(chart.points, new.samples)
    <3>1. chart.points \in Seq(Samples) /\ Begins(chart.points, old.samples)
          /\ Begins(old.samples, new.samples)
      BY <1>0, <1>2 DEF ChartKept, Stays
    <3> QED BY <1>2, <3>1, BeginsOn
  <2>2. client' = client /\ chart' = chart /\ payload' = payload
    BY <1>3
  <2>3. old.state \in Ended => new.state = old.state
    BY <1>2 DEF Stays
  <2> QED BY <1>0, <1>4, <2>1, <2>2, <2>3 DEF ChartKept
<1> QED BY <1>2, <1>4, <1>5, <1>7, <1>8 DEF ConsoleInv

---------------------------------------------------------------------------
(* Sessions *)

LEMMA ExpiryExact ==
    ASSUME NEW t \in Nat, NEW u \in Nat
    PROVE  /\ Precedes(Written(t), Written(u)) <=> t < u
           /\ t < u => ~NotAfter(Written(u), Written(t))
<1>1. /\ Precedes(Written(t), Written(u)) <=> t < u
      /\ Precedes(Written(u), Written(t)) <=> u < t
      /\ ~Precedes(Written(t), Written(t))
  BY SortableOrderIsTime DEF Written
<1> QED BY <1>1 DEF NotAfter

LEMMA SessionsStay ==
    ASSUME SessionsKept, unchangedSessions, client'.kind = client.kind
    PROVE  SessionsKept'
BY DEF SessionsKept, unchangedSessions, Granted

LEMMA LoginKeeps ==
    ASSUME ConsoleInv, Login PROVE SessionsKept' /\ client'.kind = client.kind
<1>0. SessionsKept /\ ClientPlaced /\ Life \in Nat \ {0} /\ Moments \subseteq Nat
      /\ MaxLogins[client.kind] \in Nat
  BY ConsoleAssumption DEF ConsoleInv, ClientPlaced
<1>1. client'.kind = client.kind
  BY <1>0 DEF Login, ClientPlaced
<1> DEFINE n == logins + 1
           g == [id |-> n, until |-> clock + Life]
           good == {r \in sessions : ~NotAfter(r.expires, Written(clock))}
<1>2. /\ clock' = clock /\ logins' = n /\ granted' = granted \cup {g}
      /\ sessions' = good \cup {Granted(g)} /\ logins < MaxLogins[client.kind]
  BY DEF Login, WithSession, Granted
<1>3. clock \in Nat /\ logins \in Nat /\ n \in Nat /\ g.until \in Nat /\ g.id = n /\ n = logins + 1
  BY <1>0 DEF SessionsKept
<1>4. \A h \in granted : clock < h.until => Granted(h) \in good
  <2> SUFFICES ASSUME NEW h \in granted, clock < h.until PROVE Granted(h) \in good
    OBVIOUS
  <2>1. Granted(h) \in sessions /\ h.until \in Nat
    BY <1>0 DEF SessionsKept
  <2>2. Granted(h).expires = Written(h.until)
    BY DEF Granted
  <2>3. ~NotAfter(Written(h.until), Written(clock))
    BY <1>3, <2>1, ExpiryExact
  <2> QED BY <2>1, <2>2, <2>3
<1>5. \A r \in good : \E h \in granted : r = Granted(h)
  BY <1>0 DEF SessionsKept
<1>6. \A h \in granted : h.id \in 1 .. logins /\ h.until \in Nat
  BY <1>0 DEF SessionsKept
<1> HIDE DEF good, g, n
<1>7. logins' \in 0 .. MaxLogins[client.kind]
  BY <1>0, <1>2, <1>3
<1>8. \A h \in granted' : h.id \in 1 .. n /\ h.until \in Nat
  BY <1>2, <1>3, <1>6
<1>9. \A h, k \in granted' : h.id = k.id => h = k
  <2>1. \A h, k \in granted : h.id = k.id => h = k
    BY <1>0 DEF SessionsKept
  <2>2. \A h \in granted : h.id # g.id
    BY <1>3, <1>6
  <2> QED BY <1>2, <2>1, <2>2
<1>10. /\ \A r \in sessions' : \E h \in granted' : r = Granted(h)
       /\ \A h \in granted' : clock' < h.until => Granted(h) \in sessions'
  BY <1>2, <1>4, <1>5
<1>11. clock' \in Moments
  BY <1>0, <1>2 DEF SessionsKept
<1> QED BY <1>1, <1>2, <1>7, <1>8, <1>9, <1>10, <1>11 DEF SessionsKept, Granted

LEMMA LogoutKeeps ==
    ASSUME ConsoleInv, NEW n \in SessionIds, Logout(n)
    PROVE  SessionsKept' /\ client'.kind = client.kind
<1>0. SessionsKept /\ ClientPlaced
  BY DEF ConsoleInv
<1>1. client'.kind = client.kind /\ clock' = clock /\ logins' = logins
  BY <1>0 DEF Logout, ClientPlaced
<1>2. CASE UNCHANGED <<sessions, granted>>
  BY <1>0, <1>1, <1>2 DEF SessionsKept, Granted
<1>3. CASE /\ sessions' = {r \in sessions : r.id # n}
           /\ granted' = {g \in granted : g.id # n}
  <2>1. \A g : Granted(g).id = g.id
    BY DEF Granted
  <2>2. \A r \in sessions' : \E g \in granted' : r = Granted(g)
    BY <1>0, <1>3, <2>1 DEF SessionsKept
  <2>3. \A g \in granted' : clock' < g.until => Granted(g) \in sessions'
    BY <1>0, <1>1, <1>3, <2>1 DEF SessionsKept
  <2>4. granted' \subseteq granted
    BY <1>3
  <2> QED BY <1>0, <1>1, <2>2, <2>3, <2>4 DEF SessionsKept, Granted
<1> QED BY <1>1, <1>2, <1>3 DEF Logout

LEMMA TickKeeps ==
    ASSUME ConsoleInv, Tick PROVE SessionsKept'
<1>0. SessionsKept /\ clock \in Nat /\ clock' \in Nat /\ Moments \subseteq Nat
  BY ConsoleAssumption DEF ConsoleInv, SessionsKept, Tick
<1>1. clock' \in Moments /\ clock < clock' /\ UNCHANGED <<sessions, granted, logins, client>>
  BY DEF Tick
<1>2. \A g \in granted : g.until \in Nat /\ (clock' < g.until => Granted(g) \in sessions)
  BY <1>0, <1>1 DEF SessionsKept
<1> QED BY <1>0, <1>1, <1>2 DEF SessionsKept, Granted

---------------------------------------------------------------------------
(* The client's steps *)

\* A step of the client's changes no job.
LEMMA AsideKeeps ==
    ASSUME PlaneRests, FinalKept, Aside
    PROVE  PlaneRests' /\ FinalKept' /\ Row' = Row /\ final' = final
BY DEF Aside, PlaneRests, FinalKept, Row, CoherenceInv, TypeOK, RowsCoherent, Unwritten, Idle

LEMMA RestsTyped ==
    /\ DetailRests \subseteq Seq(Columns) /\ MetricsRests \subseteq Seq(Columns)
    /\ DetailReads \in DetailRests /\ MetricsReads \in MetricsRests
    /\ << >> \notin DetailRests \cup MetricsRests
BY DEF DetailRests, MetricsRests, Columns, DetailReads, MetricsReads

\* Where a client is, after a step that keeps its kind.
LEMMA PlacedAt ==
    ASSUME ClientPlaced, NEW pc \in Pcs, NEW todo, NEW cookie \in 0 .. MaxLogins[client.kind],
           client' = [client EXCEPT !.pc = pc, !.todo = todo, !.cookie = cookie],
           pc \in {"ask", "done", "gaveup"} => client.kind \in {"get", "wait"},
           pc \in {"home", "open", "page", "poll", "stopped"} => client.kind = "browser",
           pc = "login" => client.kind \in {"browser", "visitor"},
           pc = "read" => client.kind # "visitor" /\ todo \in DetailRests,
           pc = "poll" => todo \in MetricsRests,
           pc \notin {"read", "poll"} => todo = << >>,
           failures' \in 0 .. MaxFailures
    PROVE  /\ ClientPlaced' /\ client'.pc = pc /\ client'.todo = todo
           /\ client'.kind = client.kind
<1>1. todo \in Seq(Columns)
  <2>1. CASE pc \in {"read", "poll"}
    BY <2>1, RestsTyped
  <2>2. CASE pc \notin {"read", "poll"}
    BY <2>2
  <2> QED BY <2>1, <2>2
<1>2. /\ client'.pc = pc /\ client'.todo = todo /\ client'.kind = client.kind
      /\ client' \in [kind : Clients, pc : Pcs, cookie : 0 .. MaxLogins[client.kind],
                      todo : Seq(Columns)]
  BY <1>1 DEF ClientPlaced
<1> QED BY <1>2 DEF ClientPlaced

\* A page that is left or loaded anew.
LEMMA EmptyKeeps ==
    ASSUME ConsoleInv, Empty, Row' = Row, final' = final,
           client'.pc \in {"home", "open"}
    PROVE  ViewKept' /\ ChartKept'
<1>1. Row.samples \in Seq(Samples)
  BY RestRows, ConsoleAssumption DEF ConsoleInv, Row, JobRows
<1>2. view' = NoView /\ payload' = NoPayload /\ chart' = NoChart
  BY DEF Empty
<1>3. ViewKept'
  BY <1>2 DEF ViewKept, NoView, HasRead, Shown
<1>4. Begins(<< >>, Row.samples)
  BY <1>1 DEF Begins
<1>5. ChartKept'
  BY <1>2, <1>4 DEF ChartKept, NoChart, NoPayload
<1> QED BY <1>3, <1>5

\* A step that leaves view, chart and payload alone and shows nothing new.
LEMMA QuietKeeps ==
    ASSUME ConsoleInv, Row' = Row, final' = final, client'.kind = client.kind,
           UNCHANGED <<view, chart, payload>>,
           \/ client'.pc = client.pc /\ client'.todo = client.todo
           \/ /\ client.pc \notin {"page", "poll", "stopped"}
              /\ client'.pc \in {"login", "home"}
           \/ /\ client.pc = "open" /\ client'.pc = "read" /\ client'.todo = DetailReads
              /\ Row.state # "absent"
           \/ /\ client.pc = "page" /\ client'.pc = "poll" /\ client'.todo = MetricsReads
    PROVE  ViewKept' /\ ChartKept'
<1>0. ViewKept /\ ChartKept /\ ClientPlaced
  BY DEF ConsoleInv
<1>1. CASE client'.pc = client.pc /\ client'.todo = client.todo
  BY <1>0, <1>1 DEF ViewKept, ChartKept, HasRead, Shown
<1>2. CASE /\ client.pc \notin {"page", "poll", "stopped"}
           /\ client'.pc \in {"login", "home"}
  BY <1>0, <1>2 DEF ViewKept, ChartKept, HasRead, Shown
<1>3. CASE /\ client.pc = "open" /\ client'.pc = "read" /\ client'.todo = DetailReads
           /\ Row.state # "absent"
  <2>1. ~HasRead("state")'
    BY <1>3 DEF HasRead, Shown, DetailReads
  <2> QED BY <1>0, <1>3, <2>1 DEF ViewKept, ChartKept
<1>4. CASE client.pc = "page" /\ client'.pc = "poll" /\ client'.todo = MetricsReads
  <2>1. \A c : HasRead(c)
    BY <1>4 DEF HasRead, Shown
  <2>2. client'.todo # <<"samples">>
    BY <1>4 DEF MetricsReads
  <2> QED BY <1>0, <1>4, <2>1, <2>2 DEF ViewKept, ChartKept
<1> QED BY <1>1, <1>2, <1>3, <1>4

\* What a step of the client keeps.
Keeps == SessionsKept' /\ ClientPlaced' /\ ViewKept' /\ ChartKept'

LEMMA UserKeeps ==
    ASSUME ConsoleInv, User PROVE Keeps
<1>0. PlaneRests /\ FinalKept /\ SessionsKept /\ ClientPlaced /\ ViewKept /\ ChartKept
  BY DEF ConsoleInv
<1>1. CASE Login
  <2>1. /\ Aside /\ client.pc = "login" /\ UNCHANGED <<view, payload, chart, failures>>
        /\ logins < MaxLogins[client.kind]
    BY <1>1 DEF Login
  <2>2. SessionsKept' /\ client'.kind = client.kind /\ Row' = Row /\ final' = final
    BY <1>0, <1>1, <2>1, LoginKeeps, AsideKeeps
  <2>3. CASE client.kind = "visitor"
    <3>1. client' = client
      BY <1>1, <2>3 DEF Login
    <3> QED BY <1>0, <2>1, <2>2, <3>1, QuietKeeps DEF Keeps, ClientPlaced
  <2>4. CASE client.kind # "visitor"
    <3>1. client' = [client EXCEPT !.pc = "home", !.cookie = logins + 1]
          /\ client.kind = "browser" /\ client.todo = << >>
      BY <1>0, <1>1, <2>1, <2>4 DEF Login, ClientPlaced
    <3>2. client' = [client EXCEPT !.pc = "home", !.todo = << >>, !.cookie = logins + 1]
          /\ logins + 1 \in 0 .. MaxLogins[client.kind] /\ failures' \in 0 .. MaxFailures
      <4>1. MaxLogins[client.kind] \in Nat /\ logins \in 0 .. MaxLogins[client.kind]
        BY <1>0, ConsoleAssumption DEF ClientPlaced, SessionsKept
      <4>2. logins + 1 \in 0 .. MaxLogins[client.kind]
        BY <2>1, <4>1
      <4> QED BY <1>0, <2>1, <3>1, <4>2 DEF ClientPlaced
    <3>3. ClientPlaced' /\ client'.pc = "home"
      BY <1>0, <3>1, <3>2, PlacedAt DEF Pcs
    <3> QED BY <2>1, <2>2, <3>3, QuietKeeps DEF Keeps
  <2> QED BY <2>3, <2>4
<1>2. ASSUME NEW n \in SessionIds, Logout(n) PROVE Keeps
  <2>1. /\ Aside /\ UNCHANGED <<view, payload, chart>>
        /\ client' = [client EXCEPT !.cookie = NoCookie]
        /\ failures' = failures \/ (failures < MaxFailures /\ failures' = failures + 1)
    BY <1>2 DEF Logout
  <2>2. SessionsKept' /\ client'.kind = client.kind /\ Row' = Row /\ final' = final
    BY <1>0, <1>2, <2>1, LogoutKeeps, AsideKeeps
  <2>3. client'.pc = client.pc /\ client'.todo = client.todo
    BY <1>0, <2>1 DEF ClientPlaced
  <2>4. ClientPlaced'
    <3>1. MaxLogins[client.kind] \in Nat
      BY <1>0, ConsoleAssumption DEF ClientPlaced
    <3>2. failures' \in 0 .. MaxFailures
      BY <1>0, <2>1, ConsoleAssumption DEF ClientPlaced
    <3> QED BY <1>0, <2>1, <2>2, <2>3, <3>1, <3>2 DEF ClientPlaced, NoCookie
  <2> QED BY <2>1, <2>2, <2>3, <2>4, QuietKeeps DEF Keeps
<1>3. CASE Open \/ Leave
  <2> DEFINE pc == IF client.pc = "home" THEN "open" ELSE "home"
  <2>1. /\ Aside /\ Empty /\ unchangedSessions /\ failures' = failures
        /\ client.pc \in {"home", "page", "stopped"}
        /\ client' = [client EXCEPT !.pc = pc]
    BY <1>3 DEF Open, Leave
  <2>2. /\ client.kind = "browser" /\ pc \in {"home", "open"}
        /\ client' = [client EXCEPT !.pc = pc, !.todo = << >>, !.cookie = client.cookie]
        /\ failures' \in 0 .. MaxFailures /\ client.cookie \in 0 .. MaxLogins[client.kind]
    BY <1>0, <2>1 DEF ClientPlaced
  <2> HIDE DEF pc
  <2>3. ClientPlaced' /\ client'.pc = pc /\ client'.kind = client.kind
    BY <1>0, <2>2, PlacedAt DEF Pcs
  <2>4. SessionsKept' /\ Row' = Row /\ final' = final
    BY <1>0, <2>1, <2>3, SessionsStay, AsideKeeps
  <2> QED BY <2>1, <2>2, <2>3, <2>4, EmptyKeeps DEF Keeps
<1> QED BY <1>1, <1>2, <1>3 DEF User

LEMMA AskKeeps ==
    ASSUME ConsoleInv, Ask PROVE Keeps
<1>0. PlaneRests /\ FinalKept /\ SessionsKept /\ ClientPlaced /\ ViewKept /\ ChartKept
  BY DEF ConsoleInv
<1>1. /\ Aside /\ unchangedSessions /\ UNCHANGED <<payload, chart, failures>>
      /\ client.pc = "ask" /\ view' = NoView /\ Row.state # "absent"
      /\ client' = [client EXCEPT !.pc = "read", !.todo = DetailReads]
  BY DEF Ask, Row
<1>2. /\ client.kind \in {"get", "wait"} /\ failures' \in 0 .. MaxFailures
      /\ client' = [client EXCEPT !.pc = "read", !.todo = DetailReads, !.cookie = client.cookie]
      /\ client.cookie \in 0 .. MaxLogins[client.kind] /\ DetailReads \in DetailRests
  BY <1>0, <1>1, RestsTyped DEF ClientPlaced
<1>3. ClientPlaced' /\ client'.pc = "read" /\ client'.todo = DetailReads
      /\ client'.kind = client.kind
  BY <1>0, <1>2, PlacedAt DEF Pcs
<1>4. SessionsKept' /\ Row' = Row /\ final' = final
  BY <1>0, <1>1, <1>3, SessionsStay, AsideKeeps
<1>5. ~HasRead("state")'
  BY <1>3 DEF HasRead, Shown, DetailReads
<1>6. ViewKept'
  BY <1>1, <1>3, <1>4, <1>5 DEF ViewKept, NoView
<1>7. ChartKept'
  BY <1>0, <1>1, <1>3, <1>4 DEF ChartKept
<1> QED BY <1>3, <1>4, <1>6, <1>7 DEF Keeps

LEMMA OpenPageKeeps ==
    ASSUME ConsoleInv, OpenPage PROVE Keeps
<1>0. PlaneRests /\ FinalKept /\ SessionsKept /\ ClientPlaced /\ ViewKept /\ ChartKept
  BY DEF ConsoleInv
<1>1. PICK pc \in {"login", "home", "read"}, todo \in {<< >>, DetailReads} :
        /\ client' = [client EXCEPT !.pc = pc, !.todo = todo]
        /\ pc = "read" => todo = DetailReads /\ Row.state # "absent"
        /\ pc # "read" => todo = << >>
  <2>1. client.pc = "open" /\ client = [client EXCEPT !.todo = << >>]
    BY <1>0 DEF OpenPage, ClientPlaced
  <2>2. CASE ~SignedIn(client.cookie)
    <3>1. client' = [client EXCEPT !.pc = "login", !.todo = << >>]
      BY <1>0, <2>1, <2>2 DEF OpenPage, ClientPlaced
    <3> QED BY <3>1
  <2>3. CASE SignedIn(client.cookie) /\ Row.state = "absent"
    <3>1. client' = [client EXCEPT !.pc = "home", !.todo = << >>]
      BY <1>0, <2>1, <2>3 DEF OpenPage, ClientPlaced, Row
    <3> QED BY <3>1
  <2>4. CASE SignedIn(client.cookie) /\ Row.state # "absent"
    <3>1. client' = [client EXCEPT !.pc = "read", !.todo = DetailReads]
      BY <2>4 DEF OpenPage, Row
    <3> QED BY <2>4, <3>1
  <2> QED BY <2>2, <2>3, <2>4
<1>2. /\ Aside /\ unchangedSessions /\ UNCHANGED <<view, payload, chart, failures>>
      /\ client.pc = "open" /\ client.kind = "browser"
  BY <1>0 DEF OpenPage, ClientPlaced
<1>3. /\ client' = [client EXCEPT !.pc = pc, !.todo = todo, !.cookie = client.cookie]
      /\ client.cookie \in 0 .. MaxLogins[client.kind] /\ DetailReads \in DetailRests
      /\ failures' \in 0 .. MaxFailures /\ pc \in Pcs
  BY <1>0, <1>1, <1>2, RestsTyped DEF ClientPlaced, Pcs
<1>4. ClientPlaced' /\ client'.pc = pc /\ client'.todo = todo /\ client'.kind = client.kind
  <2>1. /\ pc \notin {"ask", "done", "gaveup", "poll"}
        /\ pc = "read" => client.kind # "visitor" /\ todo \in DetailRests
        /\ pc \notin {"read", "poll"} => todo = << >>
    BY <1>1, <1>2, <1>3
  <2> QED BY <1>0, <1>2, <1>3, <2>1, PlacedAt
<1>5. SessionsKept' /\ Row' = Row /\ final' = final
  BY <1>0, <1>2, <1>4, SessionsStay, AsideKeeps
<1> QED BY <1>1, <1>2, <1>4, <1>5, QuietKeeps DEF Keeps

LEMMA PollKeeps ==
    ASSUME ConsoleInv, Poll PROVE Keeps
<1>0. PlaneRests /\ FinalKept /\ SessionsKept /\ ClientPlaced /\ ViewKept /\ ChartKept
  BY DEF ConsoleInv
<1>1. /\ Aside /\ unchangedSessions /\ failures' = failures
      /\ client.pc = "page" /\ client.kind = "browser" /\ client.todo = << >>
      /\ client.cookie \in 0 .. MaxLogins[client.kind] /\ failures' \in 0 .. MaxFailures
  BY <1>0 DEF Poll, ClientPlaced
<1>2. CASE /\ client' = [client EXCEPT !.pc = "poll", !.todo = MetricsReads]
           /\ UNCHANGED <<view, payload, chart>>
  <2>1. client' = [client EXCEPT !.pc = "poll", !.todo = MetricsReads, !.cookie = client.cookie]
        /\ MetricsReads \in MetricsRests
    BY <1>0, <1>2, RestsTyped DEF ClientPlaced
  <2>2. ClientPlaced' /\ client'.pc = "poll" /\ client'.todo = MetricsReads
        /\ client'.kind = client.kind
    BY <1>0, <1>1, <2>1, PlacedAt DEF Pcs
  <2>3. SessionsKept' /\ Row' = Row /\ final' = final
    BY <1>0, <1>1, <2>2, SessionsStay, AsideKeeps
  <2> QED BY <1>1, <1>2, <2>2, <2>3, QuietKeeps DEF Keeps
<1>3. CASE client' = [client EXCEPT !.pc = "open"] /\ Empty
  <2>1. client' = [client EXCEPT !.pc = "open", !.todo = << >>, !.cookie = client.cookie]
    BY <1>0, <1>1, <1>3 DEF ClientPlaced
  <2>2. ClientPlaced' /\ client'.pc = "open" /\ client'.kind = client.kind
    BY <1>0, <1>1, <2>1, PlacedAt DEF Pcs
  <2>3. SessionsKept' /\ Row' = Row /\ final' = final
    BY <1>0, <1>1, <2>2, SessionsStay, AsideKeeps
  <2> QED BY <1>3, <2>2, <2>3, EmptyKeeps DEF Keeps
<1> QED BY <1>2, <1>3 DEF Poll

LEMMA FailsKeeps ==
    ASSUME ConsoleInv, RequestFails PROVE Keeps
<1>0. PlaneRests /\ FinalKept /\ SessionsKept /\ ClientPlaced /\ ViewKept /\ ChartKept
  BY DEF ConsoleInv
<1> DEFINE pc == IF client.kind # "browser" THEN "gaveup"
                 ELSE IF client.pc = "poll" THEN "page" ELSE "home"
<1>1. /\ Aside /\ unchangedSessions /\ chart' = chart /\ payload' = NoPayload
      /\ client.pc \in {"open", "read", "poll"}
      /\ view' = IF client.pc = "poll" THEN view ELSE NoView
      /\ client' = [client EXCEPT !.todo = << >>, !.pc = pc]
  BY DEF RequestFails
<1>2. failures' \in 0 .. MaxFailures
  BY <1>0, ConsoleAssumption DEF RequestFails, ClientPlaced
<1>3. /\ client' = [client EXCEPT !.pc = pc, !.todo = << >>, !.cookie = client.cookie]
      /\ client.cookie \in 0 .. MaxLogins[client.kind]
      /\ pc \in {"gaveup", "page", "home"} /\ pc \in Pcs
      /\ pc = "gaveup" => client.kind \in {"get", "wait"} /\ client.pc = "read"
      /\ pc # "gaveup" => client.kind = "browser"
      /\ pc = "page" <=> client.pc = "poll"
  BY <1>0, <1>1, ConsoleAssumption DEF ClientPlaced, Pcs
<1> HIDE DEF pc
<1>4. ClientPlaced' /\ client'.pc = pc /\ client'.kind = client.kind
  BY <1>0, <1>2, <1>3, PlacedAt
<1>5. SessionsKept' /\ Row' = Row /\ final' = final
  BY <1>0, <1>1, <1>4, SessionsStay, AsideKeeps
<1>6. ChartKept'
  BY <1>0, <1>1, <1>3, <1>4, <1>5 DEF ChartKept, NoPayload
<1>7. CASE client.pc = "poll"
  <2>1. \A c : HasRead(c)
    BY <1>7 DEF HasRead, Shown
  <2> QED BY <1>0, <1>1, <1>3, <1>4, <1>5, <1>6, <1>7, <2>1 DEF Keeps, ViewKept
<1>8. CASE client.pc # "poll"
  <2>1. \A c : ~HasRead(c)'
    BY <1>3, <1>4, <1>8 DEF HasRead, Shown
  <2>2. ViewKept'
    BY <1>1, <1>3, <1>4, <1>8, <2>1 DEF ViewKept, NoView
  <2> QED BY <1>4, <1>5, <1>6, <2>2 DEF Keeps
<1> QED BY <1>7, <1>8

\* What a query that is not the last one leaves.
LEMMA QueryKeeps ==
    ASSUME ConsoleInv, NEW c \in Columns, NEW todo \in DetailRests, client.pc = "read",
           \A a \in Columns \ {c} : HasRead(a)' <=> HasRead(a),
           HasRead("state")', c = "state" => \A a \in Columns \ {c} : ~HasRead(a),
           Aside, unchangedSessions, UNCHANGED <<payload, chart, failures>>,
           client' = [client EXCEPT !.todo = todo, !.pc = "read"],
           view' = [view EXCEPT ![c] = Column(Row, c)]
    PROVE  Keeps
<1>0. PlaneRests /\ FinalKept /\ SessionsKept /\ ClientPlaced /\ ViewKept /\ ChartKept
  BY DEF ConsoleInv
<1>1. /\ client.cookie \in 0 .. MaxLogins[client.kind] /\ client.kind # "visitor"
      /\ client' = [client EXCEPT !.pc = "read", !.todo = todo, !.cookie = client.cookie]
      /\ failures' \in 0 .. MaxFailures
  BY <1>0 DEF ClientPlaced
<1>2. ClientPlaced' /\ client'.pc = "read" /\ client'.todo = todo /\ client'.kind = client.kind
  BY <1>0, <1>1, PlacedAt DEF Pcs
<1>3. SessionsKept' /\ Row' = Row /\ final' = final
  BY <1>0, <1>2, SessionsStay, AsideKeeps
<1>4. ChartKept'
  BY <1>0, <1>2, <1>3 DEF ChartKept
<1>5. /\ view' = [state |-> view'.state, attempts |-> view'.attempts, samples |-> view'.samples,
                  files |-> view'.files, fired |-> view'.fired]
      /\ \A a \in Columns : view'[a] = IF a = c THEN Column(Row, c) ELSE view[a]
  BY <1>0 DEF ViewKept, Columns
<1>6. Row \in JobRows /\ Row.state # "absent"
  BY <1>0, RestRows, ConsoleAssumption DEF Row, ViewKept
<1>7. Column(Row, "state") = Row.state /\ Row.state \in JobStates
  BY <1>6 DEF Column, JobRows
<1>8. view'.state \in JobStates \ {"absent"} /\ (view'.state \in Ended => view'.state = Row.state)
  <2>1. CASE c = "state"
    BY <1>5, <1>6, <1>7, <2>1 DEF Columns
  <2>2. CASE c # "state"
    <3>1. HasRead("state") /\ view'.state = view.state
      BY <1>5, <2>2 DEF Columns
    <3> QED BY <1>0, <3>1 DEF ViewKept
  <2> QED BY <2>1, <2>2
<1>9. ASSUME view'.state \in Ended
      PROVE  /\ HasRead("attempts")' => view'.attempts = Column(Row, "attempts")
             /\ HasRead("fired")' => view'.fired = Column(Row, "fired")
             /\ HasRead("samples")' => Unordered(final.samples) \subseteq view'.samples
  <2>1. CASE c = "state"
    BY <2>1 DEF Columns
  <2>2. CASE c # "state"
    <3>1. HasRead("state") /\ view'.state = view.state
      BY <1>5, <2>2 DEF Columns
    <3>2. /\ HasRead("attempts") => view.attempts = Column(Row, "attempts")
          /\ HasRead("fired") => view.fired = Column(Row, "fired")
          /\ HasRead("samples") => Unordered(final.samples) \subseteq view.samples
      BY <1>0, <1>9, <3>1 DEF ViewKept
    <3>3. Unordered(final.samples) \subseteq Column(Row, "samples")
      <4>1. Begins(final.samples, Row.samples) /\ final.samples \in Seq(Samples)
            /\ Row.samples \in Seq(Samples)
        BY <1>0, <1>6, <1>8, <1>9 DEF FinalKept, JobRows
      <4>2. Column(Row, "samples") = Unordered(Row.samples)
        BY DEF Column
      <4> QED BY <4>1, <4>2, BeginsPrefix
    <3>4. c = "samples" => view'.samples = Column(Row, "samples")
      BY <1>5 DEF Columns
    <3> QED BY <1>5, <3>2, <3>3, <3>4 DEF Columns
  <2> QED BY <2>1, <2>2
<1>10. ViewKept'
  BY <1>2, <1>3, <1>5, <1>6, <1>8, <1>9 DEF ViewKept
<1> QED BY <1>2, <1>3, <1>4, <1>10 DEF Keeps

\* The columns a request has still to read.
Left(todo) == {todo[i] : i \in DOMAIN todo}

LEMMA StillLeft ==
    /\ Left(<<"state", "attempts", "samples", "files", "fired">>) = Columns
    /\ Left(<<"attempts", "samples", "files", "fired">>) = {"attempts", "samples", "files", "fired"}
    /\ Left(<<"samples", "files", "fired">>) = {"samples", "files", "fired"}
    /\ Left(<<"files", "fired">>) = {"files", "fired"}
    /\ Left(<<"fired">>) = {"fired"}
<1>1. Left(<<"state", "attempts", "samples", "files", "fired">>) = Columns
  BY DEF Left, Columns
<1>2. Left(<<"attempts", "samples", "files", "fired">>) = {"attempts", "samples", "files", "fired"}
  BY DEF Left
<1>3. Left(<<"samples", "files", "fired">>) = {"samples", "files", "fired"}
  BY DEF Left
<1>4. Left(<<"files", "fired">>) = {"files", "fired"}
  BY DEF Left
<1>5. Left(<<"fired">>) = {"fired"}
  BY DEF Left
<1> QED BY <1>1, <1>2, <1>3, <1>4, <1>5

LEMMA ReadByLeft ==
    ASSUME client.pc = "read" PROVE \A c : HasRead(c) <=> c \notin Left(client.todo)
BY DEF HasRead, Shown, Left

LEMMA ReadByLeftNext ==
    ASSUME client'.pc = "read" PROVE \A c : HasRead(c)' <=> c \notin Left(client'.todo)
BY DEF HasRead, Shown, Left

\* A query with others behind it.
LEMMA MoreKeeps ==
    ASSUME ConsoleInv, ReadNext, NEW todo \in DetailRests, NEW c \in Columns,
           Head(client.todo) = c, Tail(client.todo) = todo, Len(client.todo) > 1,
           Left(client.todo) = Left(todo) \cup {c}, "state" \notin Left(todo),
           c = "state" => Left(client.todo) = Columns
    PROVE  Keeps
<1>1. /\ client.pc = "read" /\ Aside /\ unchangedSessions
      /\ UNCHANGED <<payload, chart, failures>>
      /\ view' = [view EXCEPT ![c] = Column(Row, c)]
      /\ client' = [client EXCEPT !.todo = todo, !.pc = "read"]
  BY DEF ReadNext, Row
<1>2. client'.pc = "read" /\ client'.todo = todo
  BY <1>1 DEF ConsoleInv, ClientPlaced
<1>3. /\ \A a : HasRead(a) <=> a \notin Left(client.todo)
      /\ \A a : HasRead(a)' <=> a \notin Left(todo)
  BY <1>1, <1>2, ReadByLeft, ReadByLeftNext
<1>4. /\ \A a \in Columns \ {c} : HasRead(a)' <=> HasRead(a)
      /\ HasRead("state")' /\ (c = "state" => \A a \in Columns \ {c} : ~HasRead(a))
  BY <1>3
<1> QED BY <1>1, <1>4, QueryKeeps

\* The last query, after which the answer is printed or the page rendered.
LEMMA LastKeeps ==
    ASSUME ConsoleInv, ReadNext, client.todo = <<"fired">> PROVE Keeps
<1>0. PlaneRests /\ FinalKept /\ SessionsKept /\ ClientPlaced /\ ViewKept /\ ChartKept
  BY DEF ConsoleInv
<1>1. Head(client.todo) = "fired" /\ Tail(client.todo) = << >> /\ ~(Len(client.todo) > 1)
  OBVIOUS
<1>2. /\ client.pc = "read" /\ Aside /\ unchangedSessions
      /\ UNCHANGED <<payload, chart, failures>>
      /\ view' = [view EXCEPT !["fired"] = Column(Row, "fired")]
  BY <1>1 DEF ReadNext, Row
<1>3. /\ view' = [state |-> view'.state, attempts |-> view'.attempts, samples |-> view'.samples,
                  files |-> view'.files, fired |-> view'.fired]
      /\ view'.state = view.state /\ view'.attempts = view.attempts
      /\ view'.samples = view.samples /\ view'.fired = Column(Row, "fired")
  BY <1>0, <1>2 DEF ViewKept
<1> DEFINE pc == IF client.kind = "browser" THEN "page"
                 ELSE IF Enough(client.kind, view.state) THEN "done" ELSE "ask"
<1>4. client' = [client EXCEPT !.todo = << >>, !.pc = pc]
  BY <1>1, <1>2, <1>3 DEF ReadNext
<1>5. /\ client.kind \in {"get", "wait", "browser"} /\ pc \in {"page", "done", "ask"}
      /\ pc = "page" <=> client.kind = "browser"
      /\ pc = "done" /\ client.kind = "wait" => view.state \in Ended
      /\ client' = [client EXCEPT !.pc = pc, !.todo = << >>, !.cookie = client.cookie]
      /\ client.cookie \in 0 .. MaxLogins[client.kind] /\ failures' \in 0 .. MaxFailures
      /\ pc \in Pcs
  BY <1>0, <1>2, <1>4, ConsoleAssumption DEF ClientPlaced, Enough, Pcs
<1> HIDE DEF pc
<1>6. ClientPlaced' /\ client'.pc = pc /\ client'.kind = client.kind
  <2>1. /\ pc \in {"ask", "done", "gaveup"} => client.kind \in {"get", "wait"}
        /\ pc \in {"home", "open", "page", "poll", "stopped"} => client.kind = "browser"
        /\ pc # "login" /\ pc # "read" /\ pc # "poll"
    BY <1>5
  <2> QED BY <1>0, <1>5, <2>1, PlacedAt
<1>7. SessionsKept' /\ Row' = Row /\ final' = final
  BY <1>0, <1>2, <1>6, SessionsStay, AsideKeeps
<1>8. ChartKept'
  BY <1>0, <1>2, <1>5, <1>6, <1>7 DEF ChartKept, NoChart, Begins
<1>9. HasRead("state") /\ HasRead("attempts") /\ HasRead("samples")
  BY <1>2, ReadByLeft, StillLeft
<1>10. /\ view.state \in JobStates \ {"absent"} /\ Row.state # "absent"
       /\ view.state \in Ended => /\ view.state = Row.state
                                  /\ view.attempts = Column(Row, "attempts")
                                  /\ Unordered(final.samples) \subseteq view.samples
  BY <1>0, <1>2, <1>9 DEF ViewKept
<1>11. ViewKept'
  BY <1>3, <1>5, <1>6, <1>7, <1>10 DEF ViewKept
<1> QED BY <1>6, <1>7, <1>8, <1>11 DEF Keeps

LEMMA ReadKeeps ==
    ASSUME ConsoleInv, ReadNext PROVE Keeps
<1>0. client.todo \in DetailRests
  BY DEF ConsoleInv, ClientPlaced, ReadNext
<1>1. CASE client.todo = <<"state", "attempts", "samples", "files", "fired">>
  <2>1. /\ Head(client.todo) = "state" /\ Len(client.todo) > 1
        /\ Tail(client.todo) = <<"attempts", "samples", "files", "fired">>
    BY <1>1
  <2>2. /\ <<"attempts", "samples", "files", "fired">> \in DetailRests
    BY DEF DetailRests
  <2> DEFINE todo == <<"attempts", "samples", "files", "fired">>
  <2>3. /\ Left(client.todo) = Left(todo) \cup {"state"} /\ "state" \notin Left(todo)
        /\ Left(client.todo) = Columns
    BY <1>1, StillLeft DEF Columns
  <2> HIDE DEF todo
  <2> QED BY <2>1, <2>2, <2>3, MoreKeeps DEF Columns, todo
<1>2. CASE client.todo = <<"attempts", "samples", "files", "fired">>
  <2>1. /\ Head(client.todo) = "attempts" /\ Len(client.todo) > 1
        /\ Tail(client.todo) = <<"samples", "files", "fired">>
    BY <1>2
  <2>2. /\ <<"samples", "files", "fired">> \in DetailRests
    BY DEF DetailRests
  <2> DEFINE todo == <<"samples", "files", "fired">>
  <2>3. /\ Left(client.todo) = Left(todo) \cup {"attempts"} /\ "state" \notin Left(todo)
    BY <1>2, StillLeft
  <2> HIDE DEF todo
  <2> QED BY <2>1, <2>2, <2>3, MoreKeeps DEF Columns, todo
<1>3. CASE client.todo = <<"samples", "files", "fired">>
  <2>1. /\ Head(client.todo) = "samples" /\ Len(client.todo) > 1
        /\ Tail(client.todo) = <<"files", "fired">>
    BY <1>3
  <2>2. /\ <<"files", "fired">> \in DetailRests
    BY DEF DetailRests
  <2> DEFINE todo == <<"files", "fired">>
  <2>3. /\ Left(client.todo) = Left(todo) \cup {"samples"} /\ "state" \notin Left(todo)
    BY <1>3, StillLeft
  <2> HIDE DEF todo
  <2> QED BY <2>1, <2>2, <2>3, MoreKeeps DEF Columns, todo
<1>4. CASE client.todo = <<"files", "fired">>
  <2>1. /\ Head(client.todo) = "files" /\ Len(client.todo) > 1
        /\ Tail(client.todo) = <<"fired">>
    BY <1>4
  <2>2. /\ <<"fired">> \in DetailRests
    BY DEF DetailRests
  <2> DEFINE todo == <<"fired">>
  <2>3. /\ Left(client.todo) = Left(todo) \cup {"files"} /\ "state" \notin Left(todo)
    BY <1>4, StillLeft
  <2> HIDE DEF todo
  <2> QED BY <2>1, <2>2, <2>3, MoreKeeps DEF Columns, todo
<1>5. CASE client.todo = <<"fired">>
  BY <1>5, LastKeeps
<1> QED BY <1>0, <1>1, <1>2, <1>3, <1>4, <1>5 DEF DetailRests

\* The first query of metrics.json.
LEMMA PollStateKeeps ==
    ASSUME ConsoleInv, PollNext, client.todo = <<"state", "samples">> PROVE Keeps
<1>0. PlaneRests /\ FinalKept /\ SessionsKept /\ ClientPlaced /\ ViewKept /\ ChartKept
  BY DEF ConsoleInv
<1>1. /\ Head(client.todo) = "state" /\ Len(client.todo) > 1
      /\ Tail(client.todo) = <<"samples">> /\ "state" # "samples"
  OBVIOUS
<1>2. /\ client.pc = "poll" /\ Aside /\ unchangedSessions /\ failures' = failures
      /\ client' = [client EXCEPT !.todo = <<"samples">>] /\ UNCHANGED <<view, chart>>
      /\ payload' = [payload EXCEPT !["state"] = Column(Row, "state")]
  BY <1>1 DEF PollNext, Row
<1>3. /\ client' = [client EXCEPT !.pc = "poll", !.todo = <<"samples">>, !.cookie = client.cookie]
      /\ client.cookie \in 0 .. MaxLogins[client.kind] /\ failures' \in 0 .. MaxFailures
      /\ client.kind = "browser"
  BY <1>0, <1>2 DEF ClientPlaced
<1>4. <<"samples">> \in MetricsRests
  BY DEF MetricsRests
<1>5. ClientPlaced' /\ client'.pc = "poll" /\ client'.kind = client.kind
  BY <1>0, <1>3, <1>4, PlacedAt DEF Pcs
<1>6. SessionsKept' /\ Row' = Row /\ final' = final
  BY <1>0, <1>2, <1>5, SessionsStay, AsideKeeps
<1>7. \A c : HasRead(c) /\ HasRead(c)'
  BY <1>2, <1>5 DEF HasRead, Shown
<1>8. ViewKept'
  BY <1>0, <1>2, <1>5, <1>6, <1>7 DEF ViewKept
<1>9. Row.state \in JobStates
  BY <1>0, RestRows, ConsoleAssumption DEF Row, JobRows
<1>10. /\ payload' = [state |-> payload'.state, samples |-> payload'.samples]
       /\ payload'.state = Row.state
  BY <1>0, <1>2 DEF ChartKept, Column
<1>11. ChartKept'
  BY <1>0, <1>2, <1>5, <1>6, <1>9, <1>10 DEF ChartKept
<1> QED BY <1>5, <1>6, <1>8, <1>11 DEF Keeps

\* The samples after the cursor are the ones the chart lacks.
LEMMA AfterCompletes ==
    ASSUME NEW a \in Seq(Samples), NEW b \in Seq(Samples), Begins(a, b)
    PROVE  /\ After(b, Len(a)) \in Seq(Samples) /\ a \o After(b, Len(a)) = b
           /\ Len(b) = Len(a) + Len(After(b, Len(a)))
<1> DEFINE la == Len(a)
           lb == Len(b)
           c == After(b, la)
<1>1. la \in Nat /\ lb \in Nat /\ la <= lb /\ la + 1 \in 1 .. lb + 1
  BY DEF Begins
<1>2. CASE la = lb
  <2>1. c = << >>
    BY <1>1, <1>2 DEF After
  <2>2. a = b
    BY <1>2 DEF Begins
  <2> QED BY <2>1, <2>2
<1>3. CASE la < lb
  <2>1. /\ c \in Seq(Samples) /\ Len(c) = lb - la
        /\ \A i \in 1 .. lb - la : c[i] = b[la + i]
    <3>1. /\ la + 1 \in 1 .. lb /\ la + 1 <= lb + 1
      BY <1>1, <1>3
    <3>2. /\ SubSeq(b, la + 1, lb) \in Seq(Samples)
          /\ Len(SubSeq(b, la + 1, lb)) = lb - (la + 1) + 1
          /\ \A i \in 1 .. lb - (la + 1) + 1 : SubSeq(b, la + 1, lb)[i] = b[(la + 1) + i - 1]
      BY <1>1, <3>1, SubSeqProperties
    <3>3. lb - (la + 1) + 1 = lb - la /\ \A i \in 1 .. lb - la : (la + 1) + i - 1 = la + i
      BY <1>1
    <3> QED BY <3>2, <3>3 DEF After
  <2> HIDE DEF c, la, lb
  <2>2. /\ a \o c \in Seq(Samples) /\ Len(a \o c) = Len(a) + Len(c)
        /\ \A i \in 1 .. Len(a) + Len(c) : (a \o c)[i] = IF i <= Len(a) THEN a[i] ELSE c[i - Len(a)]
    BY <2>1
  <2>3. Len(a \o c) = Len(b) /\ Len(a) + Len(c) = Len(b)
    BY <1>1, <2>1, <2>2 DEF la, lb
  <2>4. \A i \in 1 .. Len(b) : (a \o c)[i] = b[i]
    <3> SUFFICES ASSUME NEW i \in 1 .. Len(b) PROVE (a \o c)[i] = b[i]
      OBVIOUS
    <3>1. CASE i <= Len(a)
      <4>1. i \in 1 .. Len(a)
        BY <1>1, <3>1 DEF la, lb
      <4> QED BY <2>2, <2>3, <3>1, <4>1 DEF Begins
    <3>2. CASE ~(i <= Len(a))
      <4>1. i - la \in 1 .. lb - la /\ la + (i - la) = i
        BY <1>1, <3>2 DEF la, lb
      <4> QED BY <2>1, <2>2, <2>3, <3>2, <4>1 DEF la, lb
    <3> QED BY <3>1, <3>2
  <2>5. DOMAIN (a \o c) = 1 .. Len(b) /\ DOMAIN b = 1 .. Len(b)
    BY <2>2, <2>3
  <2>6. a \o c = b
    <3> DEFINE d == a \o c
    <3>1. d \in Seq(Samples) /\ Len(d) = Len(b) /\ \A i \in 1 .. Len(d) : d[i] = b[i]
      BY <2>2, <2>3, <2>4
    <3> HIDE DEF d
    <3>2. d = b
      BY <3>1, SeqEqual
    <3> QED BY <3>2 DEF d
  <2> QED BY <2>1, <2>3, <2>6 DEF c, la
<1> QED BY <1>1, <1>2, <1>3

\* The second query: the script has its answer.
LEMMA PollSamplesKeeps ==
    ASSUME ConsoleInv, PollNext, client.todo = <<"samples">> PROVE Keeps
<1>0. PlaneRests /\ FinalKept /\ SessionsKept /\ ClientPlaced /\ ViewKept /\ ChartKept
  BY DEF ConsoleInv
<1>1. Head(client.todo) = "samples" /\ ~(Len(client.todo) > 1)
  OBVIOUS
<1> DEFINE more == After(Row.samples, chart.cursor)
           answer == [payload EXCEPT !["samples"] = more]
<1>2. /\ client.pc = "poll" /\ Aside /\ unchangedSessions /\ failures' = failures
      /\ Apply(answer)
  BY <1>1 DEF PollNext, Row
<1>3. /\ answer.state = payload.state /\ answer.samples = more
      /\ payload.state \in JobStates /\ (payload.state \in Ended => Row.state = payload.state)
  BY <1>0, <1>2 DEF ChartKept
<1>4. /\ client.cookie \in 0 .. MaxLogins[client.kind] /\ failures' \in 0 .. MaxFailures
      /\ client.kind = "browser"
  BY <1>0, <1>2 DEF ClientPlaced
<1>5. /\ Row.samples \in Seq(Samples) /\ chart.points \in Seq(Samples)
      /\ chart.points \o more = Row.samples /\ more \in Seq(Samples)
      /\ Len(Row.samples) = Len(chart.points) + Len(more)
  <2>1. /\ Row.samples \in Seq(Samples) /\ chart.points \in Seq(Samples)
        /\ Begins(chart.points, Row.samples) /\ chart.cursor = Len(chart.points)
    BY <1>0, RestRows, ConsoleAssumption DEF Row, JobRows, ChartKept
  <2> DEFINE a == chart.points
             b == Row.samples
  <2>2. /\ a \in Seq(Samples) /\ b \in Seq(Samples) /\ Begins(a, b) /\ more = After(b, Len(a))
    BY <2>1
  <2> HIDE DEF a, b
  <2>3. /\ After(b, Len(a)) \in Seq(Samples) /\ a \o After(b, Len(a)) = b
        /\ Len(b) = Len(a) + Len(After(b, Len(a)))
    BY <2>2, AfterCompletes
  <2> HIDE DEF more
  <2>4. a \o more = b /\ more \in Seq(Samples) /\ Len(b) = Len(a) + Len(more)
    BY <2>2, <2>3
  <2> QED BY <2>1, <2>4 DEF a, b
<1> HIDE DEF more
<1>6. CASE MustReload(chart.known, answer.state)
  <2>1. client' = [client EXCEPT !.pc = "open", !.todo = << >>, !.cookie = client.cookie] /\ Empty
    BY <1>0, <1>2, <1>6 DEF Apply, ClientPlaced
  <2>2. ClientPlaced' /\ client'.pc = "open" /\ client'.kind = client.kind
    BY <1>0, <1>4, <2>1, PlacedAt DEF Pcs
  <2>3. SessionsKept' /\ Row' = Row /\ final' = final
    BY <1>0, <1>2, <2>2, SessionsStay, AsideKeeps
  <2> QED BY <2>1, <2>2, <2>3, EmptyKeeps DEF Keeps
<1>7. CASE ~MustReload(chart.known, answer.state)
  <2> DEFINE pc == IF payload.state \in Ended THEN "stopped" ELSE "page"
  <2>1. /\ client' = [client EXCEPT !.todo = << >>, !.pc = pc]
        /\ payload' = NoPayload /\ view' = view
        /\ chart' = [cursor |-> chart.cursor + Len(more),
                     points |-> chart.points \o more,
                     known  |-> payload.state,
                     first  |-> IF chart.first = Nothing THEN payload.state ELSE chart.first]
    BY <1>2, <1>3, <1>7 DEF Apply, Terminal
  <2>2. /\ client' = [client EXCEPT !.pc = pc, !.todo = << >>, !.cookie = client.cookie]
        /\ pc \in {"stopped", "page"} /\ pc \in Pcs
        /\ pc = "stopped" => payload.state \in Ended
    BY <1>0, <2>1 DEF ClientPlaced, Pcs
  <2> HIDE DEF pc
  <2>3. ClientPlaced' /\ client'.pc = pc /\ client'.kind = client.kind
    BY <1>0, <1>4, <2>2, PlacedAt
  <2>4. SessionsKept' /\ Row' = Row /\ final' = final
    BY <1>0, <1>2, <2>3, SessionsStay, AsideKeeps
  <2>5. \A c : HasRead(c) /\ HasRead(c)'
    BY <1>2, <2>2, <2>3 DEF HasRead, Shown
  <2>6. ViewKept'
    BY <1>0, <1>2, <2>1, <2>2, <2>3, <2>4, <2>5 DEF ViewKept
  <2>7. chart.known \in {Nothing, payload.state} /\ chart.first = chart.known
    BY <1>0, <1>3, <1>7 DEF MustReload, ChartKept
  <2>8. /\ chart' = [cursor |-> chart'.cursor, points |-> chart'.points, known |-> chart'.known,
                     first |-> chart'.first]
        /\ chart'.known = payload.state /\ chart'.first = payload.state
        /\ chart'.points = Row.samples
        /\ chart'.cursor = Len(chart.points) + Len(more)
    BY <1>0, <1>5, <2>1, <2>7 DEF ChartKept
  <2>9. Len(Row.samples) = Len(chart.points) + Len(more)
    BY <1>5
  <2>10. Begins(Row.samples, Row.samples)
    BY <1>5, BeginsSelf
  <2>11. payload.state \in Ended => Row.state \in Ended /\ Begins(final.samples, Row.samples)
    BY <1>0, <1>3 DEF FinalKept
  <2>12. payload' = [state |-> payload'.state, samples |-> payload'.samples]
    BY <2>1 DEF NoPayload
  <2>13. chart'.points \in Seq(Samples) /\ Begins(chart'.points, Row'.samples)
         /\ chart'.cursor = Len(chart'.points)
    BY <1>5, <2>4, <2>8, <2>9, <2>10
  <2>14. pc = "stopped" => /\ chart'.known \in Ended /\ Row'.state \in Ended
                           /\ Begins(final'.samples, chart'.points)
    BY <2>2, <2>4, <2>8, <2>11
  <2>15. chart'.known \in JobStates \cup {Nothing} /\ chart'.first = chart'.known
    BY <1>3, <2>8
  <2>16. ChartKept'
    BY <2>2, <2>3, <2>8, <2>12, <2>13, <2>14, <2>15 DEF ChartKept
  <2> QED BY <2>3, <2>4, <2>6, <2>16 DEF Keeps
<1> QED BY <1>6, <1>7

LEMMA PollNextKeeps ==
    ASSUME ConsoleInv, PollNext PROVE Keeps
<1>1. client.todo \in MetricsRests
  BY DEF ConsoleInv, ClientPlaced, PollNext
<1>2. client.todo = <<"state", "samples">> \/ client.todo = <<"samples">>
  BY <1>1 DEF MetricsRests
<1> QED BY <1>2, PollStateKeeps, PollSamplesKeeps

---------------------------------------------------------------------------
(* The theorems *)

LEMMA ConsoleStarts == ConsoleInit => ConsoleInv
<1> SUFFICES ASSUME ConsoleInit PROVE ConsoleInv
  OBVIOUS
<1>1. Init /\ CoherenceInv /\ tx = db /\ req = Idle /\ db.job = [j \in Jobs |-> NoJobRow]
  BY CoherenceInit DEF ConsoleInit, Init, EmptyDatabase
<1>2. PlaneRests
  BY <1>1 DEF PlaneRests, Unwritten
<1>3. Row = NoJobRow /\ Row \in JobRows
  BY <1>1, <1>2, RestRows, ConsoleAssumption DEF Row
<1>4. FinalKept
  BY <1>3 DEF ConsoleInit, FinalKept, NoJobRow, Ended
<1>5. PICK kind \in Clients :
          client = [kind |-> kind, cookie |-> NoCookie, todo |-> << >>,
                    pc |-> IF kind \in {"get", "wait"} THEN "ask" ELSE "login"]
  BY DEF ConsoleInit
<1>6. MaxLogins[client.kind] \in Nat
  BY <1>5, ConsoleAssumption
<1>7. SessionsKept
  BY <1>6 DEF ConsoleInit, SessionsKept
<1>8. ClientPlaced
  <2>1. /\ client.kind = kind /\ client.cookie = 0 /\ client.todo = << >>
        /\ client.pc = IF kind \in {"get", "wait"} THEN "ask" ELSE "login"
    BY <1>5 DEF NoCookie
  <2>2. client \in [kind : Clients, pc : Pcs, cookie : 0 .. MaxLogins[client.kind],
                    todo : Seq(Columns)]
    BY <1>5, <1>6 DEF Pcs, NoCookie
  <2>3. failures \in 0 .. MaxFailures
    BY ConsoleAssumption DEF ConsoleInit
  <2> QED BY <2>1, <2>2, <2>3, ConsoleAssumption DEF ClientPlaced
<1>9. client.pc \in {"ask", "login"}
  BY <1>5
<1>10. ViewKept
  BY <1>9 DEF ConsoleInit, ViewKept, NoView, HasRead, Shown
<1>11. ChartKept
  <2>1. Begins(<< >>, Row.samples)
    BY <1>3 DEF Begins, JobRows
  <2> QED BY <1>9, <2>1 DEF ConsoleInit, ChartKept, NoChart, NoPayload
<1> QED BY <1>2, <1>4, <1>7, <1>8, <1>10, <1>11 DEF ConsoleInv

LEMMA ConsoleSteps == ConsoleInv /\ [ConsoleNext]_conVars => ConsoleInv'
<1> SUFFICES ASSUME ConsoleInv, [ConsoleNext]_conVars PROVE ConsoleInv'
  OBVIOUS
<1>0. PlaneRests /\ FinalKept /\ SessionsKept /\ ClientPlaced /\ ViewKept /\ ChartKept
  BY DEF ConsoleInv
<1>1. CASE Plane
  BY <1>1, PlaneKeeps
<1>2. ASSUME Aside, Keeps PROVE ConsoleInv'
  BY <1>0, <1>2, AsideKeeps DEF ConsoleInv, Keeps
<1>3. CASE ClientStep
  <2>1. Aside
    BY <1>3 DEF ClientStep, Ask, OpenPage, ReadNext, Poll, PollNext
  <2>2. Keeps
    BY <1>3, AskKeeps, OpenPageKeeps, ReadKeeps, PollKeeps, PollNextKeeps DEF ClientStep
  <2> QED BY <1>2, <2>1, <2>2
<1>4. CASE User
  <2>1. Aside
    BY <1>4 DEF User, Login, Logout, Open, Leave
  <2> QED BY <1>2, <1>4, <2>1, UserKeeps
<1>5. CASE Tick
  <2>1. Aside /\ UNCHANGED <<client, view, payload, chart, failures>>
    BY <1>5 DEF Tick
  <2>2. Row' = Row /\ final' = final
    BY <1>0, <2>1, AsideKeeps
  <2>3. SessionsKept' /\ ClientPlaced'
    BY <1>0, <1>5, <2>1, TickKeeps DEF ClientPlaced
  <2>4. ViewKept' /\ ChartKept'
    BY <2>1, <2>2, QuietKeeps
  <2> QED BY <1>2, <2>1, <2>3, <2>4 DEF Keeps
<1>6. CASE RequestFails
  <2>1. Aside
    BY <1>6 DEF RequestFails
  <2> QED BY <1>2, <1>6, <2>1, FailsKeeps
<1>7. CASE UNCHANGED conVars
  <2>1. Aside /\ UNCHANGED <<clock, sessions, granted, logins, client, view, payload, chart, failures>>
    BY <1>7 DEF conVars, clientVars, Aside
  <2>2. Row' = Row /\ final' = final
    BY <1>0, <2>1, AsideKeeps
  <2>3. SessionsKept' /\ ClientPlaced'
    BY <1>0, <2>1 DEF SessionsKept, Granted, ClientPlaced
  <2>4. ViewKept' /\ ChartKept'
    BY <2>1, <2>2, QuietKeeps
  <2> QED BY <1>2, <2>1, <2>3, <2>4 DEF Keeps
<1> QED BY <1>1, <1>3, <1>4, <1>5, <1>6, <1>7 DEF ConsoleNext

LEMMA ConsoleHolds == ConsoleSpec => []ConsoleInv
BY ConsoleStarts, ConsoleSteps, PTL DEF ConsoleSpec

LEMMA ViewFinal ==
    ASSUME ConsoleInv, Shown, view.state \in Ended
    PROVE  \A c \in {"state", "attempts", "fired"} : view[c] = Column(Row, c)
<1>1. \A c : HasRead(c)
  BY DEF HasRead
<1>2. /\ view.state = Row.state /\ view.attempts = Column(Row, "attempts")
      /\ view.fired = Column(Row, "fired")
  BY <1>1 DEF ConsoleInv, ViewKept
<1>3. Column(Row, "state") = Row.state
  BY DEF Column
<1> QED BY <1>2, <1>3

\* The variables of the console have their types in every reachable state, and the
\* client is where its kind can be: a shown job exists, a request that is not under
\* way has no query left, the cursor is the number of points drawn (ui.go,
\* charts.js, auth.go).
THEOREM ConsoleTypeCorrect == ConsoleSpec => []ConsoleTypeOK
<1>1. ConsoleInv => ConsoleTypeOK
  <2> SUFFICES ASSUME ConsoleInv PROVE ConsoleTypeOK
    OBVIOUS
  <2>1. PlaneRests /\ FinalKept /\ SessionsKept /\ ClientPlaced /\ ViewKept /\ ChartKept
    BY DEF ConsoleInv
  <2>2. MaxLogins[client.kind] \in Nat /\ logins \in 0 .. MaxLogins[client.kind]
        /\ client.cookie \in 0 .. MaxLogins[client.kind]
    BY <2>1, ConsoleAssumption DEF ClientPlaced, SessionsKept
  <2>3. /\ logins \in {0} \cup SessionIds /\ client.cookie \in {0} \cup SessionIds
        /\ \A i \in 1 .. logins : i \in SessionIds
    BY <2>2 DEF SessionIds
  <2>4. \A g \in granted : g.id \in SessionIds /\ g.until \in Nat
    BY <2>1, <2>3 DEF SessionsKept
  <2>5. \A r \in sessions : r.id \in SessionIds
    BY <2>1, <2>4 DEF SessionsKept, Granted
  <2>6. Shown => view.state \in JobStates \ {"absent"}
    BY <2>1 DEF ViewKept, HasRead
  <2>7. TypeOK /\ clock \in Moments /\ final \in JobRows
    BY <2>1 DEF PlaneRests, CoherenceInv, SessionsKept, FinalKept
  <2>8. /\ failures \in 0 .. MaxFailures /\ client.kind \in Clients /\ client.pc \in Pcs
        /\ client.todo \in Seq(Columns) /\ (client.pc \notin {"read", "poll"} => client.todo = << >>)
    BY <2>1 DEF ClientPlaced
  <2>9. /\ chart.cursor = Len(chart.points) /\ chart.known \in JobStates \cup {Nothing}
        /\ chart.first \in JobStates \cup {Nothing}
    BY <2>1 DEF ChartKept
  <2> QED BY <2>3, <2>4, <2>5, <2>6, <2>7, <2>8, <2>9 DEF ConsoleTypeOK, Shown
<1> QED BY <1>1, ConsoleHolds, PTL

\* An answer or a page that shows the job as ended shows what the job will always be:
\* GetJobDetail reads the state first, and what an ended job has does not change
\* between its five queries, whatever is committed; `job wait` prints nothing else.
THEOREM AnswersStayFinal == ConsoleSpec => []AnswersFinal
<1>1. ConsoleInv => AnswersFinal
  <2> SUFFICES ASSUME ConsoleInv PROVE AnswersFinal
    OBVIOUS
  <2>1. client.kind = "wait" /\ client.pc = "done" => view.state \in Ended
    BY DEF ConsoleInv, ViewKept
  <2>2. ASSUME Shown, view.state \in Ended
        PROVE  /\ \A c \in {"state", "attempts", "fired"} : view[c] = Column(Row, c)
               /\ Unordered(final.samples) \subseteq view.samples
    <3>1. \A c : HasRead(c)
      BY <2>2 DEF HasRead
    <3>2. Unordered(final.samples) \subseteq view.samples
      BY <2>2, <3>1 DEF ConsoleInv, ViewKept
    <3> QED BY <2>2, <3>2, ViewFinal
  <2> QED BY <2>1, <2>2 DEF AnswersFinal, Row
<1> QED BY <1>1, ConsoleHolds, PTL

\* The chart has every sample once and in order, and all those of the job's life when
\* polling ends: the cursor of ListJobMetricPoints is the number of points drawn, and
\* the state that ends polling was read before the samples.
THEOREM ChartsExact == ConsoleSpec => []ChartExact
<1>1. ConsoleInv => ChartExact
  <2> SUFFICES ASSUME ConsoleInv PROVE ChartExact
    OBVIOUS
  <2> DEFINE a == chart.points
             b == Row.samples
             f == final.samples
  <2>1. a \in Seq(Samples) /\ Begins(a, b) /\ (client.pc = "stopped" => Begins(f, a))
    BY DEF ConsoleInv, ChartKept
  <2>2. b \in Seq(Samples) /\ f \in Seq(Samples)
    BY RestRows, ConsoleAssumption DEF ConsoleInv, Row, JobRows, FinalKept
  <2> HIDE DEF a, b, f
  <2>3. IsPrefix(a, b) /\ (client.pc = "stopped" => IsPrefix(f, a))
    BY <2>1, <2>2, BeginsPrefix
  <2> QED BY <2>3 DEF ChartExact, Row, a, b, f
<1> QED BY <1>1, ConsoleHolds, PTL

\* A page whose first poll found the state it shows is truthful when polling ends:
\* all polls of a page that was not reloaded found one state, so the last one found
\* what the page shows, and that is an end.
THEOREM PagesTruthful == ConsoleSpec => []PageTruthful
<1>1. ConsoleInv => PageTruthful
  <2> SUFFICES ASSUME ConsoleInv, client.pc = "stopped", chart.first = view.state
               PROVE  \A c \in {"state", "attempts", "fired"} : view[c] = Column(Row, c)
    BY DEF PageTruthful, Row
  <2>1. Shown /\ view.state \in Ended
    BY DEF ConsoleInv, ChartKept, Shown
  <2> QED BY <2>1, ViewFinal
<1> QED BY <1>1, ConsoleHolds, PTL

\* A session is good from its login until its logout or the end of its life, to the
\* tick, although expires_at is compared as text and every login removes what has
\* expired (AuthenticateBrowserSession, CreateBrowserSession).
THEOREM SessionsLastExactly == ConsoleSpec => []SessionsExact
<1>1. ConsoleInv => SessionsExact
  <2> SUFFICES ASSUME ConsoleInv PROVE SessionsExact
    OBVIOUS
  <2>1. SessionsKept /\ clock \in Nat
    BY ConsoleAssumption DEF ConsoleInv, SessionsKept
  <2>2. \A g \in granted : /\ Granted(g).id = g.id
                           /\ Authenticates(Granted(g)) <=> clock < g.until
    <3> SUFFICES ASSUME NEW g \in granted
                 PROVE  Granted(g).id = g.id /\ (Authenticates(Granted(g)) <=> clock < g.until)
      OBVIOUS
    <3>1. g.until \in Nat
      BY <2>1 DEF SessionsKept
    <3>2. Granted(g).id = g.id /\ Granted(g).expires = Written(g.until)
      BY DEF Granted
    <3>3. Precedes(Written(clock), Written(g.until)) <=> clock < g.until
      BY <2>1, <3>1, ExpiryExact
    <3> QED BY <3>2, <3>3 DEF Authenticates
  <2>3. \A r \in sessions : \E g \in granted : r = Granted(g)
    BY <2>1 DEF SessionsKept
  <2>4. \A g \in granted : clock < g.until => Granted(g) \in sessions
    BY <2>1 DEF SessionsKept
  <2>5. ASSUME NEW r \in sessions, Authenticates(r)
        PROVE  r.id \in {g.id : g \in {h \in granted : clock < h.until}}
    BY <2>2, <2>3, <2>5
  <2>6. ASSUME NEW g \in granted, clock < g.until
        PROVE  g.id \in {r.id : r \in {q \in sessions : Authenticates(q)}}
    BY <2>2, <2>4, <2>6
  <2> QED BY <2>5, <2>6 DEF SessionsExact
<1> QED BY <1>1, ConsoleHolds, PTL
=============================================================================
