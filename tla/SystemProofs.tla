------------------------------- MODULE SystemProofs -------------------------------
(* The whole system: what is proved of the control plane holds when it is driven   *)
(* by real workers over a network that loses answers, a worker never runs more     *)
(* than it has places for, what an ended attempt shows is what it made, no sync is *)
(* refused, a repeated command is the same command, and samples are lines.         *)
EXTENDS ExecutionProofs, SchedulingProofs

---------------------------------------------------------------------------
(* The system implements the control plane's specification *)

LEMMA StepIsPlaneStep ==
    ASSUME Unbounded, WorkInv, [SyncNext]_sysVars
    PROVE  [Next]_vars
<1>0. PlaneTyped
  BY DEF WorkInv
<1>1. CASE Operate
  <2>1. Operator
    BY <1>1 DEF Operate, Operator
  <2> QED BY <2>1 DEF Next
<1>2. CASE \E w \in Workers : AgentAlone(w) \/ JobAlone(w) \/ Post(w) \/ Start(w) \/ Faults(w)
  <2>1. Aside
    BY <1>2 DEF AgentAlone, JobAlone, Post, Start, Faults
  <2> QED BY <2>1 DEF Aside, vars
<1>3. CASE \E r \in wire : Serve(r)
  <2>1. PICK r \in wire : BeginSync(r.worker, r.session)
    BY <1>3 DEF Serve
  <2>2. r.worker \in Workers /\ r.session \in Sessions
    BY <1>0 DEF PlaneTyped, Posted, Unbounded
  <2> QED BY <2>1, <2>2 DEF Next, Sync
<1>4. CASE RecordNext
  <2>1. PICK e : e = Head(call.rest) /\ RecordEvent(e)
    BY <1>4 DEF RecordNext
  <2>2. e \in Messages
    BY <1>0, <1>4, <2>1 DEF PlaneTyped, RecordNext
  <2>3. e \in Events
    BY <2>2 DEF Messages, Events, Unbounded
  <2> QED BY <2>1, <2>3 DEF Next, Sync
<1>5. CASE RefuseNext \/ ServerFault
  <2>1. Rollback
    BY <1>5 DEF RefuseNext, ServerFault, Fail
  <2> QED BY <2>1 DEF Next, Sync
<1>6. CASE StartOffers
  BY <1>6 DEF StartOffers, Next, Sync
<1>7. CASE \E j \in Jobs : Offer(j)
  BY <1>7 DEF Offer, Next, Sync
<1>8. CASE Reply
  BY <1>8 DEF Reply, Next, Sync
<1>9. CASE UNCHANGED sysVars
  BY <1>9 DEF sysVars, vars
<1> QED BY <1>1, <1>2, <1>3, <1>4, <1>5, <1>6, <1>7, <1>8, <1>9 DEF SyncNext, Server

\* Workers, their restarts and the network drive the control plane only through the
\* transactions ControlPlane describes: every behaviour of the system is one of the
\* control plane's, so all that is proved of Spec holds in the system (workerSync
\* and the store's operations).
THEOREM SystemRunsThePlane == Unbounded => (SyncSpec => Spec)
<1> SUFFICES ASSUME Unbounded PROVE SyncSpec => Spec
  OBVIOUS
<1>1. SyncInit => Init
  BY DEF SyncInit
<1>2. WorkInv /\ [SyncNext]_sysVars => [Next]_vars
  BY StepIsPlaneStep
<1> QED BY <1>1, <1>2, Working, PTL DEF SyncSpec, Spec

\* The whole system implements the life cycle clients are promised: a job fails only
\* with its retry budget spent, and a canceled or ended job is never taken up again,
\* whatever workers and the network do.
THEOREM SystemImplementsLifecycle == Unbounded => (SyncSpec => ImplementsLifecycle)
BY SystemRunsThePlane, StoreImplementsLifecycle, PTL

---------------------------------------------------------------------------
(* Places *)

\* The processes that run are of different attempts, each live in the table.
LEMMA RunningIsLive ==
    ASSUME ExecInv, TruthInv, OneExecution, EndedMeansStopped, NEW w \in Workers
    PROVE  LET run == {p \in DOMAIN procs[w] : procs[w][p].st = "running"}
           IN  /\ \A p \in run : procs[w][p].attempt \in LiveOn(db, w)
               /\ \A p, q \in run : procs[w][p].attempt = procs[w][q].attempt => p = q
<1> DEFINE run == {p \in DOMAIN procs[w] : procs[w][p].st = "running"}
<1>1. ASSUME NEW p \in run PROVE procs[w][p].attempt \in LiveOn(db, w)
  <2>1. PICK a : a = procs[w][p].attempt
    OBVIOUS
  <2>2. procs[w] \in Seq(Processes) /\ PidsFit(store[w], agent[w], procs[w]) /\ p \in DOMAIN procs[w]
    BY DEF ExecInv, WorkInv, MachinesTyped, AllFit, Fit
  <2>3. a \in AttemptIds /\ a \in DOMAIN store[w].cmds
    <3>1. procs[w][p] \in Processes
      BY <2>2
    <3> QED BY <2>1, <2>2, <3>1 DEF Processes, PidsFit
  <2>4. InTable(db, a) /\ RowOf(db, a).worker = w
    BY <2>3 DEF TruthInv, Owned
  <2>5. RowOf(db, a).state \notin Ended
    BY <2>1, <2>2, <2>4 DEF EndedMeansStopped, HasRow, AttemptRow, InTable, RowOf
  <2>6. RowOf(db, a).state \in Live \cup Ended
    <3>1. a[1] \in Jobs /\ db.job[a[1]].attempts \in Seq(Attempts)
      BY <2>3 DEF ExecInv, WorkInv, PlaneTyped, Tables, JobRows, AttemptIds
    <3>2. RowOf(db, a) \in Attempts
      BY <2>4, <3>1 DEF InTable, RowOf
    <3> QED BY <3>2 DEF Attempts
  <2> QED BY <2>1, <2>3, <2>4, <2>5, <2>6 DEF LiveOn, InTable, RowOf
<1>2. \A p, q \in run : procs[w][p].attempt = procs[w][q].attempt => p = q
  BY DEF OneExecution
<1> QED BY <1>1, <1>2

\* A worker never runs more jobs than its parallelism, although offers, launches and
\* reports are a sync apart and answers are lost: what runs is live in the control
\* plane's table, each attempt in one process, and the table never gives a worker
\* more (offerJobs, launchPending).
THEOREM WorkersNeverOverloaded ==
    Unbounded /\ NoRestarts => (SyncSpec => []WorkerNotOverloaded)
<1>1. ASSUME ExecInv, TruthInv, OneExecution, EndedMeansStopped, PlacesInv
      PROVE  WorkerNotOverloaded
  <2> SUFFICES ASSUME NEW w \in Workers
               PROVE  Cardinality({p \in DOMAIN procs[w] : procs[w][p].st = "running"})
                          <= WithDefaults(Capacity[w]).maxParallel
    BY DEF WorkerNotOverloaded
  <2> DEFINE run == {p \in DOMAIN procs[w] : procs[w][p].st = "running"}
             live == LiveOn(db, w)
             f == [p \in run |-> procs[w][p].attempt]
  <2>1. /\ \A p \in run : procs[w][p].attempt \in live
        /\ \A p, q \in run : procs[w][p].attempt = procs[w][q].attempt => p = q
    BY <1>1, RunningIsLive
  <2>2. IsFiniteSet(live) /\ Cardinality(live) <= WithDefaults(Capacity[w]).maxParallel
    BY <1>1 DEF PlacesInv, PlacesKept
  <2>3. IsFiniteSet(run)
    <3>1. procs[w] \in Seq(Processes)
      BY <1>1 DEF ExecInv, WorkInv, MachinesTyped
    <3>2. DOMAIN procs[w] = 1 .. Len(procs[w]) /\ Len(procs[w]) \in Nat
      BY <3>1
    <3>3. IsFiniteSet(1 .. Len(procs[w]))
      BY <3>2, FS_Interval
    <3> QED BY <3>2, <3>3, FS_Subset
  <2>4. f \in Injection(run, live)
    BY <2>1 DEF Injection, IsInjective
  <2> HIDE DEF run, live, f
  <2>5. Cardinality(run) <= Cardinality(live)
    BY <2>2, <2>3, <2>4, FS_Injection
  <2>6. /\ Cardinality(run) \in Nat /\ Cardinality(live) \in Nat
        /\ WithDefaults(Capacity[w]).maxParallel \in Nat
    BY <2>2, <2>3, FS_CardinalityType, DefaultsType
  <2>7. Cardinality(run) <= WithDefaults(Capacity[w]).maxParallel
    BY <2>2, <2>5, <2>6
  <2> QED BY <2>7 DEF run
<1> SUFFICES ASSUME Unbounded, NoRestarts PROVE SyncSpec => []WorkerNotOverloaded
  OBVIOUS
<1>2. SyncSpec => []PlacesInv
  BY SystemRunsThePlane, Places
<1> QED BY <1>1, <1>2, Truth, OneExecutionEach, EndedHasStopped, PTL

---------------------------------------------------------------------------
(* What a worker says, one step at a time *)

\* The events that wait in an outbox.
Outgoing(st) == {st.outbox[i] : i \in DOMAIN st.outbox}

\* An event the control plane can take and that agrees with the files of its attempt.
Sound(fs, e) ==
    /\ e.body.kind = "artifacts" =>
          e.body.files # {} /\ e.body.files \subseteq fs[e.body.attempt].outputs
    /\ e.body.kind = "attempt_finished" =>
          /\ e.body.files \subseteq fs[e.body.attempt].outputs
          /\ Collects \subseteq {TRUE} => e.body.files = fs[e.body.attempt].outputs
          /\ e.body.tailFits \in Tails \cup {TRUE}
    /\ e.body.kind = "metric_sample" => e.body.point # TooLong

\* How the event of a kind goes with the state of its command, before and after.
Passes(kind, old, new) ==
    \/ kind = "attempt_started" /\ old = "pending" /\ new = "running"
    \/ kind = "attempt_finished" /\ old \in {"pending", "running"} /\ new = "finished"
    \/ kind \in {"artifacts", "metric_sample"} /\ new = old

SameCommands(st, st2) ==
    /\ DOMAIN st2.cmds = DOMAIN st.cmds
    /\ \A a \in DOMAIN st.cmds : st2.cmds[a].state = st.cmds[a].state

Silent(st, st2) == Outgoing(st2) = Outgoing(st) /\ SameCommands(st, st2)

Speaks(st, fs, st2, e) ==
    /\ Outgoing(st2) = Outgoing(st) \cup {e} /\ e.seq = st.next /\ Sound(fs, e)
    /\ e.body.attempt \in DOMAIN st.cmds /\ DOMAIN st2.cmds = DOMAIN st.cmds
    /\ \A a \in DOMAIN st.cmds \ {e.body.attempt} : st2.cmds[a].state = st.cmds[a].state
    /\ Passes(e.body.kind, st.cmds[e.body.attempt].state, st2.cmds[e.body.attempt].state)

Takes(st, run, st2) ==
    /\ DOMAIN st2.cmds = DOMAIN st.cmds \cup {r.attempt : r \in run}
    /\ \A a \in DOMAIN st.cmds : st2.cmds[a].state = st.cmds[a].state
    /\ \A a \in DOMAIN st2.cmds \ DOMAIN st.cmds :
          /\ st2.cmds[a].state = "pending"
          /\ \E m \in Outgoing(st2) : /\ m.body.kind = "attempt_accepted"
                                     /\ m.body.attempt = a /\ m.seq >= st.next
    /\ Outgoing(st) \subseteq Outgoing(st2)
    /\ \A m \in Outgoing(st2) \ Outgoing(st) :
          /\ m.body.kind = "attempt_accepted" /\ m.seq >= st.next
          /\ m.body.attempt \in DOMAIN st2.cmds \ DOMAIN st.cmds
    /\ \A m, q \in Outgoing(st2) \ Outgoing(st) :
          m.body.attempt = q.body.attempt => m = q

Drops(st, through, st2) ==
    /\ SameCommands(st, st2)
    /\ Outgoing(st2) \subseteq Outgoing(st)
    /\ \A m \in Outgoing(st) : m.seq > through => m \in Outgoing(st2)

\* How many lines of an attempt's metrics file were read.
Offset(st, a) == IF a \in DOMAIN st.cmds THEN st.cmds[a].offset ELSE 0

\* No line is read.
ReadsNone(st, st2) ==
    /\ \A a : Offset(st2, a) = Offset(st, a)
    /\ \A m \in Outgoing(st2) : m \in Outgoing(st) \/ m.body.kind # "metric_sample"

\* Event e tells line number n of attempt a.
Tells(e, a, n, lines) ==
    /\ e.body.kind = "metric_sample" /\ e.body.attempt = a /\ e.body.point = lines[n]

\* The next line of attempt a is read, and told if it can be.
ReadsLine(st, fs, st2, a, n) ==
    /\ n = Offset(st, a) + 1 /\ Offset(st, a) \in Nat /\ n \in 1 .. Len(fs[a].lines)
    /\ Offset(st2, a) = n
    /\ \A b : b # a => Offset(st2, b) = Offset(st, b)
    /\ \/ fs[a].lines[n] = Unreadable /\ Outgoing(st2) = Outgoing(st)
       \/ /\ fs[a].lines[n] # Unreadable
          /\ \E e : /\ Outgoing(st2) = Outgoing(st) \cup {e}
                    /\ e.seq = st.next /\ Tells(e, a, n, fs[a].lines)

LEMMA WaitingAppend ==
    ASSUME NEW st \in Stores, NEW st2, NEW e, st2.outbox = Append(st.outbox, e)
    PROVE  Outgoing(st2) = Outgoing(st) \cup {e}
<1> DEFINE es == st.outbox
           T == Messages \cup {e}
<1>1. es \in Seq(Messages)
  BY StoreShape
<1>2. es \in Seq(T) /\ e \in T
  BY <1>1
<1> HIDE DEF T, es
<1>3. /\ Append(es, e) \in Seq(T) /\ Len(Append(es, e)) = Len(es) + 1
      /\ Append(es, e)[Len(es) + 1] = e /\ Len(es) \in Nat
      /\ \A i \in 1 .. Len(es) : Append(es, e)[i] = es[i]
  BY <1>2
<1>4. DOMAIN es = 1 .. Len(es) /\ DOMAIN Append(es, e) = 1 .. Len(es) + 1
  BY <1>2, <1>3
<1>5. Outgoing(st) = {es[i] : i \in 1 .. Len(es)}
      /\ Outgoing(st2) = {Append(es, e)[i] : i \in 1 .. Len(es) + 1}
  BY <1>4 DEF Outgoing, es
<1>6. \A i \in 1 .. Len(es) + 1 : i \in 1 .. Len(es) \/ i = Len(es) + 1
  BY <1>3
<1>7. Len(es) + 1 \in 1 .. Len(es) + 1 /\ \A i \in 1 .. Len(es) : i \in 1 .. Len(es) + 1
  BY <1>3
<1> QED BY <1>3, <1>5, <1>6, <1>7

LEMMA Speaking ==
    ASSUME NEW st \in Stores, NEW w, NEW a \in DOMAIN st.cmds, NEW c \in Commands, NEW body,
           NEW st2, Told(st, w, a, c, body, st2), NEW fs, body.attempt = a,
           Sound(fs, Message(st, w, body)), Passes(body.kind, st.cmds[a].state, c.state)
    PROVE  Speaks(st, fs, st2, Message(st, w, body))
<1> DEFINE e == Message(st, w, body)
<1>1. e.seq = st.next /\ e.body = body
  BY DEF Message
<1>2. st2.outbox = Append(st.outbox, e) /\ DOMAIN st2.cmds = DOMAIN st.cmds /\ st2.cmds[a] = c
      /\ \A b \in DOMAIN st.cmds \ {a} : st2.cmds[b] = st.cmds[b]
  BY DEF Told
<1> HIDE DEF e
<1>3. Outgoing(st2) = Outgoing(st) \cup {e}
  BY <1>2, WaitingAppend
<1> QED BY <1>1, <1>2, <1>3 DEF Speaks, e

\* An event that is no sample goes with no line.
LEMMA SpeakingKeeps ==
    ASSUME NEW st \in Stores, NEW w, NEW a \in DOMAIN st.cmds, NEW c, NEW body,
           NEW st2, Told(st, w, a, c, body, st2), c.offset = st.cmds[a].offset,
           body.kind # "metric_sample"
    PROVE  ReadsNone(st, st2)
<1> DEFINE e == Message(st, w, body)
<1>1. e.body.kind = body.kind
  BY DEF Message
<1>2. st2.outbox = Append(st.outbox, e) /\ DOMAIN st2.cmds = DOMAIN st.cmds /\ st2.cmds[a] = c
      /\ \A b \in DOMAIN st.cmds \ {a} : st2.cmds[b] = st.cmds[b]
  BY DEF Told
<1> HIDE DEF e
<1>3. Outgoing(st2) = Outgoing(st) \cup {e}
  <2>1. st2.outbox = Append(st.outbox, e)
    BY <1>2
  <2> QED BY ONLY <2>1, st \in Stores, WaitingAppend
<1>4. \A b : Offset(st2, b) = Offset(st, b)
  BY <1>2 DEF Offset
<1>5. \A m \in Outgoing(st2) : m \in Outgoing(st) \/ m.body.kind # "metric_sample"
  BY <1>1, <1>3
<1> QED BY <1>4, <1>5 DEF ReadsNone

\* A list made of a set has each member once.
LEMMA ListedOnce ==
    ASSUME NEW S, IsFiniteSet(S)
    PROVE  \A i, k \in DOMAIN SetToSeq(S) : SetToSeq(S)[i] = SetToSeq(S)[k] => i = k
<1> DEFINE N == Cardinality(S)
           list == SetToSeq(S)
<1>1. N \in Nat
  BY FS_CardinalityType
<1>2. PICK n \in Nat : ExistsBijection(1 .. n, S)
  BY FS_NatBijection
<1>3. n = N
  BY <1>2, FS_CountingElements
<1> HIDE DEF N
<1>4. PICK f : f \in Bijection(1 .. N, S)
  BY <1>2, <1>3 DEF ExistsBijection
<1>5. \E g \in [1 .. N -> S] : IsInjective(g)
  BY <1>4 DEF Bijection, Injection
<1>6. list \in [1 .. N -> S] /\ IsInjective(list)
  BY <1>5 DEF SetToSeq, N
<1> HIDE DEF list
<1>7. \A i, k \in DOMAIN list : list[i] = list[k] => i = k
  BY <1>6 DEF IsInjective
<1> QED BY <1>7 DEF list

\* AcceptCommands announces every new command once.
LEMMA Taking ==
    ASSUME NEW st \in Stores, NEW w \in Workers,
           NEW run \in SUBSET [attempt : AttemptIds, rev : Nat], IsFiniteSet(run),
           \A r, q \in run : r.attempt = q.attempt => r = q,
           NEW cancel \in SUBSET AttemptIds
    PROVE  Takes(st, run, WithCommands(st, w, run, cancel))
<1> DEFINE fresh == {r \in run : r.attempt \notin DOMAIN st.cmds}
           rows == SetToSeq(fresh)
           es == [i \in DOMAIN rows |->
                    [seq |-> st.next + i - 1, id |-> <<w, st.next + i - 1>>,
                     body |-> [kind |-> "attempt_accepted", attempt |-> rows[i].attempt]]]
           new == WithCommands(st, w, run, cancel)
           old == st.outbox
<1>1. new.outbox = old \o es
  BY DEF WithCommands
<1>2. Accepts(st, run, cancel, new)
  BY AcceptIs
<1>3. IsFiniteSet(fresh)
  BY FS_Subset
<1>4. /\ DOMAIN rows = 1 .. Len(rows) /\ Len(rows) \in Nat /\ rows \in Seq(fresh)
      /\ \A r \in fresh : \E i \in DOMAIN rows : rows[i] = r
      /\ \A i, k \in DOMAIN rows : rows[i] = rows[k] => i = k
  <2> HIDE DEF fresh
  <2> QED BY <1>3, SetListed, ListedOnce
<1>5. \A i \in DOMAIN rows : rows[i] \in run /\ rows[i].attempt \notin DOMAIN st.cmds
  <2>1. \A i \in DOMAIN rows : rows[i] \in fresh
    <3> HIDE DEF fresh, rows
    <3> QED BY <1>4
  <2> QED BY <2>1
<1>6. /\ \A i \in 1 .. Len(rows) : /\ es[i].seq >= st.next
                                   /\ es[i].body.kind = "attempt_accepted"
                                   /\ es[i].body.attempt = rows[i].attempt
      /\ DOMAIN es = 1 .. Len(rows)
  <2> HIDE DEF rows
  <2>1. st.next \in Nat
    BY StoreShape
  <2> QED BY <1>4, <2>1
<1>7. old \in Seq(Messages) /\ es \in Seq({es[i] : i \in DOMAIN es}) /\ Len(es) = Len(rows)
  <2>1. old \in Seq(Messages)
    BY StoreShape
  <2> HIDE DEF rows
  <2>2. es \in [1 .. Len(rows) -> {es[i] : i \in DOMAIN es}]
    BY <1>4
  <2> DEFINE S == {es[i] : i \in DOMAIN es}
             n == Len(rows)
  <2>3. es \in [1 .. n -> S] /\ n \in Nat
    BY <1>4, <2>2
  <2> HIDE DEF es, S, n
  <2>4. es \in Seq(S) /\ Len(es) = n
    BY <2>3
  <2> QED BY <2>1, <2>4 DEF S, n
<1>8. Outgoing(new) = Outgoing(st) \cup {es[i] : i \in 1 .. Len(rows)}
  <2> DEFINE T == Messages \cup {es[i] : i \in DOMAIN es}
  <2> HIDE DEF es, rows, new, old
  <2>1. old \in Seq(T) /\ es \in Seq(T)
    BY <1>7
  <2> HIDE DEF T
  <2>2. /\ old \o es \in Seq(T) /\ Len(old \o es) = Len(old) + Len(es)
        /\ \A i \in 1 .. Len(old) + Len(es) :
              (old \o es)[i] = IF i <= Len(old) THEN old[i] ELSE es[i - Len(old)]
    BY <2>1, ConcatProperties
  <2>3. Len(old) \in Nat /\ Len(es) \in Nat /\ DOMAIN old = 1 .. Len(old)
    BY <2>1
  <2>4. DOMAIN new.outbox = 1 .. Len(old) + Len(es)
    BY <1>1, <2>2, <2>3
  <2>5. ASSUME NEW m \in Outgoing(new) PROVE m \in Outgoing(st) \cup {es[i] : i \in 1 .. Len(rows)}
    <3>1. PICK i \in 1 .. Len(old) + Len(es) : m = (old \o es)[i]
      BY <1>1, <2>4 DEF Outgoing
    <3>2. CASE i <= Len(old)
      <4>1. m = old[i] /\ i \in DOMAIN old
        BY <2>2, <2>3, <3>1, <3>2
      <4> QED BY <4>1 DEF Outgoing, old
    <3>3. CASE ~(i <= Len(old))
      <4>1. m = es[i - Len(old)] /\ i - Len(old) \in 1 .. Len(rows)
        BY <1>7, <2>2, <2>3, <3>1, <3>3
      <4> QED BY <4>1
    <3> QED BY <3>2, <3>3
  <2>6. ASSUME NEW m \in Outgoing(st) PROVE m \in Outgoing(new)
    <3>1. PICK i \in DOMAIN old : m = old[i]
      BY DEF Outgoing, old
    <3>2. i \in 1 .. Len(old) + Len(es) /\ i <= Len(old)
      BY <2>3
    <3>3. (old \o es)[i] = old[i]
      BY <2>2, <3>2
    <3> QED BY <1>1, <2>4, <3>1, <3>2, <3>3 DEF Outgoing
  <2>7. ASSUME NEW i \in 1 .. Len(rows) PROVE es[i] \in Outgoing(new)
    <3>1. /\ Len(old) + i \in 1 .. Len(old) + Len(es) /\ ~(Len(old) + i <= Len(old))
          /\ Len(old) + i - Len(old) = i
      BY <1>7, <2>3
    <3>2. (old \o es)[Len(old) + i] = es[i]
      BY <2>2, <3>1
    <3> QED BY <1>1, <2>4, <3>1, <3>2 DEF Outgoing
  <2> QED BY <2>5, <2>6, <2>7
<1>9. DOMAIN new.cmds = DOMAIN st.cmds \cup {r.attempt : r \in run}
  BY <1>2 DEF Accepts
<1>10. \A a \in DOMAIN st.cmds : new.cmds[a].state = st.cmds[a].state
  <2>1. \A a \in DOMAIN st.cmds : st.cmds[a] \in Commands
    BY StoreShape
  <2>2. \A c \in Commands : [c EXCEPT !.cancel = "asked"].state = c.state
    BY DEF Commands
  <2> HIDE DEF new
  <2> QED BY <1>2, <2>1, <2>2 DEF Accepts
<1>11. ASSUME NEW a \in DOMAIN new.cmds \ DOMAIN st.cmds
       PROVE  /\ new.cmds[a].state = "pending"
              /\ \E m \in Outgoing(new) : /\ m.body.kind = "attempt_accepted"
                                         /\ m.body.attempt = a /\ m.seq >= st.next
  <2>1. PICK r \in run : r.attempt = a
    BY <1>9
  <2>2. r \in fresh
    BY <2>1
  <2>3. PICK i \in DOMAIN rows : rows[i] = r
    <3> HIDE DEF fresh, rows
    <3> QED BY <1>4, <2>2
  <2> HIDE DEF es, rows, new, fresh
  <2>4. es[i] \in Outgoing(new) /\ i \in 1 .. Len(rows)
    BY <1>4, <1>8, <2>3
  <2> QED BY <1>2, <1>6, <2>1, <2>3, <2>4 DEF Accepts
<1>12. ASSUME NEW m \in Outgoing(new) \ Outgoing(st)
       PROVE  \E i \in 1 .. Len(rows) : m = es[i]
  <2> HIDE DEF es, rows, new
  <2> QED BY <1>8
<1>13. ASSUME NEW i \in 1 .. Len(rows)
       PROVE  rows[i].attempt \in DOMAIN new.cmds \ DOMAIN st.cmds
  <2> HIDE DEF es, rows, new
  <2> QED BY <1>4, <1>5, <1>9
<1>14. ASSUME NEW m \in Outgoing(new) \ Outgoing(st), NEW q \in Outgoing(new) \ Outgoing(st),
              m.body.attempt = q.body.attempt
       PROVE  m = q
  <2>1. PICK i \in 1 .. Len(rows), k \in 1 .. Len(rows) : m = es[i] /\ q = es[k]
    BY ZenonT(30), <1>12
  <2> HIDE DEF es, rows, new
  <2>2. rows[i].attempt = rows[k].attempt /\ rows[i] \in run /\ rows[k] \in run
    BY <1>4, <1>5, <1>6, <1>14, <2>1
  <2>3. rows[i] = rows[k]
    BY <2>2
  <2>4. i = k
    BY <1>4, <2>3
  <2> QED BY <2>1, <2>4
<1> HIDE DEF es, rows, new, fresh
<1>15. Takes(st, run, new)
  BY <1>6, <1>8, <1>9, <1>10, <1>11, <1>12, <1>13, <1>14 DEF Takes
<1> QED BY <1>15 DEF new

\* The statements that tell something tell what is so.
LEMMA SpeaksStarted ==
    ASSUME NEW st \in Stores, NEW w \in Workers, NEW a \in DOMAIN st.cmds, NEW pid \in Nat,
           st.cmds[a].state = "pending", NEW fs,
           NEW st2, st2 = MarkStarted(st, w, a, pid)
    PROVE  (\E e : Speaks(st, fs, st2, e)) /\ ReadsNone(st, st2)
<1> DEFINE c == [st.cmds[a] EXCEPT !.state = "running", !.pid = pid]
           body == [kind |-> "attempt_started", attempt |-> a]
<1>1. Told(st, w, a, c, body, st2)
  BY StartedIs
<1>2. c \in Commands /\ c.state = "running" /\ c.offset = st.cmds[a].offset
  <2>1. st.cmds[a] \in Commands
    BY StoreShape
  <2> QED BY <2>1 DEF Commands
<1>3. body.attempt = a /\ Sound(fs, Message(st, w, body)) /\ body.kind # "metric_sample"
      /\ Passes(body.kind, st.cmds[a].state, c.state)
  BY <1>2 DEF Sound, Message, Passes
<1> HIDE DEF c, body
<1> QED BY <1>1, <1>2, <1>3, Speaking, SpeakingKeeps

LEMMA SpeaksFinished ==
    ASSUME NEW st \in Stores, NEW w \in Workers, NEW a \in DOMAIN st.cmds,
           st.cmds[a].state \in {"pending", "running"}, NEW fs,
           NEW ok \in BOOLEAN, NEW tail \in BOOLEAN, tail \in Tails \cup {TRUE},
           NEW outputs \in SUBSET Files, outputs \subseteq fs[a].outputs,
           Collects \subseteq {TRUE} => outputs = fs[a].outputs,
           NEW st2, st2 = MarkFinished(st, w, a, ok, tail, outputs)
    PROVE  (\E e : Speaks(st, fs, st2, e)) /\ ReadsNone(st, st2)
<1> DEFINE c == [st.cmds[a] EXCEPT !.state = "finished"]
           body == [kind |-> "attempt_finished", attempt |-> a, ok |-> ok,
                    tailFits |-> tail, files |-> outputs]
<1>1. Told(st, w, a, c, body, st2)
  BY FinishedIs
<1>2. c \in Commands /\ c.state = "finished" /\ c.offset = st.cmds[a].offset
  <2>1. st.cmds[a] \in Commands
    BY StoreShape
  <2> QED BY <2>1 DEF Commands
<1>3. body.attempt = a /\ Sound(fs, Message(st, w, body)) /\ body.kind # "metric_sample"
      /\ Passes(body.kind, st.cmds[a].state, c.state)
  BY <1>2 DEF Sound, Message, Passes
<1> HIDE DEF c, body
<1> QED BY <1>1, <1>2, <1>3, Speaking, SpeakingKeeps

\* An event that leaves the commands' states alone.
LEMMA SpeaksAside ==
    ASSUME NEW st \in Stores, NEW w \in Workers, NEW a \in DOMAIN st.cmds, NEW fs,
           NEW body, body.attempt = a, body.kind \in {"artifacts", "metric_sample"},
           Sound(fs, Message(st, w, body)), NEW st2, SameCommands(st, st2),
           st2.outbox = Append(st.outbox, Message(st, w, body))
    PROVE  \E e : Speaks(st, fs, st2, e)
<1> DEFINE e == Message(st, w, body)
<1>1. e.seq = st.next /\ e.body = body
  BY DEF Message
<1> HIDE DEF e
<1>2. Outgoing(st2) = Outgoing(st) \cup {e}
  BY WaitingAppend DEF e
<1>3. Passes(body.kind, st.cmds[a].state, st2.cmds[a].state)
  BY DEF Passes, SameCommands
<1> QED BY <1>1, <1>2, <1>3 DEF Speaks, SameCommands, e

LEMMA SilentStays == \A st : Silent(st, st) /\ ReadsNone(st, st)
BY DEF Silent, SameCommands, ReadsNone

\* Only a member of an outbox that is acknowledged goes.
LEMMA Dropping ==
    ASSUME NEW st \in Stores, NEW w, NEW b \in Nat, Consecutive(st.outbox, w, b),
           NEW through \in Nat, through <= b + Len(st.outbox),
           NEW st2, st2 = [st EXCEPT !.outbox = After(@, through)]
    PROVE  Drops(st, through, st2)
<1> DEFINE es == st.outbox
           left == After(es, through)
<1>1. st2.outbox = left /\ st2.cmds = st.cmds
  BY DEF Stores
<1>2. es \in Seq(Messages)
  BY StoreShape
<1>3. left \in Seq(Messages) /\ \A i \in DOMAIN left : \E k \in DOMAIN es : left[i] = es[k]
  <2> HIDE DEF es
  <2> QED BY <1>2, AfterIs
<1>4. PICK c \in Nat : /\ c = IF through <= b THEN b ELSE through
                       /\ Consecutive(left, w, c) /\ c + Len(left) = b + Len(es)
  <2>1. Consecutive(es, w, b) /\ through <= b + Len(es)
    OBVIOUS
  <2> HIDE DEF es
  <2> QED BY <2>1, ConsecutiveAfter
<1>5. Outgoing(st2) \subseteq Outgoing(st)
  <2> HIDE DEF left
  <2> QED BY <1>1, <1>3 DEF Outgoing
<1>6. ASSUME NEW m \in Outgoing(st), m.seq > through PROVE m \in Outgoing(st2)
  <2>1. PICK k \in DOMAIN es : m = es[k]
    BY DEF Outgoing
  <2>2. /\ k \in 1 .. Len(es) /\ Len(es) \in Nat /\ m.seq = b + k
        /\ Len(left) \in Nat /\ DOMAIN left = 1 .. Len(left)
    <3> HIDE DEF left
    <3> QED BY <1>2, <1>3, <2>1 DEF Consecutive
  <2>3. PICK i \in Nat : i = b + k - c /\ i \in 1 .. Len(left)
    <3> HIDE DEF es, left
    <3> QED BY <1>4, <1>6, <2>2
  <2>4. left[i] \in Messages /\ left[i].seq = c + i
    <3> HIDE DEF left
    <3> QED BY <1>3, <1>4, <2>2, <2>3 DEF Consecutive
  <2>5. PICK l \in DOMAIN es : left[i] = es[l]
    <3> HIDE DEF left, es
    <3> QED BY <1>3, <2>2, <2>3
  <2>6. l \in 1 .. Len(es) /\ es[l].seq = b + l
    BY <1>2 DEF Consecutive
  <2>7. l = k
    <3> HIDE DEF es, left
    <3> QED BY SMTT(30), <1>4, <2>2, <2>3, <2>4, <2>5, <2>6
  <2> HIDE DEF left, es
  <2> QED BY <1>1, <2>1, <2>2, <2>3, <2>5, <2>7 DEF Outgoing
<1> QED BY <1>1, <1>5, <1>6 DEF Drops, SameCommands

\* Files are of attempts that had a process.
Produced(ps, fs) ==
    \A a \in AttemptIds : fs[a].outputs # {} => \E p \in DOMAIN ps : ps[p].attempt = a

\* An answer offers an attempt once.
OneEach(run) == \A r, q \in run : r.attempt = q.attempt => r = q

\* What a step of an agent does to what it has to say.
Says(w) ==
    \/ Silent(store[w], store'[w])
    \/ \E e : Speaks(store[w], files[w], store'[w], e)
    \/ At(w, "accept") /\ Takes(store[w], agent[w].inbox.run, store'[w])
    \/ Drops(store[w], agent[w].inbox.through, store'[w])

\* What it does to what it has read.
Reads(w) ==
    \/ ReadsNone(store[w], store'[w])
    \/ \E a \in AttemptIds, n \in Nat : ReadsLine(store[w], files[w], store'[w], a, n)

LEMMA NothingMade ==
    ASSUME NEW st, NEW ag, NEW ps \in Seq(Processes), NEW fs, Fit(st, ag, ps, fs),
           Produced(ps, fs), ag.pc # "spawned", NEW a \in AttemptIds, st.cmds[a].pid = 0
    PROVE  fs[a].outputs = {}
<1>1. \A p \in DOMAIN ps : ps[p].attempt = a => p = 0
  BY DEF Fit, PidsFit
<1>2. \A p \in DOMAIN ps : p # 0
  OBVIOUS
<1> QED BY <1>1, <1>2 DEF Produced

\* The facts about a machine that its steps need.
LEMMA MachineFacts ==
    ASSUME ExecInv, NEW w \in Workers
    PROVE  /\ store[w] \in Stores /\ agent[w] \in Agents /\ procs[w] \in Seq(Processes)
           /\ files[w] \in [AttemptIds -> FileRows] /\ Sized(files[w])
           /\ ListFits(store[w], agent[w])
           /\ Fit(store[w], agent[w], procs[w], files[w])
           /\ MachinesTyped
BY DEF ExecInv, WorkInv, MachinesTyped, AllFit

\* The store of one worker is written.
LEMMA StoreWritten ==
    ASSUME MachinesTyped, NEW w \in Workers, NEW x, store' = [store EXCEPT ![w] = x]
    PROVE  store'[w] = x
BY DEF MachinesTyped

LEMMA ReapSays ==
    ASSUME ExecInv, NEW w \in Workers, Produced(procs[w], files[w]), ReapWithdrawn(w)
    PROVE  Says(w) /\ Reads(w)
<1>1. PICK a \in Withdrawn(store[w]) :
          store' = [store EXCEPT ![w] = MarkFinished(@, w, a, FALSE, TRUE, {})]
  BY DEF ReapWithdrawn
<1>2. PICK st, fs, st2, ok, tail, none :
          /\ st = store[w] /\ fs = files[w] /\ st2 = store'[w]
          /\ ok = FALSE /\ tail = TRUE /\ none = {}
  OBVIOUS
<1>3. st \in Stores /\ a \in DOMAIN st.cmds /\ st.cmds[a].state = "pending" /\ a \in AttemptIds
  BY <1>1, <1>2, MachineFacts, StoreShape DEF Withdrawn
<1>4. st2 = MarkFinished(st, w, a, ok, tail, none)
  BY <1>1, <1>2, MachineFacts, StoreWritten
<1>5. fs[a].outputs = {}
  <2>1. agent[w].pc # "spawned"
    BY DEF ReapWithdrawn, At
  <2>2. store[w].cmds[a].pid = 0
    BY <1>2, <1>3, MachineFacts DEF Fit, PidsFit
  <2>3. files[w][a].outputs = {}
    BY <1>3, <2>1, <2>2, MachineFacts, NothingMade
  <2> QED BY <1>2, <2>3
<1>6. /\ ok \in BOOLEAN /\ tail \in BOOLEAN /\ tail \in Tails \cup {TRUE}
      /\ none \in SUBSET Files /\ none \subseteq fs[a].outputs
      /\ none = fs[a].outputs /\ st.cmds[a].state \in {"pending", "running"}
  BY <1>2, <1>3, <1>5
<1>7. (\E e : Speaks(st, fs, st2, e)) /\ ReadsNone(st, st2)
  BY <1>3, <1>4, <1>6, SpeaksFinished
<1> QED BY <1>2, <1>7 DEF Says, Reads

LEMMA IngestSays ==
    ASSUME ExecInv, NEW w \in Workers, Ingest(w)
    PROVE  Says(w) /\ Reads(w)
<1> DEFINE lines == files[w][Now(w)].lines
           offset == store[w].cmds[Now(w)].offset
<1>1. CASE UNCHANGED store
  BY <1>1, SilentStays DEF Says, Reads
<1>2. CASE ~UNCHANGED store
  <2>1. offset < Len(lines) /\ lines[offset + 1] # TooLong
        /\ store' = [store EXCEPT ![w] = TakeLine(@, w, Now(w), lines[offset + 1])]
    BY <1>2 DEF Ingest
  <2>2. PICK st, fs, st2, a, line :
            /\ st = store[w] /\ fs = files[w] /\ st2 = store'[w] /\ a = Now(w)
            /\ line = lines[offset + 1]
    OBVIOUS
  <2>3. st \in Stores /\ a \in DOMAIN st.cmds /\ a \in AttemptIds
    <3>1. agent[w].pc = "ingest" /\ agent[w].todo # << >>
      BY DEF Ingest, At
    <3> QED BY <2>2, <3>1, MachineFacts, FirstListed DEF Now, Reconciling
  <2>4. line \in Lines /\ line # TooLong
    <3>1. lines \in Seq(Lines)
      BY <2>2, <2>3, MachineFacts DEF FileRows
    <3>2. offset \in Nat
      BY <2>2, <2>3, StoreShape DEF Commands
    <3> HIDE DEF lines, offset
    <3> QED BY <2>1, <2>2, <3>1, <3>2
  <2>5. st2 = TakeLine(st, w, a, line)
    <3> DEFINE x == TakeLine(store[w], w, Now(w), lines[offset + 1])
    <3>1. store' = [store EXCEPT ![w] = x]
      BY <2>1
    <3> HIDE DEF x
    <3>2. store'[w] = x
      BY <3>1, MachineFacts, StoreWritten
    <3> QED BY <2>2, <3>2 DEF x
  <2>6. /\ st2.cmds = [st.cmds EXCEPT ![a] = [st.cmds[a] EXCEPT !.offset = @ + 1]]
        /\ line = Unreadable => st2.outbox = st.outbox
        /\ line # Unreadable =>
              st2.outbox = Append(st.outbox,
                  Message(st, w, [kind |-> "metric_sample", attempt |-> a, point |-> line]))
    <3> HIDE DEF lines, offset
    <3> QED BY <2>3, <2>4, <2>5, LineIs
  <2>7. SameCommands(st, st2)
    <3>1. st.cmds \in [DOMAIN st.cmds -> Commands]
      BY <2>3, StoreShape
    <3> QED BY <2>3, <2>6, <3>1 DEF SameCommands, Commands
  <2>10. PICK n \in Nat : /\ n = Offset(st, a) + 1 /\ Offset(st, a) \in Nat
                          /\ n \in 1 .. Len(fs[a].lines) /\ line = fs[a].lines[n]
    <3>1. lines \in Seq(Lines) /\ offset \in Nat /\ Offset(st, a) = offset
      BY <2>2, <2>3, MachineFacts, StoreShape DEF FileRows, Commands, Offset
    <3>2. Len(lines) \in Nat /\ fs[a].lines = lines
      BY <2>2, <3>1
    <3> HIDE DEF lines, offset
    <3> QED BY <2>1, <2>2, <3>1, <3>2
  <2>11. Offset(st2, a) = n /\ \A b : b # a => Offset(st2, b) = Offset(st, b)
    <3>1. st.cmds \in [DOMAIN st.cmds -> Commands]
      BY <2>3, StoreShape
    <3> QED BY <2>3, <2>6, <2>10, <3>1 DEF Offset, Commands
  <2>8. CASE line = Unreadable
    <3>1. Silent(st, st2)
      BY <2>6, <2>7, <2>8 DEF Silent, Outgoing
    <3>2. ReadsLine(st, fs, st2, a, n)
      BY <2>8, <2>10, <2>11, <3>1 DEF ReadsLine, Silent
    <3> QED BY <2>2, <2>3, <3>1, <3>2 DEF Says, Reads
  <2>9. CASE line # Unreadable
    <3> DEFINE body == [kind |-> "metric_sample", attempt |-> a, point |-> line]
    <3>1. body.attempt = a /\ body.kind \in {"artifacts", "metric_sample"}
          /\ Sound(fs, Message(st, w, body))
      BY <2>4 DEF Sound, Message
    <3>2. st2.outbox = Append(st.outbox, Message(st, w, body))
      BY <2>6, <2>9
    <3>4. PICK e : e = Message(st, w, body)
      OBVIOUS
    <3>5. e.seq = st.next /\ Tells(e, a, n, fs[a].lines)
      BY <2>10, <3>4 DEF Message, Tells
    <3> HIDE DEF body, lines, offset
    <3>3. \E f : Speaks(st, fs, st2, f)
      BY <2>3, <2>7, <3>1, <3>2, SpeaksAside
    <3>6. Outgoing(st2) = Outgoing(st) \cup {e}
      BY <2>3, <3>2, <3>4, WaitingAppend
    <3>7. ReadsLine(st, fs, st2, a, n)
      BY <2>9, <2>10, <2>11, <3>5, <3>6 DEF ReadsLine
    <3> QED BY <2>2, <2>3, <3>3, <3>7 DEF Says, Reads
  <2> QED BY <2>8, <2>9
<1> QED BY <1>1, <1>2

\* A sweep announces files that are there.
LEMMA WatchSays ==
    ASSUME ExecInv, NEW w \in Workers, agent[w].pc = "alive", WatchProgress(w)
    PROVE  Says(w) /\ Reads(w)
<1> DEFINE outputs == files[w][Now(w)].outputs
           found == SetToSeq(outputs)
           list == IF found # << >> /\ Head(found) = agent[w].seen[Now(w)]
                   THEN Tail(found) ELSE found
<1>1. CASE UNCHANGED store
  BY <1>1, SilentStays DEF Says, Reads
<1>2. CASE ~UNCHANGED store
  <2>1. store' = [store EXCEPT ![w] = AnnounceArtifacts(@, w, Now(w), ToSet(list))]
    BY <1>2 DEF WatchProgress, Listed
  <2>2. PICK st, fs, st2, a, changed :
            /\ st = store[w] /\ fs = files[w] /\ st2 = store'[w] /\ a = Now(w)
            /\ changed = ToSet(list)
    OBVIOUS
  <2>3. st \in Stores /\ a \in DOMAIN st.cmds /\ a \in AttemptIds
    <3>1. agent[w].todo # << >>
      BY MachineFacts DEF ListFits
    <3> QED BY <2>2, <3>1, MachineFacts, FirstListed DEF Now, Reconciling
  <2>4. changed \subseteq outputs /\ outputs \in SUBSET Files
    <3>1. IsFiniteSet(outputs) /\ outputs \in SUBSET Files
      BY <2>2, <2>3, MachineFacts DEF Sized, FileRows
    <3>2. found \in Seq(outputs)
      <4> HIDE DEF outputs
      <4> QED BY <3>1, SetListed
    <3> HIDE DEF outputs, found
    <3>3. list \in Seq(outputs)
      BY <3>2
    <3> HIDE DEF list
    <3>4. ToSet(list) \subseteq outputs
      BY <3>3 DEF ToSet
    <3> QED BY <2>2, <3>1, <3>4
  <2>5. st2 = AnnounceArtifacts(st, w, a, changed)
    <3> DEFINE x == AnnounceArtifacts(store[w], w, Now(w), ToSet(list))
    <3>1. store' = [store EXCEPT ![w] = x]
      BY <2>1
    <3> HIDE DEF x
    <3>2. store'[w] = x
      BY <3>1, MachineFacts, StoreWritten
    <3> QED BY <2>2, <3>2 DEF x
  <2>6. changed \in SUBSET Files /\ changed \subseteq fs[a].outputs
    BY <2>2, <2>4
  <2> HIDE DEF outputs, found, list
  <2>7. /\ st2.cmds = st.cmds
        /\ changed = {} => st2 = st
        /\ changed # {} =>
              st2.outbox = Append(st.outbox,
                  Message(st, w, [kind |-> "artifacts", attempt |-> a, files |-> changed]))
    BY <2>3, <2>5, <2>6, AnnouncedIs
  <2>8. CASE changed = {}
    BY <2>2, <2>7, <2>8, SilentStays DEF Says, Reads
  <2>9. CASE changed # {}
    <3> DEFINE body == [kind |-> "artifacts", attempt |-> a, files |-> changed]
    <3>1. body.attempt = a /\ body.kind \in {"artifacts", "metric_sample"}
          /\ Sound(fs, Message(st, w, body))
      BY <2>6, <2>9 DEF Sound, Message
    <3>2. st2.outbox = Append(st.outbox, Message(st, w, body)) /\ SameCommands(st, st2)
      BY <2>7, <2>9 DEF SameCommands
    <3> HIDE DEF body
    <3>3. \E e : Speaks(st, fs, st2, e)
      BY <2>3, <3>1, <3>2, SpeaksAside
    <3>4. Message(st, w, body).body.kind # "metric_sample"
      BY DEF Message, body
    <3>5. ReadsNone(st, st2)
      BY SMTT(30), <2>3, <2>7, <3>2, <3>4, WaitingAppend DEF ReadsNone, Offset
    <3> QED BY <2>2, <3>3, <3>5 DEF Says, Reads
  <2> QED BY <2>8, <2>9
<1> QED BY <1>1, <1>2

LEMMA FinishSays ==
    ASSUME ExecInv, NEW w \in Workers, Finish(w)
    PROVE  Says(w) /\ Reads(w)
<1>1. agent[w].pc = "finish"
  BY DEF Finish, At
<1>2. PICK tail \in Tails, collected \in Collects, sent \in {{}, files[w][Now(w)].outputs} :
          /\ collected => sent = files[w][Now(w)].outputs
          /\ store' = [store EXCEPT ![w] =
                      MarkFinished(@, w, Now(w), ExitedZero(w, collected), tail, sent)]
  BY DEF Finish
<1>3. PICK st, fs, st2, a, ok :
          /\ st = store[w] /\ fs = files[w] /\ st2 = store'[w] /\ a = Now(w)
          /\ ok = ExitedZero(w, collected)
  OBVIOUS
<1>4. /\ st \in Stores /\ a \in DOMAIN st.cmds /\ a \in AttemptIds
      /\ st.cmds[a].state = "running"
  <2>1. agent[w].todo # << >>
    BY <1>1, MachineFacts DEF ListFits
  <2> QED BY <1>1, <1>3, <2>1, MachineFacts, FirstListed DEF Now, Reconciling
<1>5. st2 = MarkFinished(st, w, a, ok, tail, sent)
  <2> DEFINE x == MarkFinished(store[w], w, Now(w), ok, tail, sent)
  <2>1. store' = [store EXCEPT ![w] = x]
    BY <1>2, <1>3
  <2> HIDE DEF x
  <2>2. store'[w] = x
    BY <2>1, MachineFacts, StoreWritten
  <2> QED BY <1>3, <2>2 DEF x
<1>6. /\ ok \in BOOLEAN /\ tail \in BOOLEAN /\ tail \in Tails \cup {TRUE}
      /\ st.cmds[a].state \in {"pending", "running"}
  BY <1>3, <1>4, AgentAssumption DEF ExitedZero
<1>7. fs[a].outputs \in SUBSET Files
  BY <1>3, <1>4, MachineFacts DEF FileRows
<1>8. sent \in SUBSET Files /\ sent \subseteq fs[a].outputs
  BY <1>2, <1>3, <1>7
<1>9. Collects \subseteq {TRUE} => sent = fs[a].outputs
  BY <1>2, <1>3
<1>10. (\E e : Speaks(st, fs, st2, e)) /\ ReadsNone(st, st2)
  BY <1>4, <1>5, <1>6, <1>8, <1>9, SpeaksFinished
<1> QED BY <1>3, <1>10 DEF Says, Reads

LEMMA AcceptSays ==
    ASSUME ExecInv, NEW w \in Workers, OneEach(agent[w].inbox.run), AcceptCommands(w)
    PROVE  Says(w) /\ Reads(w)
<1>1. CASE UNCHANGED store
  BY <1>1, SilentStays DEF Says, Reads
<1>2. CASE ~UNCHANGED store
  <2>1. /\ At(w, "accept")
        /\ store' = [store EXCEPT ![w] =
                        WithCommands(@, w, agent[w].inbox.run, agent[w].inbox.cancel)]
    BY <1>2 DEF AcceptCommands
  <2>2. PICK st, st2, run, cancel :
            /\ st = store[w] /\ st2 = store'[w]
            /\ run = agent[w].inbox.run /\ cancel = agent[w].inbox.cancel
    OBVIOUS
  <2>3. /\ st \in Stores /\ run \in SUBSET [attempt : AttemptIds, rev : Nat]
        /\ cancel \in SUBSET AttemptIds /\ IsFiniteSet(run)
        /\ \A r, q \in run : r.attempt = q.attempt => r = q
    <3>1. agent[w].inbox \in Replies
      BY MachineFacts DEF Agents
    <3>2. IsFiniteSet(agent[w].inbox.run)
      BY DEF ExecInv, ChainInv, Heard
    <3> QED BY <2>2, <3>1, <3>2, MachineFacts DEF Replies, OneEach
  <2>4. st2 = WithCommands(st, w, run, cancel)
    <3> DEFINE x == WithCommands(store[w], w, agent[w].inbox.run, agent[w].inbox.cancel)
    <3>1. store' = [store EXCEPT ![w] = x]
      BY <2>1
    <3> HIDE DEF x
    <3>2. store'[w] = x
      BY <3>1, MachineFacts, StoreWritten
    <3> QED BY <2>2, <3>2 DEF x
  <2>5. Takes(st, run, st2)
    BY <2>3, <2>4, Taking
  <2>6. Accepts(st, run, cancel, st2)
    BY <2>3, <2>4, AcceptIs
  <2>7. \A a : Offset(st2, a) = Offset(st, a)
    <3>1. \A a \in DOMAIN st.cmds : st.cmds[a] \in Commands
      BY <2>3, StoreShape
    <3>2. \A a \in DOMAIN st.cmds : a \in DOMAIN st2.cmds /\ st2.cmds[a].offset = st.cmds[a].offset
      BY <2>6, <3>1 DEF Accepts, Commands
    <3> QED BY <2>6, <3>2 DEF Accepts, Offset
  <2>8. ReadsNone(st, st2)
    BY <2>5, <2>7 DEF ReadsNone, Takes
  <2> QED BY <2>1, <2>2, <2>5, <2>8 DEF Says, Reads
<1> QED BY <1>1, <1>2

LEMMA AckSays ==
    ASSUME ExecInv, NEW w \in Workers, Acknowledge(w)
    PROVE  Says(w) /\ Reads(w)
<1>1. store' = [store EXCEPT ![w].outbox = After(@, agent[w].inbox.through)]
  BY DEF Acknowledge
<1>2. PICK st, st2, through : /\ st = store[w] /\ st2 = store'[w]
                              /\ through = agent[w].inbox.through
  OBVIOUS
<1>3. st \in Stores /\ st2 = [st EXCEPT !.outbox = After(@, through)]
  BY <1>1, <1>2, MachineFacts DEF MachinesTyped
<1>4. PICK b \in 0 .. Top(db, w) : Box(store[w], w, b)
  BY DEF ExecInv, ChainInv, Linked
<1>5. Top(db, w) \in Nat /\ Top(db, w) < store[w].next /\ store[w].next \in Nat
  <2>1. ChainInv
    BY DEF ExecInv
  <2> QED BY <2>1, TopsType
<1>6. through \in Nat /\ through <= Top(db, w)
  BY <1>2, <1>5 DEF ExecInv, ChainInv, Heard
<1>7. b \in Nat /\ Consecutive(st.outbox, w, b) /\ b + Len(st.outbox) + 1 = store[w].next
  BY <1>2, <1>4, <1>5 DEF Box
<1>8. Len(st.outbox) \in Nat
  BY <1>3, StoreShape
<1>9. through <= b + Len(st.outbox)
  BY <1>5, <1>6, <1>7, <1>8
<1>10. Drops(st, through, st2)
  BY <1>3, <1>6, <1>7, <1>9, Dropping
<1>11. st2.cmds = st.cmds
  BY <1>3 DEF Stores
<1>12. ReadsNone(st, st2)
  BY <1>10, <1>11 DEF ReadsNone, Drops, Offset
<1> QED BY <1>2, <1>10, <1>12 DEF Says, Reads

\* A process is recorded, or that there is none.
LEMMA StartedSays ==
    ASSUME ExecInv, NEW w \in Workers, agent[w].pc \in {"launch", "spawned"},
           agent[w].todo # << >>, NEW pid \in Nat,
           store' = [store EXCEPT ![w] = MarkStarted(@, w, Now(w), pid)]
    PROVE  Says(w) /\ Reads(w)
<1>1. PICK st, fs, st2, a : st = store[w] /\ fs = files[w] /\ st2 = store'[w] /\ a = Now(w)
  OBVIOUS
<1>2. st \in Stores /\ a \in DOMAIN st.cmds /\ st.cmds[a].state = "pending"
  BY <1>1, MachineFacts, FirstListed DEF Now, Launching
<1>3. st2 = MarkStarted(st, w, a, pid)
  <2> DEFINE x == MarkStarted(store[w], w, Now(w), pid)
  <2>1. store' = [store EXCEPT ![w] = x]
    OBVIOUS
  <2> HIDE DEF x
  <2>2. store'[w] = x
    BY <2>1, MachineFacts, StoreWritten
  <2> QED BY <1>1, <2>2 DEF x
<1>4. (\E e : Speaks(st, fs, st2, e)) /\ ReadsNone(st, st2)
  BY <1>2, <1>3, SpeaksStarted
<1> QED BY <1>1, <1>4 DEF Says, Reads

LEMMA UnstartedSays ==
    ASSUME ExecInv, NEW w \in Workers, Produced(procs[w], files[w]), FinishUnstarted(w)
    PROVE  Says(w) /\ Reads(w)
<1>1. agent[w].pc = "unstarted" /\ agent[w].todo # << >>
  BY MachineFacts DEF FinishUnstarted, At, ListFits
<1>2. PICK st, fs, st2, a, ok, tail, none :
          /\ st = store[w] /\ fs = files[w] /\ st2 = store'[w] /\ a = Now(w)
          /\ ok = FALSE /\ tail = TRUE /\ none = {}
  OBVIOUS
<1>3. /\ st \in Stores /\ a \in DOMAIN st.cmds /\ a \in AttemptIds
      /\ st.cmds[a].state = "running" /\ st.cmds[a].pid = 0
  BY <1>1, <1>2, MachineFacts, FirstListed DEF Now, Launching
<1>4. st2 = MarkFinished(st, w, a, ok, tail, none)
  BY <1>2, MachineFacts, StoreWritten DEF FinishUnstarted
<1>5. fs[a].outputs = {}
  <2>1. agent[w].pc # "spawned" /\ store[w].cmds[a].pid = 0
    BY <1>1, <1>2, <1>3
  <2>2. files[w][a].outputs = {}
    <3>1. Fit(store[w], agent[w], procs[w], files[w]) /\ procs[w] \in Seq(Processes)
      BY MachineFacts
    <3> QED BY <1>3, <2>1, <3>1, NothingMade
  <2> QED BY <1>2, <2>2
<1>6. /\ ok \in BOOLEAN /\ tail \in BOOLEAN /\ tail \in Tails \cup {TRUE}
      /\ none \in SUBSET Files /\ none \subseteq fs[a].outputs
      /\ none = fs[a].outputs /\ st.cmds[a].state \in {"pending", "running"}
  BY <1>2, <1>3, <1>5
<1>7. (\E e : Speaks(st, fs, st2, e)) /\ ReadsNone(st, st2)
  BY <1>3, <1>4, <1>6, SpeaksFinished
<1> QED BY <1>2, <1>7 DEF Says, Reads

LEMMA AgentSays ==
    ASSUME ExecInv, NEW w \in Workers, Produced(procs[w], files[w]),
           OneEach(agent[w].inbox.run), AgentStep(w)
    PROVE  Says(w) /\ Reads(w) /\ UNCHANGED files
<1>1. UNCHANGED files
  BY DEF AgentStep, ReapWithdrawn, ListRunning, Ingest, AllReconciled, ReadRunStatus,
         CheckAlive, Finish, AcceptCommands, Acknowledge, Launched, StartProcess,
         RecordStarted, FailBeforeLaunch, FinishUnstarted
<1> SUFFICES Says(w) /\ Reads(w)
  BY <1>1
<1>2. CASE UNCHANGED store
  BY <1>2, SilentStays DEF Says, Reads
<1>3. CASE ~UNCHANGED store
  <2>1. CASE ReapWithdrawn(w)
    BY <2>1, ReapSays
  <2>2. CASE Ingest(w)
    BY <2>2, IngestSays
  <2>3. CASE CheckAlive(w)
    <3>1. agent[w].pc = "alive" /\ WatchProgress(w)
      BY <1>3, <2>3 DEF CheckAlive, At, SignalCancel
    <3> QED BY <3>1, WatchSays
  <2>4. CASE Finish(w)
    BY <2>4, FinishSays
  <2>5. CASE AcceptCommands(w)
    BY <2>5, AcceptSays
  <2>6. CASE Acknowledge(w)
    BY <2>6, AckSays
  <2>7. CASE RecordStarted(w)
    <3>1. PICK pid : pid = Len(procs[w])
      OBVIOUS
    <3>2. pid \in Nat
      BY <3>1, MachineFacts
    <3>3. agent[w].pc \in {"launch", "spawned"} /\ agent[w].todo # << >>
      BY <2>7, MachineFacts DEF RecordStarted, At, ListFits
    <3>4. store' = [store EXCEPT ![w] = MarkStarted(@, w, Now(w), pid)]
      BY <2>7, <3>1 DEF RecordStarted
    <3> QED BY <3>2, <3>3, <3>4, StartedSays
  <2>8. CASE FailBeforeLaunch(w)
    <3>1. PICK pid \in Nat : pid = 0
      OBVIOUS
    <3>2. agent[w].pc \in {"launch", "spawned"} /\ agent[w].todo # << >>
      BY <2>8 DEF FailBeforeLaunch, At
    <3>3. store' = [store EXCEPT ![w] = MarkStarted(@, w, Now(w), pid)]
      BY <2>8, <3>1 DEF FailBeforeLaunch
    <3> QED BY <3>2, <3>3, StartedSays
  <2>9. CASE FinishUnstarted(w)
    BY <2>9, UnstartedSays
  <2>10. CASE ListRunning(w) \/ AllReconciled(w) \/ ReadRunStatus(w) \/ Launched(w)
              \/ StartProcess(w)
    BY <1>3, <2>10 DEF ListRunning, AllReconciled, ReadRunStatus, Launched, StartProcess
  <2> QED BY <2>1, <2>2, <2>3, <2>4, <2>5, <2>6, <2>7, <2>8, <2>9, <2>10 DEF AgentStep
<1> QED BY <1>2, <1>3

---------------------------------------------------------------------------
(* What a step writes into the tables of attempts *)

\* What an event makes of the attempt it is about.
Marks(body, old, new) ==
    /\ new.worker = old.worker
    /\ \/ /\ body.kind = "attempt_accepted" /\ old.state = "offered"
          /\ new.state = "accepted" /\ new.files = old.files
       \/ /\ body.kind = "attempt_started" /\ old.state \in {"offered", "accepted"}
          /\ new.state = "running" /\ new.files = old.files
       \/ /\ body.kind = "attempt_finished" /\ old.state \in {"accepted", "running"}
          /\ new.state \in Ended /\ new.files = old.files \cup body.files
       \/ /\ body.kind = "artifacts"
          /\ new.state = old.state /\ new.files = old.files \cup body.files
       \/ /\ body.kind = "metric_sample"
          /\ new.state = old.state /\ new.files = old.files

SameSamples(d, d2) == \A j \in Jobs : d2.job[j].samples = d.job[j].samples

SameRows(d, d2) ==
    /\ \A a \in AttemptIds : /\ InTable(d2, a) <=> InTable(d, a)
                             /\ InTable(d, a) => RowOf(d2, a) = RowOf(d, a)
    /\ SameSamples(d, d2)

\* A metric event is one more sample of its job.
SampleAdded(d, d2, body) ==
    \A j \in Jobs :
        d2.job[j].samples =
            IF body.kind = "metric_sample" /\ j = body.attempt[1]
            THEN Append(d.job[j].samples, [attempt |-> body.attempt[2], point |-> body.point])
            ELSE d.job[j].samples

\* One attempt is rewritten.
Written(d, d2, body) ==
    /\ body.attempt \in AttemptIds /\ InTable(d, body.attempt)
    /\ Marks(body, RowOf(d, body.attempt), RowOf(d2, body.attempt))
    /\ \A a \in AttemptIds :
          /\ InTable(d2, a) <=> InTable(d, a)
          /\ InTable(d, a) /\ a # body.attempt => RowOf(d2, a) = RowOf(d, a)
    /\ SampleAdded(d, d2, body)

\* What is new was just offered to w.
AddsRow(d, d2, w) ==
    /\ \A a \in AttemptIds :
          /\ InTable(d, a) => InTable(d2, a) /\ RowOf(d2, a) = RowOf(d, a)
          /\ InTable(d2, a) /\ ~InTable(d, a) =>
                /\ RowOf(d2, a).worker = w /\ RowOf(d2, a).state = "offered"
                /\ RowOf(d2, a).files = {}
    /\ SameSamples(d, d2)

LEMMA RowsStay ==
    ASSUME NEW d, NEW d2, d2.job = d.job
    PROVE  SameRows(d, d2)
BY DEF SameRows, SameSamples, InTable, RowOf

LEMMA RowsStaySame ==
    ASSUME NEW d, d.job \in [Jobs -> JobRows], NEW j \in Jobs, NEW row,
           row.attempts = d.job[j].attempts, row.samples = d.job[j].samples,
           NEW d2, d2.job = [d.job EXCEPT ![j] = row]
    PROVE  SameRows(d, d2)
<1>0. SameSamples(d, d2)
  BY DEF SameSamples
<1> SUFFICES ASSUME NEW a \in AttemptIds
             PROVE  d2.job[a[1]].attempts = d.job[a[1]].attempts
  BY <1>0 DEF SameRows, InTable, RowOf
<1>1. a[1] \in Jobs
  BY IdIs
<1> QED BY <1>1

LEMMA EventMarks ==
    ASSUME NEW row \in JobRows, NEW n \in DOMAIN row.attempts,
           NEW j \in Jobs, NEW body, NEW fires \in SUBSET Nat, NEW new,
           EventWrites(row, n, j, body, fires, new)
    PROVE  \E x : Replaces(row, new, n, x) /\ Marks(body, row.attempts[n], x)
<1>0. row.attempts[n] \in Attempts
  BY DEF JobRows
<1>1. CASE body.kind = "attempt_accepted" /\ new = Accepted(row, n)
  <2> DEFINE x == [row.attempts[n] EXCEPT !.state = "accepted"]
  <2>1. Replaces(row, new, n, x)
    BY <1>1, AcceptedFields
  <2>2. row.attempts[n].state = "offered"
    BY <1>1 DEF EventWrites
  <2>3. Marks(body, row.attempts[n], x)
    BY <1>0, <1>1, <2>2 DEF Attempts, Marks
  <2> QED BY <2>1, <2>3
<1>2. CASE body.kind = "attempt_started" /\ new = Started(row, n)
  <2> DEFINE x == [row.attempts[n] EXCEPT !.state = "running"]
  <2>1. Replaces(row, new, n, x)
    BY <1>2, StartedFields
  <2>2. row.attempts[n].state \in {"offered", "accepted"}
    BY <1>2 DEF EventWrites
  <2>3. Marks(body, row.attempts[n], x)
    BY <1>0, <1>2, <2>2 DEF Attempts, Marks
  <2> QED BY <2>1, <2>3
<1>3. CASE /\ body.kind = "attempt_finished" /\ new = Finished(row, n, j, body, fires)
           /\ body.ok \in BOOLEAN /\ body.files \in SUBSET Files
  <2> DEFINE v == AttemptVerdict(row, body.ok)
             x == FinishedAttempt(row.attempts[n], v, body.files, fires)
  <2>1. /\ Replaces(row, new, n, x) /\ x.state = v /\ x.worker = row.attempts[n].worker
    <3>1. Replaces(row, Finished(row, n, j, body, fires), n, x)
      BY <1>3, FinishedFields
    <3>2. x.state = v /\ x.worker = row.attempts[n].worker
      BY <1>0 DEF FinishedAttempt, Attempts
    <3> QED BY <1>3, <3>1, <3>2
  <2>2. x.files = row.attempts[n].files \cup body.files
    BY <1>0 DEF FinishedAttempt, Attempts
  <2>3. row.attempts[n].state \in {"accepted", "running"}
    BY <1>3 DEF EventWrites
  <2>4. v \in Ended
    BY DEF AttemptVerdict, Ended
  <2> HIDE DEF x, v
  <2>5. Marks(body, row.attempts[n], x)
    BY <1>3, <2>1, <2>2, <2>3, <2>4 DEF Marks
  <2> QED BY <2>1, <2>5
<1>4. CASE body.kind = "artifacts" /\ body.files \in SUBSET Files
           /\ new = FilesRecorded(row, n, body.files)
  <2> DEFINE x == [row.attempts[n] EXCEPT !.files = @ \cup body.files]
  <2>1. Replaces(row, new, n, x)
    BY <1>4, FilesRecordedFields
  <2>2. Marks(body, row.attempts[n], x)
    BY <1>0, <1>4 DEF Attempts, Marks
  <2> QED BY <2>1, <2>2
<1>5. CASE body.kind = "metric_sample" /\ body.point \in Points
           /\ new = Sampled(row, n, body.point)
  <2>1. new.attempts = row.attempts
    BY <1>5, SampledFields
  <2>2. Replaces(row, new, n, row.attempts[n])
    BY <2>1 DEF Replaces
  <2>3. Marks(body, row.attempts[n], row.attempts[n])
    BY <1>5 DEF Marks
  <2> QED BY <2>2, <2>3
<1> QED BY <1>1, <1>2, <1>3, <1>4, <1>5 DEF EventWrites

\* recordWorkerEvent rewrites the attempt of a fresh event.
LEMMA RecordedWrites ==
    ASSUME NEW d \in Tables, NEW w \in Workers, NEW s \in Nat, NEW e \in Messages,
           CanRecord(d, w, s, e), Fresh(d, w, s, e), NEW d2, d2 = Recorded(d, w, s, e)
    PROVE  Written(d, d2, e.body) /\ RowOf(d, e.body.attempt).worker = w
<1>1. CanApply(d, w, e.body) /\ e.body \in EventBodies /\ d.job \in [Jobs -> JobRows]
  BY DEF CanRecord, Fresh, Replayed, SameKey, Messages, Tables
<1>2. PICK j, n, row, body : /\ body = e.body /\ j = body.attempt[1]
                             /\ n = body.attempt[2] /\ row = d.job[j]
  OBVIOUS
<1>3. PICK fires, rec : fires = FiresOnFinish(d, j, row.attempts[n]) /\ rec = Applied(d, body)
  OBVIOUS
<1>4. /\ j \in Jobs /\ row \in JobRows /\ n \in DOMAIN row.attempts
      /\ row.attempts[n].worker = w /\ body.attempt = <<j, n>>
      /\ fires \in SUBSET Nat
      /\ EventWrites(row, n, j, body, fires, rec)
  <2> DEFINE jj == e.body.attempt[1]
             nn == e.body.attempt[2]
             ff == FiresOnFinish(d, jj, d.job[jj].attempts[nn])
  <2>1. /\ jj \in Jobs /\ d.job[jj] \in JobRows /\ nn \in DOMAIN d.job[jj].attempts
        /\ d.job[jj].attempts[nn].worker = w /\ e.body.attempt = <<jj, nn>>
        /\ ff \in SUBSET Nat
        /\ EventWrites(d.job[jj], nn, jj, e.body, ff, Applied(d, e.body))
    <3>1. AppliesWell(d, w, e.body)
      BY <1>1, AppliedCases
    <3> QED BY <3>1 DEF AppliesWell
  <2>2. j = jj /\ n = nn /\ row = d.job[jj] /\ body = e.body /\ fires = ff
        /\ rec = Applied(d, e.body)
    BY <1>2, <1>3
  <2> HIDE DEF jj, nn, ff
  <2> QED BY <2>1, <2>2
<1>5. d2.job = [d.job EXCEPT ![j] = rec]
  BY <1>2, <1>3 DEF Recorded, Tables
<1>6. PICK x : Replaces(row, rec, n, x) /\ Marks(body, row.attempts[n], x)
  BY <1>4, EventMarks
<1>7. body.attempt \in AttemptIds
  BY <1>1, <1>2 DEF EventBodies
<1>8. InTable(d, body.attempt) /\ RowOf(d, body.attempt) = row.attempts[n]
  BY <1>2, <1>4 DEF InTable, RowOf
<1>9. d2.job[j] = rec /\ \A i \in Jobs \ {j} : d2.job[i] = d.job[i]
  BY <1>1, <1>4, <1>5
<1>10. RowOf(d2, body.attempt) = x
  BY <1>2, <1>4, <1>6, <1>9 DEF RowOf, Replaces
<1>11. ASSUME NEW a \in AttemptIds
       PROVE  /\ InTable(d2, a) <=> InTable(d, a)
              /\ InTable(d, a) /\ a # body.attempt => RowOf(d2, a) = RowOf(d, a)
  <2>1. a[1] \in Jobs /\ a = <<a[1], a[2]>>
    BY IdIs
  <2>2. CASE a[1] # j
    BY <1>9, <2>1, <2>2 DEF InTable, RowOf
  <2>3. CASE a[1] = j
    <3>1. a # body.attempt => a[2] # n
      BY <1>4, <2>1, <2>3
    <3> QED BY <1>2, <1>6, <1>9, <2>3, <3>1 DEF InTable, RowOf, Replaces
  <2> QED BY <2>2, <2>3
<1>12. SampleAdded(d, d2, body)
  <2>1. rec.samples = IF body.kind = "metric_sample"
                      THEN Append(row.samples, [attempt |-> n, point |-> body.point])
                      ELSE row.samples
    <3>1. PICK y : Effect(row, n, j, body, fires, rec, y)
      BY <1>4, EventEffect
    <3> QED BY <3>1 DEF Effect
  <2> QED BY <1>2, <1>9, <2>1 DEF SampleAdded
<1>13. Written(d, d2, body)
  BY <1>6, <1>7, <1>8, <1>10, <1>11, <1>12 DEF Written
<1> QED BY <1>2, <1>4, <1>8, <1>13

LEMMA OfferedAdds ==
    ASSUME NEW d \in Tables, NEW j \in Jobs, NEW w \in Workers,
           NEW d2, d2 = [d EXCEPT !.job[j] = Offered(@, w)]
    PROVE  AddsRow(d, d2, w)
<1>1. PICK row, new, k, x : /\ row = d.job[j] /\ new = Offered(row, w)
                            /\ k = Len(row.attempts) + 1
                            /\ x = [worker |-> w, state |-> "offered", files |-> {}, fired |-> {}]
  OBVIOUS
<1>2. d.job \in [Jobs -> JobRows] /\ row \in JobRows
  BY <1>1 DEF Tables
<1>3. /\ DOMAIN new.attempts = DOMAIN row.attempts \cup {k}
      /\ \A n \in DOMAIN row.attempts : new.attempts[n] = row.attempts[n]
      /\ new.attempts[k] = x
  BY <1>1, <1>2, OfferedFields
<1>4. d2.job[j] = new /\ \A i \in Jobs \ {j} : d2.job[i] = d.job[i]
  BY <1>1, <1>2 DEF Tables
<1>5. x.worker = w /\ x.state = "offered" /\ x.files = {}
  BY <1>1
<1> SUFFICES ASSUME NEW a \in AttemptIds
             PROVE  /\ InTable(d, a) => InTable(d2, a) /\ RowOf(d2, a) = RowOf(d, a)
                    /\ InTable(d2, a) /\ ~InTable(d, a) =>
                          /\ RowOf(d2, a).worker = w /\ RowOf(d2, a).state = "offered"
                          /\ RowOf(d2, a).files = {}
  <2>1. new.samples = row.samples
    BY <1>1, <1>2, OfferedFields
  <2>2. SameSamples(d, d2)
    BY <1>1, <1>4, <2>1 DEF SameSamples
  <2> QED BY <2>2 DEF AddsRow
<1>6. a[1] \in Jobs
  BY IdIs
<1>7. CASE a[1] # j
  BY <1>4, <1>6, <1>7 DEF InTable, RowOf
<1>8. CASE a[1] = j
  BY <1>1, <1>3, <1>4, <1>5, <1>8 DEF InTable, RowOf
<1> QED BY <1>7, <1>8

\* The request being served has its next event recorded.
Records(e) ==
    /\ RecordNext /\ e = Head(call.rest) /\ e = call.rest[1] /\ 1 \in DOMAIN call.rest
    /\ e \in Messages /\ req \in Served /\ req # Idle
    /\ Fresh(tx, req.worker, req.session, e)
    /\ Written(tx, tx', e.body) /\ RowOf(tx, e.body.attempt).worker = req.worker

\* Attempts and events are the same.
Alike(d, d2) == SameRows(d, d2) /\ d2.events = d.events

\* What a step writes: nothing, one row of the open transaction, or what one
\* transaction leaves to the other.
PlaneWrites ==
    \/ Alike(db, db') /\ Alike(db, tx')
    \/ Alike(db, db') /\ Alike(tx, tx')
    \/ db' = db /\ \E e : Records(e)
    \/ /\ db' = db /\ req \in Served
       /\ AddsRow(tx, tx', req.worker) /\ tx'.events = tx.events
    \/ db' = tx /\ tx' = tx

LEMMA OperateWrites ==
    ASSUME WorkInv, TablesTrue, Operate
    PROVE  Alike(db, db') /\ tx' = db'
<1>1. PICK d, d2 : d = db /\ d2 = db'
  OBVIOUS
<1>2. /\ d \in Tables /\ d.job \in [Jobs -> JobRows] /\ Blank(d)
  BY <1>1 DEF WorkInv, PlaneTyped, TablesTrue, Tables
<1>3. tx' = db' /\ req = Idle /\ req' = Idle
  BY DEF Operate, CreateWorker, CreateWebhookTarget, CreateJob, CancelJob, Do
<1>4. CASE \E w \in Workers : CreateWorker(w)
  <2>1. d2.job = d.job /\ d2.events = d.events
    BY <1>1, <1>2, <1>4 DEF CreateWorker, Do, Tables
  <2> QED BY <1>1, <1>3, <2>1, RowsStay DEF Alike
<1>5. CASE \E t \in Targets : CreateWebhookTarget(t)
  <2>1. d2.job = d.job /\ d2.events = d.events
    BY <1>1, <1>2, <1>5 DEF CreateWebhookTarget, Do, Tables
  <2> QED BY <1>1, <1>3, <2>1, RowsStay DEF Alike
<1>6. ASSUME NEW k \in Keys, NEW j \in Jobs, NEW rank \in Ranks, CreateJob(k, j, rank)
      PROVE  Alike(d, d2)
  <2>1. PICK row : row = Submitted(rank)
    OBVIOUS
  <2>2. d.job[j].state = "absent" /\ d2 = [d EXCEPT !.job[j] = row, !.keys = @ \cup {<<k, j>>}]
    BY <1>1, <1>6, <2>1 DEF CreateJob, Do
  <2>3. d2.job = [d.job EXCEPT ![j] = row] /\ d2.events = d.events
    BY <1>2, <2>2 DEF Tables
  <2>4. row.attempts = d.job[j].attempts /\ row.samples = d.job[j].samples
    BY <1>2, <2>1, <2>2 DEF Submitted, Blank
  <2> QED BY <1>2, <2>3, <2>4, RowsStaySame DEF Alike
<1>7. ASSUME NEW j \in Jobs, CancelJob(j) PROVE Alike(d, d2)
  <2>1. PICK row : row = Canceled(d.job[j])
    OBVIOUS
  <2>2. d2 = [d EXCEPT !.job[j] = row]
    BY <1>1, <1>7, <2>1 DEF CancelJob, Do
  <2>3. /\ d2.job = [d.job EXCEPT ![j] = row] /\ d.job[j] \in JobRows
        /\ d2.events = d.events
    BY <1>2, <2>2 DEF Tables
  <2>4. row.attempts = d.job[j].attempts /\ row.samples = d.job[j].samples
    BY <2>1, <2>3, CanceledFields
  <2> QED BY <1>2, <2>3, <2>4, RowsStaySame DEF Alike
<1> QED BY <1>1, <1>3, <1>4, <1>5, <1>6, <1>7 DEF Operate

LEMMA RecordWrites ==
    ASSUME WorkInv, RecordNext
    PROVE  db' = db /\ (tx' = tx \/ \E e : Records(e))
<1>1. /\ UNCHANGED <<db, req>> /\ call.rest # << >> /\ req.phase = "events"
      /\ CanRecord(tx, req.worker, req.session, Head(call.rest))
      /\ tx' = Recorded(tx, req.worker, req.session, Head(call.rest))
  BY DEF RecordNext, RecordEvent
<1>2. req \in Served /\ req # Idle /\ call.rest \in Seq(Messages)
  BY <1>1 DEF WorkInv, PlaneTyped, Idle
<1>3. PICK w \in Workers, s \in Nat : w = req.worker /\ s = req.session
  BY <1>2 DEF Served
<1>4. PICK d, d2, e : d = tx /\ d2 = tx' /\ e = Head(call.rest)
  OBVIOUS
<1>5. e = call.rest[1] /\ 1 \in DOMAIN call.rest /\ e \in Messages
  BY <1>1, <1>2, <1>4
<1>6. d \in Tables /\ CanRecord(d, w, s, e) /\ d2 = Recorded(d, w, s, e)
  BY <1>1, <1>3, <1>4 DEF WorkInv, PlaneTyped
<1>7. CASE Fresh(d, w, s, e)
  <2>0. d \in Tables /\ w \in Workers /\ s \in Nat /\ e \in Messages
    BY <1>5, <1>6
  <2>1. Written(d, d2, e.body) /\ RowOf(d, e.body.attempt).worker = w
    BY <1>6, <1>7, <2>0, RecordedWrites, ZenonT(30)
  <2> QED BY <1>1, <1>2, <1>3, <1>4, <1>5, <1>7, <2>1 DEF Records
<1>8. CASE ~Fresh(d, w, s, e)
  <2>1. d2 = d
    BY <1>6, <1>8 DEF Recorded
  <2> QED BY <1>1, <1>4, <2>1
<1> QED BY <1>7, <1>8

LEMMA OffersWrites ==
    ASSUME WorkInv, StartOffers \/ \E j \in Jobs : Offer(j)
    PROVE  /\ db' = db /\ req \in Served /\ req'.worker = req.worker
           /\ tx' = tx \/ (AddsRow(tx, tx', req.worker) /\ tx'.events = tx.events)
<1>1. req \in Served /\ UNCHANGED db
  BY DEF WorkInv, PlaneTyped, StartOffers, BeginOffers, Offer, OfferNext, Idle
<1>2. req'.worker = req.worker
  BY <1>1 DEF StartOffers, BeginOffers, Offer, OfferNext, Served
<1>3. CASE StartOffers
  BY <1>1, <1>2, <1>3 DEF StartOffers, BeginOffers
<1>4. ASSUME NEW j \in Jobs, Offer(j)
      PROVE  tx' = tx \/ (AddsRow(tx, tx', req.worker) /\ tx'.events = tx.events)
  <2>1. UNCHANGED tx \/ tx' = [tx EXCEPT !.job[j] = Offered(@, req.worker)]
    BY <1>4 DEF Offer, OfferNext
  <2>2. PICK w \in Workers : w = req.worker
    BY <1>1 DEF Served
  <2>3. PICK d, d2 : d = tx /\ d2 = tx'
    OBVIOUS
  <2>4. d \in Tables
    BY <2>3 DEF WorkInv, PlaneTyped
  <2>5. CASE tx' = [tx EXCEPT !.job[j] = Offered(@, req.worker)]
    <3>1. d2 = [d EXCEPT !.job[j] = Offered(@, w)]
      BY <2>2, <2>3, <2>5
    <3>2. AddsRow(d, d2, w)
      BY <2>4, <3>1, OfferedAdds
    <3>3. d2.events = d.events
      BY <2>4, <3>1 DEF Tables
    <3> QED BY <2>2, <2>3, <3>2, <3>3
  <2> QED BY <2>1, <2>5
<1> QED BY <1>1, <1>2, <1>3, <1>4

LEMMA ServeWrites ==
    ASSUME WorkInv, NEW r \in wire, Serve(r)
    PROVE  db' = db /\ Alike(db, tx')
<1>1. UNCHANGED db /\ tx' = [db EXCEPT !.worker[r.worker] = "online"]
  BY DEF Serve, BeginSync
<1>2. tx'.job = db.job /\ tx'.events = db.events
  BY <1>1 DEF WorkInv, PlaneTyped, Tables
<1> QED BY <1>1, <1>2, RowsStay DEF Alike

LEMMA TablesWritten ==
    ASSUME WorkInv, TablesTrue, [SyncNext]_sysVars
    PROVE  PlaneWrites
<1>0. \A d : Alike(d, d)
  BY DEF Alike, SameRows, SameSamples
<1>1. CASE Operate
  BY <1>1, OperateWrites DEF PlaneWrites
<1>2. CASE \E w \in Workers : AgentAlone(w) \/ JobAlone(w) \/ Post(w) \/ Start(w) \/ Faults(w)
  <2>1. UNCHANGED <<db, tx>>
    BY <1>2 DEF AgentAlone, JobAlone, Post, Start, Faults, Aside
  <2> QED BY <1>0, <2>1 DEF PlaneWrites
<1>3. ASSUME NEW r \in wire, Serve(r) PROVE PlaneWrites
  BY <1>0, <1>3, ServeWrites DEF PlaneWrites
<1>4. CASE RecordNext
  BY <1>0, <1>4, RecordWrites DEF PlaneWrites
<1>5. CASE Fail
  BY <1>0, <1>5 DEF PlaneWrites, Fail, Rollback
<1>6. CASE StartOffers \/ \E j \in Jobs : Offer(j)
  BY <1>0, <1>6, OffersWrites DEF PlaneWrites
<1>7. CASE Reply
  BY <1>7 DEF PlaneWrites, Reply, Commit
<1>8. CASE UNCHANGED sysVars
  BY <1>0, <1>8 DEF PlaneWrites, sysVars
<1> QED BY <1>1, <1>2, <1>3, <1>4, <1>5, <1>6, <1>7, <1>8
       DEF SyncNext, Server, RefuseNext, ServerFault

---------------------------------------------------------------------------
(* What is under way *)

\* Message m of w is in a request.
UnderWay(w, m) ==
    \/ \E r \in wire : r.worker = w /\ \E i \in DOMAIN r.events : m = r.events[i]
    \/ req # Idle /\ req.worker = w /\ \E i \in DOMAIN call.rest : m = call.rest[i]

\* What is under way after a step was under way or in the outbox.
LEMMA MessagesFlow ==
    ASSUME WorkInv, [SyncNext]_sysVars, NEW v \in Workers, NEW m, UnderWay(v, m)'
    PROVE  UnderWay(v, m) \/ m \in Outgoing(store[v])
<1>1. /\ wire \subseteq Posted /\ PlaneTyped
      /\ call \in [live : BOOLEAN, rest : Seq(Messages)]
  BY DEF WorkInv, PlaneTyped
<1>2. CASE UNCHANGED <<wire, call, req>>
  BY <1>2 DEF UnderWay
<1>3. CASE Operate \/ UNCHANGED sysVars
  BY <1>2, <1>3 DEF Operate, CreateWorker, CreateWebhookTarget, CreateJob, CancelJob, Do,
                    netVars, sysVars
<1>4. CASE \E w \in Workers : AgentAlone(w) \/ JobAlone(w) \/ Start(w)
  BY <1>2, <1>4 DEF AgentAlone, JobAlone, Start, Aside, netVars
<1>5. ASSUME NEW w \in Workers, Post(w) PROVE UnderWay(v, m) \/ m \in Outgoing(store[v])
  <2>1. PICK es, r : /\ es = Batch(w)
                     /\ r = [worker |-> w, session |-> agent[w].session, events |-> es,
                             live |-> TRUE]
    OBVIOUS
  <2>2. req = Idle /\ UNCHANGED <<req, call>> /\ wire' = wire \cup {r}
    BY <1>5, <2>1 DEF Post, Aside, PostSync
  <2>3. r.worker = w /\ r.events = es
    BY <2>1
  <2>4. \A i \in DOMAIN es : es[i] \in Outgoing(store[w])
    <3>1. PICK st, out, l : /\ st = store[w] /\ out = st.outbox
                            /\ l = IF Len(out) < MaxBatch THEN Len(out) ELSE MaxBatch
      OBVIOUS
    <3>2. out \in Seq(Messages) /\ es = SubSeq(out, 1, l)
      BY <2>1, <3>1 DEF Batch, WorkInv, MachinesTyped, Stores
    <3>3. l \in Nat /\ l <= Len(out)
      BY <3>1, <3>2, AgentAssumption
    <3>4. ASSUME NEW i \in DOMAIN es PROVE i \in DOMAIN out /\ es[i] = out[i]
      <4>1. PICK one \in Nat \ {0} : one = 1
        OBVIOUS
      <4>2. es = SubSeq(out, one, l)
        BY <3>2, <4>1
      <4>3. i \in Nat /\ one + i - 1 \in DOMAIN out /\ es[i] = out[one + i - 1]
        BY <3>2, <3>3, <4>2, PartOf
      <4>4. one + i - 1 = i
        BY <4>1, <4>3
      <4> QED BY <4>3, <4>4
    <3> QED BY <3>1, <3>4 DEF Outgoing
  <2> QED BY <1>1, <2>2, <2>3, <2>4 DEF UnderWay
<1>6. ASSUME NEW w \in Workers, Faults(w) PROVE UnderWay(v, m)
  <2>1. Abandon(w) /\ UNCHANGED <<req, call>>
    BY <1>6 DEF Faults, Aside, TimeOut
  <2>2. \A r \in wire' : r \in wire \/ \E q \in wire : r = [q EXCEPT !.live = FALSE]
    BY <2>1 DEF Abandon
  <2>3. \A q \in wire : /\ [q EXCEPT !.live = FALSE].worker = q.worker
                        /\ [q EXCEPT !.live = FALSE].events = q.events
    BY <1>1 DEF Posted
  <2>4. \A r \in wire' : \E q \in wire : r.worker = q.worker /\ r.events = q.events
    BY <2>2, <2>3
  <2> QED BY <2>1, <2>4 DEF UnderWay
<1>7. ASSUME NEW r \in wire, Serve(r) PROVE UnderWay(v, m)
  <2>1. wire' \subseteq wire /\ req'.worker = r.worker /\ call'.rest = r.events
    BY <1>7 DEF Serve, BeginSync
  <2> QED BY <2>1 DEF UnderWay
<1>8. CASE RecordNext
  <2>1. UNCHANGED <<wire, req>> /\ call.rest # << >> /\ call' = [call EXCEPT !.rest = Tail(@)]
    BY <1>8 DEF RecordNext, RecordEvent
  <2>2. PICK es, rest : es = call.rest /\ rest = call'.rest
    OBVIOUS
  <2>3. es \in Seq(Messages) /\ es # << >> /\ rest = Tail(es)
    BY <1>1, <2>1, <2>2
  <2>4. ASSUME NEW i \in DOMAIN rest PROVE i + 1 \in DOMAIN es /\ rest[i] = es[i + 1]
    BY <2>3
  <2> QED BY <2>1, <2>2, <2>4 DEF UnderWay
<1>9. CASE StartOffers \/ \E j \in Jobs : Offer(j)
  <2>1. UNCHANGED <<wire, call>> /\ req \in Served /\ req # Idle
    BY <1>1, <1>9 DEF PlaneTyped, StartOffers, BeginOffers, Offer, OfferNext, Idle, netVars
  <2>2. req'.worker = req.worker
    BY <1>9, OffersWrites
  <2> QED BY <2>1, <2>2 DEF UnderWay
<1>10. CASE Fail \/ Reply
  <2>1. UNCHANGED wire /\ req' = Idle
    BY <1>10 DEF Fail, Rollback, Reply, Commit
  <2> QED BY <2>1 DEF UnderWay
<1> QED BY <1>3, <1>4, <1>5, <1>6, <1>7, <1>8, <1>9, <1>10
       DEF SyncNext, Server, RefuseNext, ServerFault

---------------------------------------------------------------------------
(* What a step does on the machines *)

\* Files appear only while a process of their attempt runs.
FilesGrow(ps, fs, fs2) ==
    \A a \in AttemptIds :
        /\ fs[a].outputs \subseteq fs2[a].outputs
        /\ fs2[a].outputs # fs[a].outputs =>
              \E p \in DOMAIN ps : ps[p].attempt = a /\ ps[p].st = "running"

\* Lines are only added, at the end.
Longer(lines, lines2) ==
    Len(lines) <= Len(lines2) /\ \A l \in 1 .. Len(lines) : lines2[l] = lines[l]

LinesGrow(fs, fs2) == \A a \in AttemptIds : Longer(fs[a].lines, fs2[a].lines)

\* A pid stays the pid of its attempt.
PidsKept(ps, ps2) == \A p \in DOMAIN ps : p \in DOMAIN ps2 /\ ps2[p].attempt = ps[p].attempt

LEMMA FilesStay == \A ps, fs : FilesGrow(ps, fs, fs)
BY DEF FilesGrow

LEMMA LinesStay ==
    ASSUME NEW fs \in [AttemptIds -> FileRows]
    PROVE  LinesGrow(fs, fs)
<1>1. \A a \in AttemptIds : Len(fs[a].lines) \in Nat
  BY DEF FileRows
<1> QED BY <1>1 DEF LinesGrow, Longer

LEMMA PidsStay == \A ps : PidsKept(ps, ps)
BY DEF PidsKept

\* The files of one attempt are written, and not what it made.
LEMMA OutputsSame ==
    ASSUME NEW fs \in [AttemptIds -> FileRows], NEW a \in AttemptIds, NEW x,
           x.outputs = fs[a].outputs, NEW fs2, fs2 = [fs EXCEPT ![a] = x], NEW ps
    PROVE  FilesGrow(ps, fs, fs2)
<1>1. \A b \in AttemptIds : fs2[b].outputs = fs[b].outputs
  OBVIOUS
<1> QED BY <1>1 DEF FilesGrow

LEMMA LinesSame ==
    ASSUME NEW fs \in [AttemptIds -> FileRows], NEW a \in AttemptIds, NEW x,
           Longer(fs[a].lines, x.lines), NEW fs2, fs2 = [fs EXCEPT ![a] = x]
    PROVE  LinesGrow(fs, fs2)
<1>1. \A b \in AttemptIds : b # a => fs2[b] = fs[b]
  OBVIOUS
<1>2. fs2[a] = x
  OBVIOUS
<1>3. \A b \in AttemptIds : Longer(fs[b].lines, fs[b].lines)
  BY LinesStay DEF LinesGrow
<1> QED BY <1>1, <1>2, <1>3 DEF LinesGrow

LEMMA LineGrows ==
    ASSUME MachinesTyped, NEW w \in Workers, NEW a \in AttemptIds, NEW line, NEW tail,
           AppendLine(w, a, line, tail)
    PROVE  /\ UNCHANGED <<store, procs>>
           /\ FilesGrow(procs[w], files[w], files'[w]) /\ LinesGrow(files[w], files'[w])
<1>1. PICK fs, x : /\ fs = files[w]
                   /\ x = [fs[a] EXCEPT !.lines = Append(@, line), !.tail = tail]
  OBVIOUS
<1>2. fs \in [AttemptIds -> FileRows] /\ fs[a] \in FileRows
  BY <1>1 DEF MachinesTyped
<1>3. files' = [files EXCEPT ![w] = [fs EXCEPT ![a] = x]] /\ UNCHANGED <<store, procs>>
  BY <1>1, <1>2 DEF AppendLine, MachinesTyped
<1>4. files'[w] = [fs EXCEPT ![a] = x] /\ x.outputs = fs[a].outputs
  BY <1>1, <1>2, <1>3 DEF MachinesTyped, FileRows
<1>5. PICK fs2, ps : fs2 = files'[w] /\ ps = procs[w]
  OBVIOUS
<1>6. FilesGrow(ps, fs, fs2)
  BY <1>2, <1>4, <1>5, OutputsSame
<1>7. Longer(fs[a].lines, x.lines)
  <2>1. PICK lines : lines = fs[a].lines
    OBVIOUS
  <2>2. lines \in Seq(Lines) /\ x.lines = Append(lines, line)
    BY <1>1, <1>2, <2>1 DEF FileRows
  <2>3. Len(lines) \in Nat /\ Len(x.lines) = Len(lines) + 1
        /\ \A l \in 1 .. Len(lines) : x.lines[l] = lines[l]
    BY <2>2
  <2> QED BY <2>1, <2>3 DEF Longer
<1>8. LinesGrow(fs, fs2)
  BY <1>2, <1>4, <1>5, <1>7, LinesSame
<1> QED BY <1>1, <1>3, <1>5, <1>6, <1>8

\* What a job and its supervisor do.
JobGrows(w) ==
    /\ Silent(store[w], store'[w]) /\ PidsKept(procs[w], procs'[w])
    /\ FilesGrow(procs[w], files[w], files'[w]) /\ LinesGrow(files[w], files'[w])
    /\ ReadsNone(store[w], store'[w])

LEMMA JobSays ==
    ASSUME ExecInv, NEW w \in Workers, JobStep(w)
    PROVE  JobGrows(w)
<1>1. /\ MachinesTyped /\ procs[w] \in Seq(Processes) /\ store[w] \in Stores
      /\ files[w] \in [AttemptIds -> FileRows]
  BY MachineFacts
<1>2. PICK ps, fs, st, fs2 : ps = procs[w] /\ fs = files[w] /\ st = store[w] /\ fs2 = files'[w]
  OBVIOUS
<1>3. /\ ps \in Seq(Processes) /\ fs \in [AttemptIds -> FileRows] /\ st \in Stores
      /\ procs \in [Workers -> Seq(Processes)] /\ files \in [Workers -> [AttemptIds -> FileRows]]
  BY <1>1, <1>2 DEF MachinesTyped
<1>4. ASSUME NEW p \in DOMAIN ps PROVE ps[p].attempt \in AttemptIds /\ ps[p] \in Processes
  <2>1. ps[p] \in Processes
    BY <1>3
  <2> QED BY <2>1 DEF Processes
<1>5. CASE /\ UNCHANGED <<store, procs>> /\ FilesGrow(procs[w], files[w], files'[w])
           /\ LinesGrow(files[w], files'[w])
  BY <1>5, SilentStays, PidsStay DEF JobGrows
<1>13. \A a \in AttemptIds : Longer(fs[a].lines, fs[a].lines)
  BY <1>3, LinesStay DEF LinesGrow
<1>6. ASSUME NEW p \in DOMAIN procs[w], NEW line \in Lines, JobWrites(w, p, line)
      PROVE  JobGrows(w)
  <2>1. PICK a, tail : a = procs[w][p].attempt /\ tail = "none"
    OBVIOUS
  <2>2. a \in AttemptIds /\ AppendLine(w, a, line, tail)
    BY <1>2, <1>4, <1>6, <2>1 DEF JobWrites
  <2> QED BY <1>1, <1>5, <2>2, LineGrows
<1>7. ASSUME NEW p \in DOMAIN procs[w], JobBeginsLine(w, p) PROVE JobGrows(w)
  <2>1. PICK a, x : a = ps[p].attempt /\ x = [fs[a] EXCEPT !.tail = "open"]
    OBVIOUS
  <2>2. a \in AttemptIds /\ fs[a] \in FileRows
    BY <1>2, <1>3, <1>4, <2>1
  <2>3. files' = [files EXCEPT ![w] = [fs EXCEPT ![a] = x]] /\ UNCHANGED <<store, procs>>
    BY <1>2, <1>3, <1>7, <2>1, <2>2 DEF JobBeginsLine
  <2>4. fs2 = [fs EXCEPT ![a] = x] /\ x.outputs = fs[a].outputs /\ x.lines = fs[a].lines
    BY <1>2, <1>3, <2>1, <2>2, <2>3 DEF FileRows
  <2>5. FilesGrow(ps, fs, fs2) /\ LinesGrow(fs, fs2)
    BY <1>3, <1>13, <2>2, <2>4, OutputsSame, LinesSame
  <2> QED BY <1>2, <1>5, <2>3, <2>5
<1>8. ASSUME NEW p \in DOMAIN procs[w], NEW f \in Files, JobSaves(w, p, f) PROVE JobGrows(w)
  <2>1. PICK a, x : a = ps[p].attempt /\ x = [fs[a] EXCEPT !.outputs = @ \cup {f}]
    OBVIOUS
  <2>2. a \in AttemptIds /\ fs[a] \in FileRows
    BY <1>2, <1>3, <1>4, <2>1
  <2>3. /\ files' = [files EXCEPT ![w] = [fs EXCEPT ![a] = x]] /\ UNCHANGED <<store, procs>>
        /\ ps[p].st = "running"
    BY <1>2, <1>3, <1>8, <2>1, <2>2 DEF JobSaves
  <2>4. fs2 = [fs EXCEPT ![a] = x] /\ x.outputs = fs[a].outputs \cup {f} /\ x.lines = fs[a].lines
    BY <1>2, <1>3, <2>1, <2>2, <2>3 DEF FileRows
  <2>5. FilesGrow(ps, fs, fs2)
    <3>1. \A b \in AttemptIds \ {a} : fs2[b] = fs[b]
      BY <1>3, <2>4
    <3>2. fs2[a] = x
      BY <1>3, <2>2, <2>4
    <3>3. p \in DOMAIN ps /\ ps[p].attempt = a /\ ps[p].st = "running"
      BY <1>2, <2>1, <2>3
    <3> QED BY <2>4, <3>1, <3>2, <3>3 DEF FilesGrow
  <2>6. LinesGrow(fs, fs2)
    BY <1>3, <1>13, <2>2, <2>4, LinesSame
  <2> QED BY <1>2, <1>5, <2>3, <2>5, <2>6
<1>9. ASSUME NEW p \in DOMAIN procs[w], NEW status \in {"ok", "bad"},
             ReportStatus(w, p, status)
      PROVE  JobGrows(w)
  <2>1. PICK a, x : a = ps[p].attempt /\ x = [fs[a] EXCEPT !.status = status]
    OBVIOUS
  <2>2. a \in AttemptIds /\ fs[a] \in FileRows
    BY <1>2, <1>3, <1>4, <2>1
  <2>3. /\ files' = [files EXCEPT ![w] = [fs EXCEPT ![a] = x]] /\ UNCHANGED store
        /\ procs' = [procs EXCEPT ![w][p].st = "reported"]
    BY <1>2, <1>3, <1>9, <2>1, <2>2 DEF ReportStatus
  <2>4. fs2 = [fs EXCEPT ![a] = x] /\ x.outputs = fs[a].outputs /\ x.lines = fs[a].lines
    BY <1>2, <1>3, <2>1, <2>2, <2>3 DEF FileRows
  <2>5. FilesGrow(ps, fs, fs2) /\ LinesGrow(fs, fs2)
    BY <1>3, <1>13, <2>2, <2>4, OutputsSame, LinesSame
  <2>6. PidsKept(procs[w], procs'[w])
    BY <1>3, <1>4, <1>2, <2>3 DEF PidsKept, Processes
  <2> QED BY <1>2, <2>3, <2>5, <2>6, SilentStays DEF JobGrows
<1>10. ASSUME NEW p \in DOMAIN procs[w], SupervisorExits(w, p) PROVE JobGrows(w)
  <2>1. UNCHANGED <<store, files>> /\ procs' = [procs EXCEPT ![w][p].st = "gone"]
    BY <1>10 DEF SupervisorExits
  <2>2. PidsKept(procs[w], procs'[w])
    BY <1>3, <1>4, <1>2, <2>1 DEF PidsKept, Processes
  <2> QED BY <1>2, <1>3, <2>1, <2>2, SilentStays, FilesStay, LinesStay DEF JobGrows
<1>11. ASSUME NEW a \in AttemptIds, Sample(w, a) PROVE JobGrows(w)
  <2>1. \E line, tail : AppendLine(w, a, line, tail)
    BY <1>11 DEF Sample
  <2> QED BY <1>1, <1>5, <2>1, LineGrows
<1>12. ASSUME NEW a \in DOMAIN store[w].cmds, GracePasses(w, a) PROVE JobGrows(w)
  <2>1. PICK st2 : st2 = store'[w]
    OBVIOUS
  <2>2. store' = [store EXCEPT ![w] = [st EXCEPT !.cmds[a].cancel = "overdue"]]
        /\ UNCHANGED <<procs, files>>
    BY <1>1, <1>2, <1>12 DEF GracePasses, MachinesTyped
  <2>3. st2 = [st EXCEPT !.cmds = [st.cmds EXCEPT ![a].cancel = "overdue"]]
    BY <1>1, <1>2, <2>1, <2>2, StoreWritten
  <2>4. st2.outbox = st.outbox /\ st2.cmds = [st.cmds EXCEPT ![a].cancel = "overdue"]
    BY <1>3, <2>3 DEF Stores
  <2>5. a \in DOMAIN st.cmds /\ st.cmds \in [DOMAIN st.cmds -> Commands]
    BY <1>2, <1>3, StoreShape
  <2>6. SameCommands(st, st2)
    BY <2>4, <2>5 DEF SameCommands, Commands
  <2>7. Silent(st, st2)
    BY <2>4, <2>6 DEF Silent, Outgoing
  <2>8. ReadsNone(st, st2)
    BY <2>4, <2>5, <2>7 DEF ReadsNone, Silent, Offset, Commands
  <2> QED BY <1>2, <1>3, <2>1, <2>2, <2>7, <2>8, PidsStay, FilesStay, LinesStay DEF JobGrows
<1> QED BY <1>6, <1>7, <1>8, <1>9, <1>10, <1>11, <1>12 DEF JobStep

LEMMA AgentKeepsPids ==
    ASSUME ExecInv, NEW w \in Workers, AgentStep(w)
    PROVE  PidsKept(procs[w], procs'[w])
<1>1. /\ procs \in [Workers -> Seq(Processes)] /\ procs[w] \in Seq(Processes)
      /\ \A p \in DOMAIN procs[w] : procs[w][p] \in Processes
  <2>1. procs \in [Workers -> Seq(Processes)] /\ procs[w] \in Seq(Processes)
    BY MachineFacts DEF MachinesTyped
  <2> QED BY <2>1
<1>2. CASE UNCHANGED procs
  BY <1>2, PidsStay
<1>3. CASE StartProcess(w)
  <2>1. PICK x, ps, ps2 : /\ x = [attempt |-> Now(w), st |-> "running"]
                          /\ ps = procs[w] /\ ps2 = procs'[w]
    OBVIOUS
  <2>2. ps2 = Append(ps, x) /\ ps \in Seq(Processes)
    BY <1>1, <1>3, <2>1 DEF StartProcess
  <2>3. \A p \in DOMAIN ps : p \in DOMAIN ps2 /\ ps2[p] = ps[p]
    BY <2>2
  <2> QED BY <2>1, <2>3 DEF PidsKept
<1>4. CASE CheckAlive(w) /\ ~UNCHANGED procs
  <2>1. PICK pid : procs' = [procs EXCEPT ![w][pid].st = "gone"]
    BY <1>4 DEF CheckAlive, SignalCancel
  <2> QED BY <1>1, <2>1 DEF PidsKept, Processes
<1> QED BY <1>2, <1>3, <1>4
       DEF AgentStep, ReapWithdrawn, ListRunning, Ingest, AllReconciled, ReadRunStatus,
           Finish, AcceptCommands, Acknowledge, Launched,
           RecordStarted, FailBeforeLaunch, FinishUnstarted

\* What a step does on machine v, whoever takes it.
Progresses(v) ==
    /\ Says(v) /\ PidsKept(procs[v], procs'[v])
    /\ FilesGrow(procs[v], files[v], files'[v])
    /\ files'[v] = files[v] \/ Silent(store[v], store'[v])
    /\ \/ files'[v] = files[v] /\ Reads(v)
       \/ LinesGrow(files[v], files'[v]) /\ ReadsNone(store[v], store'[v])
    /\ OneEach(agent'[v].inbox.run)

\* What is assumed of the machines.
Tidy == \A v \in Workers : Produced(procs[v], files[v]) /\ OneEach(agent[v].inbox.run)

LEMMA StandsStill ==
    ASSUME NEW v, OneEach(agent'[v].inbox.run), store'[v] = store[v], procs'[v] = procs[v],
           files'[v] = files[v]
    PROVE  Progresses(v)
BY SilentStays, PidsStay, FilesStay DEF Progresses, Says, Reads

\* A step leaves the machines' stores and files alone, or is a step of one machine
\* while no transaction is open.
LEMMA MachinesMove ==
    ASSUME NoRestarts, ExecInv, Tidy, [SyncNext]_sysVars
    PROVE  /\ \A v \in Workers : Progresses(v)
           /\ UNCHANGED <<store, procs, files>> \/ UNCHANGED <<db, tx, req, call, wire>>
<1>1. WorkInv /\ ChainInv /\ Unbroken /\ AllFit /\ MachinesTyped
  BY DEF ExecInv, WorkInv
<1>2. Proceeds /\ ~Fault("crash") /\ ~Fault("reboot")
  BY <1>1, WorkNext, StaysUnbroken
<1>3. \A v \in Workers : OneEach(agent'[v].inbox.run)
  <2>1. ASSUME NEW v \in Workers, agent'[v].inbox.run \subseteq agent[v].inbox.run
        PROVE  OneEach(agent'[v].inbox.run)
    BY <2>1 DEF Tidy, OneEach
  <2>2. ASSUME NEW w \in Workers, Changes(w), Works(w) \/ Hears(w)
        PROVE  \A v \in Workers : OneEach(agent'[v].inbox.run)
    <3>1. \A v \in Workers \ {w} : agent'[v] = agent[v]
      BY <1>1, <2>2 DEF Changes, MachinesTyped
    <3>2. CASE Works(w)
      BY <2>1, <3>1, <3>2 DEF Works, Goes
    <3>3. CASE Hears(w)
      <4>1. PICK run : run = Answer(tx, w, req.session).run
        OBVIOUS
      <4>2. agent'[w].inbox.run = run
        BY <3>3, <4>1 DEF Hears
      <4>3. OneEach(run)
        BY <4>1 DEF OneEach, Answer
      <4> QED BY <2>1, <3>1, <4>2, <4>3
    <3> QED BY <2>2, <3>2, <3>3
  <2> QED BY <1>2, <2>1, <2>2 DEF Proceeds, Stops, agentVars
<1>4. CASE UNCHANGED <<store, procs, files>>
  BY <1>3, <1>4, StandsStill
<1>5. ASSUME NEW w \in Workers, AgentAlone(w) \/ JobAlone(w)
      PROVE  /\ \A v \in Workers : Progresses(v)
             /\ UNCHANGED <<db, tx, req, call, wire>>
  <2>1. /\ AgentStep(w) \/ JobStep(w)
        /\ UNCHANGED <<db, tx, req, call, wire>>
    BY <1>5 DEF AgentAlone, JobAlone, Aside, netVars
  <2>2. Changes(w)
    BY <1>1, <2>1, AgentWorks, JobWorks DEF WorkInv, ChainInv, Heard
  <2>3. \A v \in Workers \ {w} : /\ store'[v] = store[v] /\ procs'[v] = procs[v]
                                 /\ files'[v] = files[v]
    BY <1>1, <2>2 DEF Changes, MachinesTyped
  <2>4. Progresses(w)
    <3>1. CASE AgentStep(w)
      <4>1. Says(w) /\ Reads(w) /\ UNCHANGED files
        BY <3>1, AgentSays DEF Tidy
      <4> QED BY <1>3, <3>1, <4>1, AgentKeepsPids, FilesStay DEF Progresses
    <3>2. CASE JobStep(w)
      BY <1>3, <3>2, JobSays DEF Progresses, JobGrows, Says
    <3> QED BY <2>1, <3>1, <3>2
  <2> QED BY <1>3, <2>1, <2>3, <2>4, StandsStill
<1>6. CASE \E w \in Workers : Post(w) \/ Start(w) \/ Faults(w)
  <2>1. UNCHANGED <<store, procs, files>>
    BY <1>2, <1>6 DEF Post, PostSync, Start, StartAgent, Faults, TimeOut
  <2> QED BY <1>4, <2>1
<1>7. CASE Operate \/ Server \/ ServerFault \/ UNCHANGED sysVars
  <2>1. UNCHANGED <<store, procs, files>>
    BY <1>7 DEF Operate, Server, ServerFault, Serve, RecordNext, RefuseNext, StartOffers,
                Offer, Reply, Fail, agentVars, sysVars
  <2> QED BY <1>4, <2>1
<1> QED BY <1>5, <1>6, <1>7 DEF SyncNext

---------------------------------------------------------------------------
(* Artifacts *)

\* What the table shows of an attempt is there, and all of it once it ended.
FilesTrue(d, fs) ==
    \A a \in AttemptIds : InTable(d, a) =>
        LET outputs == fs[RowOf(d, a).worker][a].outputs
        IN  /\ RowOf(d, a).files \subseteq outputs
            /\ Collects \subseteq {TRUE} /\ RowOf(d, a).state \in Ended =>
                  RowOf(d, a).files = outputs

AllSound ==
    \A w \in Workers : \A m :
        UnderWay(w, m) \/ m \in Outgoing(store[w]) => Sound(files[w], m)

FilesInv == Tidy /\ AllSound /\ FilesTrue(db, files) /\ FilesTrue(tx, files)

LEMMA SameFilesTrue ==
    ASSUME NEW d, NEW d2, NEW fs, FilesTrue(d, fs), SameRows(d, d2)
    PROVE  FilesTrue(d2, fs)
BY DEF FilesTrue, SameRows

LEMMA AddedFilesTrue ==
    ASSUME NEW d, NEW d2, NEW fs, NEW w, FilesTrue(d, fs), AddsRow(d, d2, w)
    PROVE  FilesTrue(d2, fs)
<1> SUFFICES ASSUME NEW a \in AttemptIds, InTable(d2, a)
             PROVE  LET outputs == fs[RowOf(d2, a).worker][a].outputs
                    IN  /\ RowOf(d2, a).files \subseteq outputs
                        /\ Collects \subseteq {TRUE} /\ RowOf(d2, a).state \in Ended =>
                              RowOf(d2, a).files = outputs
  BY DEF FilesTrue
<1>1. CASE InTable(d, a)
  BY <1>1 DEF FilesTrue, AddsRow
<1>2. CASE ~InTable(d, a)
  BY <1>2 DEF AddsRow, Ended
<1> QED BY <1>1, <1>2

LEMMA WrittenFilesTrue ==
    ASSUME NEW d, NEW d2, NEW fs, NEW e, FilesTrue(d, fs), Written(d, d2, e.body),
           Sound(fs[RowOf(d, e.body.attempt).worker], e)
    PROVE  FilesTrue(d2, fs)
<1> SUFFICES ASSUME NEW a \in AttemptIds, InTable(d2, a)
             PROVE  LET outputs == fs[RowOf(d2, a).worker][a].outputs
                    IN  /\ RowOf(d2, a).files \subseteq outputs
                        /\ Collects \subseteq {TRUE} /\ RowOf(d2, a).state \in Ended =>
                              RowOf(d2, a).files = outputs
  BY DEF FilesTrue
<1>1. InTable(d, a)
  BY DEF Written
<1>2. CASE a # e.body.attempt
  BY <1>1, <1>2 DEF Written, FilesTrue
<1>3. CASE a = e.body.attempt
  <2>1. PICK old, new, w : old = RowOf(d, a) /\ new = RowOf(d2, a) /\ w = old.worker
    OBVIOUS
  <2>2. Marks(e.body, old, new) /\ new.worker = w /\ Sound(fs[w], e)
    BY <1>3, <2>1 DEF Written, Marks
  <2>3. /\ old.files \subseteq fs[w][a].outputs
        /\ Collects \subseteq {TRUE} /\ old.state \in Ended => old.files = fs[w][a].outputs
    BY <1>1, <2>1 DEF FilesTrue
  <2>4. CASE e.body.kind \in {"attempt_accepted", "attempt_started", "metric_sample"}
    BY <2>1, <2>2, <2>3, <2>4 DEF Marks, Ended
  <2>5. CASE e.body.kind = "attempt_finished"
    <3>1. new.files = old.files \cup e.body.files
      BY <2>2, <2>5 DEF Marks
    <3>2. /\ e.body.files \subseteq fs[w][a].outputs
          /\ Collects \subseteq {TRUE} => e.body.files = fs[w][a].outputs
      BY <1>3, <2>2, <2>5 DEF Sound
    <3>3. /\ new.files \subseteq fs[w][a].outputs
          /\ Collects \subseteq {TRUE} => new.files = fs[w][a].outputs
      BY <2>3, <3>1, <3>2
    <3> QED BY <2>1, <2>2, <3>3
  <2>6. CASE e.body.kind = "artifacts"
    BY <1>3, <2>1, <2>2, <2>3, <2>6 DEF Marks, Sound
  <2> QED BY <2>2, <2>4, <2>5, <2>6 DEF Marks
<1> QED BY <1>2, <1>3

LEMMA FilesWritten ==
    ASSUME PlaneWrites, FilesInv
    PROVE  FilesTrue(db', files) /\ FilesTrue(tx', files)
<1>1. PICK d, d2, t, t2, fs : d = db /\ d2 = db' /\ t = tx /\ t2 = tx' /\ fs = files
  OBVIOUS
<1>2. FilesTrue(d, fs) /\ FilesTrue(t, fs)
  BY <1>1 DEF FilesInv
<1>3. ASSUME NEW e, Records(e) PROVE FilesTrue(t2, fs)
  <2>1. PICK v : v = req.worker
    OBVIOUS
  <2>2. UnderWay(v, e) /\ v \in Workers
    BY <1>3, <2>1 DEF Records, UnderWay, Served
  <2>3. Sound(fs[v], e)
    BY <1>1, <2>2 DEF FilesInv, AllSound
  <2>4. Written(t, t2, e.body) /\ RowOf(t, e.body.attempt).worker = v
    BY <1>1, <1>3, <2>1 DEF Records
  <2> QED BY <1>2, <2>3, <2>4, WrittenFilesTrue
<1>4. ASSUME NEW w, AddsRow(t, t2, w) PROVE FilesTrue(t2, fs)
  BY <1>2, <1>4, AddedFilesTrue
<1>5. ASSUME Alike(d, d2) PROVE FilesTrue(d2, fs)
  BY <1>2, <1>5, SameFilesTrue DEF Alike
<1>6. ASSUME Alike(d, t2) \/ Alike(t, t2) PROVE FilesTrue(t2, fs)
  BY <1>2, <1>6, SameFilesTrue DEF Alike
<1> QED BY <1>1, <1>2, <1>3, <1>4, <1>5, <1>6 DEF PlaneWrites

\* What is said is so when it is said.
LEMMA SaidSoundly ==
    ASSUME NEW w \in Workers, Says(w), \A m \in Outgoing(store[w]) : Sound(files[w], m)
    PROVE  \A m \in Outgoing(store'[w]) : Sound(files[w], m)
<1>1. CASE Silent(store[w], store'[w])
  BY <1>1 DEF Silent
<1>2. CASE \E e : Speaks(store[w], files[w], store'[w], e)
  BY <1>2 DEF Speaks
<1>3. CASE Takes(store[w], agent[w].inbox.run, store'[w])
  <2> SUFFICES ASSUME NEW m \in Outgoing(store'[w]) PROVE Sound(files[w], m)
    OBVIOUS
  <2>1. CASE m \notin Outgoing(store[w])
    <3>1. m.body.kind = "attempt_accepted"
      BY <1>3, <2>1 DEF Takes
    <3> QED BY <3>1 DEF Sound
  <2> QED BY <2>1
<1>4. CASE Drops(store[w], agent[w].inbox.through, store'[w])
  BY <1>4 DEF Drops
<1> QED BY <1>1, <1>2, <1>3, <1>4 DEF Says

\* The files of an attempt that is over stay what they are.
LEMMA OverFixed ==
    ASSUME ExecInv, NEW w \in Workers, FilesGrow(procs[w], files[w], files'[w]),
           NEW a \in AttemptIds, NEW ok, Over(store[w], files[w], a, ok)
    PROVE  files'[w][a].outputs = files[w][a].outputs
<1>1. NoneRuns(procs[w], a)
  BY MachineFacts DEF Fit, OutcomesFit, Over
<1> QED BY <1>1 DEF NoneRuns, FilesGrow

LEMMA SoundLater ==
    ASSUME ExecInv, NEW w \in Workers, FilesGrow(procs[w], files[w], files'[w]),
           NEW m \in Messages, Truthful(store[w], files[w], m), Sound(files[w], m)
    PROVE  Sound(files'[w], m)
<1>1. PICK a, fs, fs2 : a = m.body.attempt /\ fs = files[w] /\ fs2 = files'[w]
  OBVIOUS
<1>2. a \in AttemptIds
  BY <1>1 DEF Messages, EventBodies
<1>3. fs[a].outputs \subseteq fs2[a].outputs
  BY <1>1, <1>2 DEF FilesGrow
<1>4. m.body.kind = "attempt_finished" => fs2[a].outputs = fs[a].outputs
  BY <1>1, <1>2, OverFixed DEF Truthful
<1> QED BY <1>1, <1>3, <1>4 DEF Sound

LEMMA FilesTrueLater ==
    ASSUME ExecInv, \A v \in Workers : FilesGrow(procs[v], files[v], files'[v]),
           NEW d \in Tables, RowsTrue(d, store, files), FilesTrue(d, files)
    PROVE  FilesTrue(d, files')
<1> SUFFICES ASSUME NEW a \in AttemptIds, InTable(d, a)
             PROVE  LET outputs == files'[RowOf(d, a).worker][a].outputs
                    IN  /\ RowOf(d, a).files \subseteq outputs
                        /\ Collects \subseteq {TRUE} /\ RowOf(d, a).state \in Ended =>
                              RowOf(d, a).files = outputs
  BY DEF FilesTrue
<1>1. PICK w : w = RowOf(d, a).worker
  OBVIOUS
<1>2. w \in Workers
  <2>1. d.job[a[1]] \in JobRows
    BY IdIs DEF Tables
  <2>2. d.job[a[1]].attempts[a[2]] \in Attempts
    BY <2>1 DEF JobRows, InTable
  <2> QED BY <1>1, <2>2 DEF RowOf, Attempts
<1>3. files[w][a].outputs \subseteq files'[w][a].outputs
  BY <1>2 DEF FilesGrow
<1>4. RowOf(d, a).state \in Ended => files'[w][a].outputs = files[w][a].outputs
  BY <1>1, <1>2, OverFixed DEF RowsTrue
<1> QED BY <1>1, <1>3, <1>4 DEF FilesTrue

LEMMA ProducedLater ==
    ASSUME NEW ps, NEW ps2, NEW fs, NEW fs2, Produced(ps, fs), PidsKept(ps, ps2),
           FilesGrow(ps, fs, fs2)
    PROVE  Produced(ps2, fs2)
BY DEF Produced, PidsKept, FilesGrow

LEMMA FilesNext ==
    ASSUME NoRestarts, ExecInv, TruthInv, FilesInv, [SyncNext]_sysVars
    PROVE  FilesInv'
<1>1. WorkInv /\ TablesTrue /\ MachinesTyped
  BY DEF ExecInv, WorkInv, TruthInv
<1>2. /\ \A v \in Workers : Progresses(v)
      /\ UNCHANGED <<store, procs, files>> \/ UNCHANGED <<db, tx, req, call, wire>>
  BY MachinesMove DEF FilesInv
<1>3. FilesTrue(db', files) /\ FilesTrue(tx', files)
  BY <1>1, TablesWritten, FilesWritten
<1>4. \A v \in Workers : FilesGrow(procs[v], files[v], files'[v])
  BY <1>2 DEF Progresses
<1>5. FilesTrue(db', files') /\ FilesTrue(tx', files')
  <2>1. CASE UNCHANGED files
    BY <1>3, <2>1
  <2>2. CASE UNCHANGED <<db, tx>>
    <3>1. PICK d \in Tables, t \in Tables : d = db /\ t = tx
      BY <1>1 DEF WorkInv, PlaneTyped
    <3>2. /\ RowsTrue(d, store, files) /\ RowsTrue(t, store, files)
          /\ FilesTrue(d, files) /\ FilesTrue(t, files)
      BY <1>1, <3>1 DEF TablesTrue, FilesInv
    <3>3. FilesTrue(d, files') /\ FilesTrue(t, files')
      BY <1>4, <3>2, FilesTrueLater
    <3> QED BY <2>2, <3>1, <3>3
  <2> QED BY <1>2, <2>1, <2>2
<1>6. Tidy'
  <2>1. \A v \in Workers : Produced(procs[v], files[v])
    BY DEF FilesInv, Tidy
  <2>2. \A v \in Workers : Produced(procs'[v], files'[v])
    BY <1>2, <2>1, ProducedLater DEF Progresses
  <2> QED BY <1>2, <2>2 DEF Tidy, Progresses
<1>7. ASSUME NEW w \in Workers, NEW m, UnderWay(w, m)' \/ m \in Outgoing(store'[w])
      PROVE  Sound(files'[w], m)
  <2>1. \A q \in Outgoing(store[w]) : Sound(files[w], q)
    BY DEF FilesInv, AllSound
  <2>2. \A q \in Outgoing(store'[w]) : Sound(files[w], q)
    BY <1>2, <2>1, SaidSoundly DEF Progresses
  <2>3. Sound(files[w], m)
    BY <1>1, <1>7, <2>1, <2>2, MessagesFlow DEF FilesInv, AllSound
  <2>4. CASE files'[w] = files[w]
    BY <2>3, <2>4
  <2>5. CASE files'[w] # files[w]
    <3>1. UNCHANGED <<req, call, wire>> /\ Outgoing(store'[w]) = Outgoing(store[w])
      BY <1>2, <2>5 DEF Progresses, Silent
    <3>2. UnderWay(w, m) \/ m \in Outgoing(store[w])
      BY <1>7, <3>1 DEF UnderWay
    <3>3. m \in Messages /\ Truthful(store[w], files[w], m)
      <4>1. PICK es \in Seq(Messages) : /\ \E i \in DOMAIN es : m = es[i]
                                        /\ AllTrue(es, store[w], files[w])
        <5>1. CASE m \in Outgoing(store[w])
          <6>1. store[w].outbox \in Seq(Messages)
            BY <1>1 DEF MachinesTyped, Stores
          <6> QED BY <5>1, <6>1 DEF Outgoing, TruthInv
        <5>2. CASE UnderWay(w, m)
          <6>1. /\ \A r \in wire : r.events \in Seq(Messages)
                /\ call.rest \in Seq(Messages)
            BY <1>1 DEF WorkInv, PlaneTyped, Posted
          <6> QED BY <5>2, <6>1 DEF UnderWay, TruthInv, MessagesTrue
        <5> QED BY <3>2, <5>1, <5>2
      <4> QED BY <4>1 DEF AllTrue
    <3> QED BY <1>4, <2>3, <3>3, SoundLater
  <2> QED BY <2>4, <2>5
<1>8. AllSound'
  BY <1>7 DEF AllSound
<1> QED BY <1>5, <1>6, <1>8 DEF FilesInv

LEMMA FilesInit == SyncInit => FilesInv
<1> SUFFICES ASSUME SyncInit PROVE FilesInv
  OBVIOUS
<1>1. \A a \in AttemptIds : ~InTable(db, a) /\ ~InTable(tx, a)
  BY IdIs DEF SyncInit, Init, EmptyDatabase, NoJobRow, InTable
<1>2. FilesTrue(db, files) /\ FilesTrue(tx, files)
  BY <1>1 DEF FilesTrue
<1>3. \A w \in Workers : /\ Outgoing(store[w]) = {} /\ agent[w].inbox.run = {}
                         /\ \A a \in AttemptIds : files[w][a].outputs = {}
  BY DEF SyncInit, AgentInit, Outgoing, Stopped, NoReply
<1>4. wire = {} /\ req = Idle
  BY DEF SyncInit, Init
<1>5. Tidy /\ AllSound
  BY <1>3, <1>4 DEF Tidy, Produced, OneEach, AllSound, UnderWay
<1> QED BY <1>2, <1>5 DEF FilesInv

LEMMA Filed == NoRestarts => (SyncSpec => [](ExecInv /\ TruthInv /\ FilesInv))
<1> SUFFICES ASSUME NoRestarts PROVE SyncSpec => [](ExecInv /\ TruthInv /\ FilesInv)
  OBVIOUS
<1>1. SyncInit => ExecInv /\ TruthInv /\ FilesInv
  BY ExecInit, TruthInit, FilesInit
<1>2. (ExecInv /\ TruthInv /\ FilesInv) /\ [SyncNext]_sysVars
         => (ExecInv /\ TruthInv /\ FilesInv)'
  BY ExecNext, TruthNext, FilesNext
<1> QED BY <1>1, <1>2, PTL DEF SyncSpec

\* An attempt that ended shows all the artifacts its process completed, whatever the
\* sweeps before announced, and none that it did not, although announcements are
\* lost, repeated and overtaken by the end (collectArtifacts, MarkFinished, and
\* applyWorkerEvent's insert of the files it is sent).
THEOREM EndedHasAllArtifacts ==
    NoRestarts /\ Collects \subseteq {TRUE} => (SyncSpec => []ArtifactsComplete)
<1> SUFFICES ASSUME NoRestarts, Collects \subseteq {TRUE}
             PROVE  SyncSpec => []ArtifactsComplete
  OBVIOUS
<1>1. ASSUME FilesInv PROVE ArtifactsComplete
  BY <1>1 DEF FilesInv, FilesTrue, ArtifactsComplete, HasRow, AttemptRow, InTable, RowOf
<1> QED BY <1>1, Filed, PTL

---------------------------------------------------------------------------
(* The story an attempt's events tell *)

\* How far an event, a row and a command take an attempt.
EventRank(kind) ==
    IF kind = "attempt_accepted" THEN 1
    ELSE IF kind = "attempt_started" THEN 2
    ELSE IF kind = "attempt_finished" THEN 3 ELSE 0

RowRank(state) ==
    IF state = "offered" THEN 0
    ELSE IF state = "accepted" THEN 1
    ELSE IF state = "running" THEN 2 ELSE 3

StateRank(state) == IF state = "pending" THEN 1 ELSE IF state = "running" THEN 2 ELSE 3

CommandRank(st, a) == IF a \in DOMAIN st.cmds THEN StateRank(st.cmds[a].state) ELSE 0

LEMMA RanksTyped ==
    /\ \A kind : EventRank(kind) \in 0 .. 3
    /\ \A state : RowRank(state) \in 0 .. 3
    /\ \A state : StateRank(state) \in 1 .. 3
    /\ \A st, a : CommandRank(st, a) \in 0 .. 3
BY DEF EventRank, RowRank, StateRank, CommandRank

\* The events of an attempt wait in the order of its life, no further than its command.
Ordered(st) ==
    /\ \A m \in Outgoing(st) :
          /\ m.body.attempt \in DOMAIN st.cmds
          /\ EventRank(m.body.kind) <= CommandRank(st, m.body.attempt)
    /\ \A m, q \in Outgoing(st) :
          /\ m.body.attempt = q.body.attempt /\ m.seq < q.seq
          /\ EventRank(m.body.kind) # 0 /\ EventRank(q.body.kind) # 0
          => EventRank(m.body.kind) < EventRank(q.body.kind)

\* What waits was said before.
Numbered(st) == st.next \in Nat /\ \A m \in Outgoing(st) : m.seq \in Nat /\ m.seq < st.next

Onward(st, st2) == \A a : CommandRank(st, a) <= CommandRank(st2, a)

LEMMA SilentOnward ==
    ASSUME NEW st, NEW st2, SameCommands(st, st2)
    PROVE  /\ Onward(st, st2)
           /\ \A a : CommandRank(st2, a) = CommandRank(st, a)
<1>1. \A a : CommandRank(st2, a) = CommandRank(st, a)
  BY DEF SameCommands, CommandRank
<1> QED BY <1>1, RanksTyped DEF Onward

LEMMA SpeaksOnward ==
    ASSUME NEW st, NEW fs, NEW st2, NEW e, Speaks(st, fs, st2, e)
    PROVE  /\ Onward(st, st2)
           /\ EventRank(e.body.kind) <= CommandRank(st2, e.body.attempt)
           /\ EventRank(e.body.kind) # 0 =>
                 CommandRank(st, e.body.attempt) < EventRank(e.body.kind)
<1>1. PICK a, kind, old, new : /\ a = e.body.attempt /\ kind = e.body.kind
                               /\ old = st.cmds[a].state /\ new = st2.cmds[a].state
  OBVIOUS
<1>2. /\ a \in DOMAIN st.cmds /\ DOMAIN st2.cmds = DOMAIN st.cmds /\ Passes(kind, old, new)
      /\ \A b \in DOMAIN st.cmds \ {a} : st2.cmds[b].state = st.cmds[b].state
  BY <1>1 DEF Speaks
<1>3. CommandRank(st, a) = StateRank(old) /\ CommandRank(st2, a) = StateRank(new)
  BY <1>1, <1>2 DEF CommandRank
<1>4. /\ StateRank(old) <= StateRank(new) /\ EventRank(kind) <= StateRank(new)
      /\ EventRank(kind) # 0 => StateRank(old) < EventRank(kind)
  BY <1>2 DEF Passes, StateRank, EventRank
<1>5. ASSUME NEW b, b # a PROVE CommandRank(st2, b) = CommandRank(st, b)
  BY <1>2, <1>5 DEF CommandRank
<1>6. Onward(st, st2)
  BY <1>3, <1>4, <1>5, RanksTyped DEF Onward
<1> QED BY <1>1, <1>3, <1>4, <1>6

LEMMA TakesOnward ==
    ASSUME NEW st, NEW run, NEW st2, Takes(st, run, st2)
    PROVE  Onward(st, st2)
<1> SUFFICES ASSUME NEW a PROVE CommandRank(st, a) <= CommandRank(st2, a)
  BY DEF Onward
<1>1. CASE a \in DOMAIN st.cmds
  <2>1. CommandRank(st2, a) = CommandRank(st, a)
    BY <1>1 DEF Takes, CommandRank
  <2> QED BY <2>1, RanksTyped
<1>2. CASE a \notin DOMAIN st.cmds
  <2>1. CommandRank(st, a) = 0
    BY <1>2 DEF CommandRank
  <2> QED BY <2>1, RanksTyped
<1> QED BY <1>1, <1>2

LEMMA OrderedOnward ==
    ASSUME NEW st, NEW st2, Ordered(st), Onward(st, st2), DOMAIN st.cmds \subseteq DOMAIN st2.cmds
    PROVE  \A m \in Outgoing(st) :
              /\ m.body.attempt \in DOMAIN st2.cmds
              /\ EventRank(m.body.kind) <= CommandRank(st2, m.body.attempt)
<1> SUFFICES ASSUME NEW m \in Outgoing(st)
             PROVE  /\ m.body.attempt \in DOMAIN st2.cmds
                    /\ EventRank(m.body.kind) <= CommandRank(st2, m.body.attempt)
  OBVIOUS
<1>1. /\ m.body.attempt \in DOMAIN st.cmds
      /\ EventRank(m.body.kind) <= CommandRank(st, m.body.attempt)
  BY DEF Ordered
<1>2. CommandRank(st, m.body.attempt) <= CommandRank(st2, m.body.attempt)
  BY DEF Onward
<1> QED BY <1>1, <1>2, RanksTyped

LEMMA OrderedSpeaks ==
    ASSUME NEW st, NEW fs, NEW st2, NEW e, Speaks(st, fs, st2, e), Ordered(st), Numbered(st)
    PROVE  Ordered(st2)
<1>1. /\ Onward(st, st2)
      /\ EventRank(e.body.kind) <= CommandRank(st2, e.body.attempt)
      /\ EventRank(e.body.kind) # 0 =>
            CommandRank(st, e.body.attempt) < EventRank(e.body.kind)
  BY SpeaksOnward
<1>2. /\ Outgoing(st2) = Outgoing(st) \cup {e} /\ e.seq = st.next
      /\ e.body.attempt \in DOMAIN st.cmds /\ DOMAIN st2.cmds = DOMAIN st.cmds
  BY DEF Speaks
<1>3. \A m \in Outgoing(st) :
         /\ m.body.attempt \in DOMAIN st2.cmds
         /\ EventRank(m.body.kind) <= CommandRank(st2, m.body.attempt)
  BY <1>1, <1>2, OrderedOnward
<1>4. ASSUME NEW m \in Outgoing(st2), NEW q \in Outgoing(st2),
             m.body.attempt = q.body.attempt, m.seq < q.seq,
             EventRank(m.body.kind) # 0, EventRank(q.body.kind) # 0
      PROVE  EventRank(m.body.kind) < EventRank(q.body.kind)
  <2>1. CASE m \in Outgoing(st) /\ q \in Outgoing(st)
    BY <1>4, <2>1 DEF Ordered
  <2>2. CASE m \in Outgoing(st) /\ q = e
    <3>1. EventRank(m.body.kind) <= CommandRank(st, e.body.attempt)
      BY <1>4, <2>2 DEF Ordered
    <3>2. CommandRank(st, e.body.attempt) < EventRank(e.body.kind)
      BY <1>1, <1>4, <2>2
    <3> QED BY <2>2, <3>1, <3>2, RanksTyped
  <2>3. CASE m = e
    BY <1>2, <1>4, <2>3 DEF Numbered
  <2> QED BY <1>2, <2>1, <2>2, <2>3
<1> QED BY <1>1, <1>2, <1>3, <1>4 DEF Ordered

LEMMA OrderedTakes ==
    ASSUME NEW st, NEW run, NEW st2, Takes(st, run, st2), Ordered(st), Numbered(st2)
    PROVE  Ordered(st2)
<1>1. Onward(st, st2) /\ DOMAIN st.cmds \subseteq DOMAIN st2.cmds
  BY TakesOnward DEF Takes
<1>2. \A m \in Outgoing(st) :
         /\ m.body.attempt \in DOMAIN st2.cmds
         /\ EventRank(m.body.kind) <= CommandRank(st2, m.body.attempt)
  BY <1>1, OrderedOnward
<1>3. ASSUME NEW m \in Outgoing(st2), m \notin Outgoing(st)
      PROVE  /\ m.body.attempt \in DOMAIN st2.cmds \ DOMAIN st.cmds
             /\ EventRank(m.body.kind) <= CommandRank(st2, m.body.attempt)
  <2>1. m.body.attempt \in DOMAIN st2.cmds \ DOMAIN st.cmds /\ m.body.kind = "attempt_accepted"
    BY <1>3 DEF Takes
  <2>2. EventRank(m.body.kind) = 1 /\ CommandRank(st2, m.body.attempt) = 1
    BY <2>1 DEF Takes, CommandRank, StateRank, EventRank
  <2> QED BY <2>1, <2>2
<1>4. ASSUME NEW m \in Outgoing(st2), NEW q \in Outgoing(st2),
             m.body.attempt = q.body.attempt, m.seq < q.seq,
             EventRank(m.body.kind) # 0, EventRank(q.body.kind) # 0
      PROVE  EventRank(m.body.kind) < EventRank(q.body.kind)
  <2>1. CASE m \in Outgoing(st) /\ q \in Outgoing(st)
    BY <1>4, <2>1 DEF Ordered
  <2>2. CASE m \in Outgoing(st) /\ q \notin Outgoing(st)
    <3>1. m.body.attempt \in DOMAIN st.cmds
      BY <2>2 DEF Ordered
    <3> QED BY <1>3, <1>4, <2>2, <3>1
  <2>3. CASE m \notin Outgoing(st) /\ q \in Outgoing(st)
    <3>1. q.body.attempt \in DOMAIN st.cmds
      BY <2>3 DEF Ordered
    <3> QED BY <1>3, <1>4, <2>3, <3>1
  <2>4. CASE m \notin Outgoing(st) /\ q \notin Outgoing(st)
    <3>1. m = q
      BY <1>4, <2>4 DEF Takes
    <3> QED BY <1>4, <3>1 DEF Numbered
  <2> QED BY <2>1, <2>2, <2>3, <2>4
<1> QED BY <1>2, <1>3, <1>4 DEF Ordered

LEMMA OrderedSubset ==
    ASSUME NEW st, NEW st2, SameCommands(st, st2), Outgoing(st2) \subseteq Outgoing(st), Ordered(st)
    PROVE  Ordered(st2)
<1>1. DOMAIN st2.cmds = DOMAIN st.cmds /\ \A a : CommandRank(st2, a) = CommandRank(st, a)
  BY SilentOnward DEF SameCommands
<1> QED BY <1>1 DEF Ordered

LEMMA OrderedSays ==
    ASSUME NEW w \in Workers, Says(w), Ordered(store[w]), Numbered(store[w]), Numbered(store'[w])
    PROVE  Ordered(store'[w]) /\ Onward(store[w], store'[w])
<1>1. CASE Silent(store[w], store'[w])
  BY <1>1, OrderedSubset, SilentOnward DEF Silent
<1>2. CASE \E e : Speaks(store[w], files[w], store'[w], e)
  BY <1>2, OrderedSpeaks, SpeaksOnward
<1>3. CASE Takes(store[w], agent[w].inbox.run, store'[w])
  BY <1>3, OrderedTakes, TakesOnward
<1>4. CASE Drops(store[w], agent[w].inbox.through, store'[w])
  BY <1>4, OrderedSubset, SilentOnward DEF Drops
<1> QED BY <1>1, <1>2, <1>3, <1>4 DEF Says

---------------------------------------------------------------------------
(* The story and the tables *)

\* An event after the t-th takes its attempt's row further.
Upcoming(d, st, t) ==
    \A m \in Outgoing(st) : m.seq > t /\ EventRank(m.body.kind) # 0 =>
        RowRank(RowOf(d, m.body.attempt).state) < EventRank(m.body.kind)

\* No row is further than its worker's command.
Behind(d, w, st) ==
    \A a \in AttemptIds : InTable(d, a) /\ RowOf(d, a).worker = w =>
        RowRank(RowOf(d, a).state) <= CommandRank(st, a)

\* A command whose row is still offered has its acceptance to come.
ToCome(d, st, t) ==
    \A a \in DOMAIN st.cmds : RowOf(d, a).state = "offered" =>
        \E q \in Outgoing(st) :
            q.seq > t /\ q.body.attempt = a /\ q.body.kind = "attempt_accepted"

Matches(d, w, st, t) == Upcoming(d, st, t) /\ Behind(d, w, st) /\ ToCome(d, st, t)

\* The attempts S are rows of w.
RowsOf(d, w, S) == \A a \in S : a \in AttemptIds /\ InTable(d, a) /\ RowOf(d, a).worker = w

LEMMA BehindOnward ==
    ASSUME NEW d, NEW w, NEW st, NEW st2, Behind(d, w, st), Onward(st, st2)
    PROVE  Behind(d, w, st2)
<1> SUFFICES ASSUME NEW a \in AttemptIds, InTable(d, a), RowOf(d, a).worker = w
             PROVE  RowRank(RowOf(d, a).state) <= CommandRank(st2, a)
  BY DEF Behind
<1>1. RowRank(RowOf(d, a).state) <= CommandRank(st, a) /\ CommandRank(st, a) <= CommandRank(st2, a)
  BY DEF Behind, Onward
<1> QED BY <1>1, RanksTyped

LEMMA SilentMatches ==
    ASSUME NEW d, NEW w, NEW st, NEW st2, NEW t, Matches(d, w, st, t), Silent(st, st2)
    PROVE  Matches(d, w, st2, t)
<1>1. Onward(st, st2) /\ Outgoing(st2) = Outgoing(st) /\ DOMAIN st2.cmds = DOMAIN st.cmds
  BY SilentOnward DEF Silent, SameCommands
<1> QED BY <1>1, BehindOnward DEF Matches, Upcoming, ToCome

LEMMA SpeaksMatches ==
    ASSUME NEW d, NEW w, NEW st, NEW st2, NEW t, Matches(d, w, st, t), NEW fs, NEW e,
           Speaks(st, fs, st2, e), RowsOf(d, w, DOMAIN st.cmds)
    PROVE  Matches(d, w, st2, t)
<1>1. /\ Onward(st, st2)
      /\ EventRank(e.body.kind) # 0 =>
            CommandRank(st, e.body.attempt) < EventRank(e.body.kind)
  BY SpeaksOnward
<1>2. /\ Outgoing(st2) = Outgoing(st) \cup {e} /\ DOMAIN st2.cmds = DOMAIN st.cmds
      /\ e.body.attempt \in DOMAIN st.cmds
  BY DEF Speaks
<1>3. RowRank(RowOf(d, e.body.attempt).state) <= CommandRank(st, e.body.attempt)
  BY <1>2 DEF RowsOf, Matches, Behind
<1>4. EventRank(e.body.kind) # 0 =>
         RowRank(RowOf(d, e.body.attempt).state) < EventRank(e.body.kind)
  BY <1>1, <1>3, RanksTyped
<1>5. Upcoming(d, st2, t)
  BY <1>2, <1>4 DEF Matches, Upcoming
<1>6. ToCome(d, st2, t)
  BY <1>2 DEF Matches, ToCome
<1> QED BY <1>1, <1>5, <1>6, BehindOnward DEF Matches

LEMMA TakesMatches ==
    ASSUME NEW d, NEW w, NEW st, NEW st2, NEW t \in Nat, Matches(d, w, st, t), NEW run,
           Takes(st, run, st2), RowsOf(d, w, {r.attempt : r \in run}),
           Numbered(st2), st.next \in Nat, t < st.next
    PROVE  Matches(d, w, st2, t)
<1>1. Behind(d, w, st2)
  BY TakesOnward, BehindOnward DEF Matches
<1>2. ASSUME NEW m \in Outgoing(st2), m \notin Outgoing(st)
      PROVE  RowRank(RowOf(d, m.body.attempt).state) < EventRank(m.body.kind)
  <2>1. PICK a : a = m.body.attempt
    OBVIOUS
  <2>2. m.body.kind = "attempt_accepted" /\ a \in DOMAIN st2.cmds \ DOMAIN st.cmds
    BY <1>2, <2>1 DEF Takes
  <2>3. a \in {r.attempt : r \in run}
    BY <2>2 DEF Takes
  <2>4. RowRank(RowOf(d, a).state) <= CommandRank(st, a)
    BY <2>3 DEF RowsOf, Matches, Behind
  <2>5. CommandRank(st, a) = 0 /\ EventRank(m.body.kind) = 1
    BY <2>2 DEF CommandRank, EventRank
  <2> QED BY <2>1, <2>4, <2>5, RanksTyped
<1>3. Upcoming(d, st2, t)
  BY <1>2 DEF Matches, Upcoming
<1>4. ASSUME NEW a \in DOMAIN st2.cmds, RowOf(d, a).state = "offered"
      PROVE  \E q \in Outgoing(st2) :
                q.seq > t /\ q.body.attempt = a /\ q.body.kind = "attempt_accepted"
  <2>1. CASE a \in DOMAIN st.cmds
    BY <1>4, <2>1 DEF Matches, ToCome, Takes
  <2>2. CASE a \notin DOMAIN st.cmds
    <3>1. PICK m \in Outgoing(st2) : /\ m.body.kind = "attempt_accepted"
                                    /\ m.body.attempt = a /\ m.seq >= st.next
      BY <1>4, <2>2 DEF Takes
    <3>2. m.seq > t
      BY <3>1 DEF Numbered
    <3> QED BY <3>1, <3>2
  <2> QED BY <2>1, <2>2
<1> QED BY <1>1, <1>3, <1>4 DEF Matches, ToCome

LEMMA DropsMatches ==
    ASSUME NEW d, NEW w, NEW st, NEW st2, NEW t \in Nat, Matches(d, w, st, t),
           NEW through \in Nat, through <= t, Drops(st, through, st2), Numbered(st)
    PROVE  Matches(d, w, st2, t)
<1>1. /\ Onward(st, st2) /\ DOMAIN st2.cmds = DOMAIN st.cmds
      /\ Outgoing(st2) \subseteq Outgoing(st)
  BY SilentOnward DEF Drops, SameCommands
<1>2. \A q \in Outgoing(st) : q.seq > t => q \in Outgoing(st2)
  <2> SUFFICES ASSUME NEW q \in Outgoing(st), q.seq > t PROVE q.seq > through
    BY DEF Drops
  <2>1. q.seq \in Nat
    BY DEF Numbered
  <2> QED BY <2>1
<1>3. ToCome(d, st2, t)
  BY <1>1, <1>2 DEF Matches, ToCome
<1> QED BY <1>1, <1>3, BehindOnward DEF Matches, Upcoming

LEMMA MatchesSays ==
    ASSUME NEW w \in Workers, Says(w), Numbered(store[w]), Numbered(store'[w]),
           NEW d, NEW t \in Nat, t < store[w].next, Matches(d, w, store[w], t),
           agent[w].inbox.through \in Nat, agent[w].inbox.through <= t,
           RowsOf(d, w, DOMAIN store[w].cmds),
           RowsOf(d, w, {r.attempt : r \in agent[w].inbox.run})
    PROVE  Matches(d, w, store'[w], t)
<1>1. PICK st, st2, run, through :
          /\ st = store[w] /\ st2 = store'[w]
          /\ run = agent[w].inbox.run /\ through = agent[w].inbox.through
  OBVIOUS
<1>2. CASE Silent(st, st2)
  BY <1>1, <1>2, SilentMatches
<1>3. CASE \E e : Speaks(st, files[w], st2, e)
  BY <1>1, <1>3, SpeaksMatches
<1>4. CASE Takes(st, run, st2)
  BY <1>1, <1>4, TakesMatches DEF Numbered
<1>5. CASE Drops(st, through, st2)
  BY <1>1, <1>5, DropsMatches
<1> QED BY <1>1, <1>2, <1>3, <1>4, <1>5 DEF Says

\* A table whose rows of w are the same, but for rows just offered.
Resembles(d, d2, w) ==
    /\ \A a \in AttemptIds : InTable(d, a) /\ RowOf(d, a).worker = w => RowOf(d2, a) = RowOf(d, a)
    /\ \A a \in AttemptIds : InTable(d2, a) /\ RowOf(d2, a).worker = w =>
          \/ InTable(d, a) /\ RowOf(d2, a) = RowOf(d, a)
          \/ RowOf(d2, a).state = "offered"

LEMMA ResemblesMatches ==
    ASSUME NEW d, NEW d2, NEW w, NEW st, NEW t, Matches(d, w, st, t), Resembles(d, d2, w),
           RowsOf(d, w, DOMAIN st.cmds), Ordered(st)
    PROVE  Matches(d2, w, st, t)
<1>1. \A a \in DOMAIN st.cmds : RowOf(d2, a) = RowOf(d, a)
  BY DEF RowsOf, Resembles
<1>2. Upcoming(d2, st, t)
  BY <1>1 DEF Matches, Upcoming, Ordered
<1>3. ToCome(d2, st, t)
  BY <1>1 DEF Matches, ToCome
<1>4. ASSUME NEW a \in AttemptIds, InTable(d2, a), RowOf(d2, a).worker = w
      PROVE  RowRank(RowOf(d2, a).state) <= CommandRank(st, a)
  <2>1. CASE InTable(d, a) /\ RowOf(d2, a) = RowOf(d, a)
    BY <1>4, <2>1 DEF Matches, Behind
  <2>2. CASE RowOf(d2, a).state = "offered"
    <3>1. RowRank(RowOf(d2, a).state) = 0
      BY <2>2 DEF RowRank
    <3> QED BY <3>1, RanksTyped
  <2> QED BY <1>4, <2>1, <2>2 DEF Resembles
<1> QED BY <1>2, <1>3, <1>4 DEF Matches, Behind

LEMMA AlikeResembles ==
    ASSUME NEW d, NEW d2, NEW w, Alike(d, d2) PROVE Resembles(d, d2, w)
BY DEF Resembles, Alike, SameRows

LEMMA AddedResembles ==
    ASSUME NEW d, NEW d2, NEW w, NEW v, AddsRow(d, d2, v) PROVE Resembles(d, d2, w)
BY DEF Resembles, AddsRow

LEMMA OtherResembles ==
    ASSUME NEW d, NEW d2, NEW w, NEW body, Written(d, d2, body),
           RowOf(d, body.attempt).worker # w
    PROVE  Resembles(d, d2, w)
<1>1. RowOf(d2, body.attempt).worker # w
  BY DEF Written, Marks
<1> QED BY <1>1 DEF Resembles, Written

\* How an event moves the row of its attempt.
LEMMA MarksRank ==
    ASSUME NEW body, NEW old, NEW new, Marks(body, old, new)
    PROVE  /\ EventRank(body.kind) # 0 => RowRank(new.state) = EventRank(body.kind)
           /\ EventRank(body.kind) = 0 => new.state = old.state
<1>1. CASE body.kind = "attempt_accepted"
  BY <1>1 DEF Marks, EventRank, RowRank
<1>2. CASE body.kind = "attempt_started"
  BY <1>2 DEF Marks, EventRank, RowRank
<1>3. CASE body.kind = "attempt_finished"
  BY <1>3 DEF Marks, EventRank, RowRank, Ended
<1>4. CASE body.kind \in {"artifacts", "metric_sample"}
  BY <1>4 DEF Marks, EventRank
<1> QED BY <1>1, <1>2, <1>3, <1>4 DEF Marks

LEMMA WrittenMatches ==
    ASSUME NEW d, NEW d2, NEW w, NEW st, NEW t \in Nat, Matches(d, w, st, t), NEW e,
           Written(d, d2, e.body), e \in Outgoing(st), e.seq = t + 1,
           \A q \in Outgoing(st) : q.seq = e.seq => q = e,
           RowsOf(d, w, DOMAIN st.cmds), Ordered(st), Numbered(st)
    PROVE  Matches(d2, w, st, t + 1)
<1>1. PICK a, kind : a = e.body.attempt /\ kind = e.body.kind
  OBVIOUS
<1>2. /\ a \in DOMAIN st.cmds /\ a \in AttemptIds /\ InTable(d, a) /\ RowOf(d, a).worker = w
      /\ EventRank(kind) <= CommandRank(st, a)
  BY <1>1 DEF Ordered, RowsOf
<1>3. /\ EventRank(kind) # 0 => RowRank(RowOf(d2, a).state) = EventRank(kind)
      /\ EventRank(kind) = 0 => RowOf(d2, a).state = RowOf(d, a).state
  BY <1>1, MarksRank DEF Written
<1>4. \A b \in DOMAIN st.cmds \ {a} : RowOf(d2, b) = RowOf(d, b)
  BY <1>1 DEF Written, RowsOf
<1>5. ASSUME NEW m \in Outgoing(st), m.seq > t + 1, EventRank(m.body.kind) # 0
      PROVE  RowRank(RowOf(d2, m.body.attempt).state) < EventRank(m.body.kind)
  <2>1. m.seq \in Nat /\ m.body.attempt \in DOMAIN st.cmds
    BY DEF Numbered, Ordered
  <2>2. RowRank(RowOf(d, m.body.attempt).state) < EventRank(m.body.kind)
    <3>1. m.seq > t
      BY <1>5, <2>1
    <3> QED BY <1>5, <3>1 DEF Matches, Upcoming
  <2>3. CASE m.body.attempt # a
    BY <1>4, <2>1, <2>2, <2>3
  <2>4. CASE m.body.attempt = a /\ EventRank(kind) = 0
    BY <1>3, <2>2, <2>4
  <2>5. CASE m.body.attempt = a /\ EventRank(kind) # 0
    <3>1. e.seq < m.seq
      BY <1>5, <2>1
    <3>2. EventRank(kind) < EventRank(m.body.kind)
      BY <1>1, <1>5, <2>5, <3>1 DEF Ordered
    <3> QED BY <1>3, <2>5, <3>2
  <2> QED BY <2>3, <2>4, <2>5
<1>6. ASSUME NEW b \in AttemptIds, InTable(d2, b), RowOf(d2, b).worker = w
      PROVE  RowRank(RowOf(d2, b).state) <= CommandRank(st, b)
  <2>1. InTable(d, b) /\ (b # a => RowOf(d2, b) = RowOf(d, b))
    BY <1>1, <1>6 DEF Written
  <2>2. CASE b # a
    BY <1>6, <2>1, <2>2 DEF Matches, Behind
  <2>3. CASE b = a /\ EventRank(kind) = 0
    BY <1>2, <1>3, <2>3 DEF Matches, Behind
  <2>4. CASE b = a /\ EventRank(kind) # 0
    BY <1>2, <1>3, <2>4
  <2> QED BY <2>2, <2>3, <2>4
<1>7. ASSUME NEW b \in DOMAIN st.cmds, RowOf(d2, b).state = "offered"
      PROVE  \E q \in Outgoing(st) :
                q.seq > t + 1 /\ q.body.attempt = b /\ q.body.kind = "attempt_accepted"
  <2>1. RowOf(d, b).state = "offered" /\ (b = a => EventRank(kind) = 0)
    <3>1. CASE b # a
      BY <1>4, <1>7, <3>1
    <3>2. CASE b = a
      <4>1. RowRank(RowOf(d2, a).state) = 0
        BY <1>7, <3>2 DEF RowRank
      <4> QED BY <1>3, <1>7, <3>2, <4>1
    <3> QED BY <3>1, <3>2
  <2>2. PICK q \in Outgoing(st) :
             q.seq > t /\ q.body.attempt = b /\ q.body.kind = "attempt_accepted"
    BY <2>1 DEF Matches, ToCome
  <2>3. q # e
    BY <1>1, <2>1, <2>2 DEF EventRank
  <2>4. q.seq \in Nat /\ q.seq # t + 1
    BY <2>3 DEF Numbered
  <2>5. q.seq > t + 1
    BY <2>2, <2>4
  <2> QED BY <2>2, <2>5
<1> QED BY <1>5, <1>6, <1>7 DEF Matches, Upcoming, Behind, ToCome

---------------------------------------------------------------------------
(* The story, step by step *)

LEMMA BoxFacts ==
    ASSUME NEW st \in Stores, NEW w, NEW b \in Nat, Box(st, w, b)
    PROVE  /\ Numbered(st)
           /\ \A m \in Outgoing(st) : m \in Messages /\ m.id = <<w, m.seq>>
           /\ \A m, q \in Outgoing(st) : m.seq = q.seq => m = q
<1>1. PICK es : es = st.outbox
  OBVIOUS
<1>2. es \in Seq(Messages) /\ st.next \in Nat
  BY <1>1 DEF Stores
<1>5. Len(es) \in Nat /\ DOMAIN es = 1 .. Len(es)
  BY <1>2
<1>6. /\ b + Len(es) + 1 = st.next
      /\ \A i \in 1 .. Len(es) : es[i].seq = b + i /\ es[i].id = <<w, b + i>>
  BY <1>1 DEF Box, Consecutive
<1>7. ASSUME NEW i \in DOMAIN es
      PROVE  /\ es[i] \in Messages /\ es[i].seq = b + i /\ es[i].seq \in Nat
             /\ es[i].seq < st.next /\ es[i].id = <<w, es[i].seq>>
  BY <1>2, <1>5, <1>6
<1>8. \A i, k \in DOMAIN es : es[i].seq = es[k].seq => i = k
  BY <1>5, <1>7
<1> QED BY <1>1, <1>2, <1>7, <1>8 DEF Outgoing, Numbered

LEMMA WaitingFacts ==
    ASSUME ExecInv, NEW w \in Workers
    PROVE  /\ Numbered(store[w])
           /\ \A m \in Outgoing(store[w]) : m \in Messages /\ m.id = <<w, m.seq>>
           /\ \A m, q \in Outgoing(store[w]) : m.seq = q.seq => m = q
<1>1. store[w] \in Stores /\ Linked(w) /\ Gapless(db)
  BY MachineFacts DEF ExecInv, ChainInv
<1>2. PICK b \in Nat : Box(store[w], w, b)
  BY <1>1 DEF Linked, Gapless
<1> QED BY <1>1, <1>2, BoxFacts

\* A message whose sequence is known is the row that is known.
LEMMA KnownRow ==
    ASSUME NEW d, Gapless(d), NEW w \in Workers, NEW n \in Nat \ {0}
    PROVE  /\ n <= Top(d, w) =>
                 \E r \in d.events : r.worker = w /\ r.seq = n /\ r.id = <<w, n>>
           /\ (\E r \in d.events : r.worker = w /\ r.seq = n) => n <= Top(d, w)
<1>1. Top(d, w) \in Nat /\ Seen(d, w) = 1 .. Top(d, w)
  BY DEF Gapless
<1>2. n <= Top(d, w) <=> n \in Seen(d, w)
  BY <1>1
<1>3. n \in Seen(d, w) <=> \E r \in d.events : r.worker = w /\ r.seq = n
  BY DEF Seen
<1> QED BY <1>2, <1>3 DEF Gapless

LEMMA RecordsNext ==
    ASSUME ExecInv, NEW e, Records(e), NEW w \in Workers, w = req.worker
    PROVE  /\ e.seq = Top(tx, w) + 1 /\ Top(tx, w) \in Nat /\ Top(tx', w) = Top(tx, w) + 1
           /\ \A v \in Workers \ {w} : Top(tx', v) = Top(tx, v)
<1>1. ChainInv /\ Gapless(tx) /\ Serving
  BY DEF ExecInv, ChainInv
<1>2. /\ req.phase = "events" /\ call.rest # << >> /\ e = Head(call.rest)
      /\ tx' = Recorded(tx, w, req.session, e) /\ Fresh(tx, w, req.session, e)
  BY DEF Records, RecordNext, RecordEvent
<1>3. PICK b \in 0 .. Top(tx, w) : Consecutive(call.rest, w, b)
  BY <1>1, <1>2 DEF Serving
<1>4. Top(tx, w) \in Nat /\ b \in Nat
  BY <1>1, <1>3 DEF Gapless
<1>5. e.seq = b + 1 /\ e.id = <<w, b + 1>>
  <2>1. Popped(call.rest, w, b)
    BY <1>2, <1>3, <1>4, ConsecutiveTail
  <2> QED BY <1>2, <2>1 DEF Popped
<1>6. ~(b + 1 <= Top(tx, w))
  <2>1. PICK n \in Nat \ {0} : n = b + 1
    BY <1>4
  <2>2. n <= Top(tx, w) => \E r \in tx.events : r.id = <<w, n>>
    BY <1>1, KnownRow
  <2> QED BY <1>2, <1>5, <2>1, <2>2 DEF Fresh
<1>7. b = Top(tx, w)
  BY <1>3, <1>4, <1>6
<1>8. PICK d, d2, s : d = tx /\ d2 = tx' /\ s = req.session
  OBVIOUS
<1>9. Gapless(d) /\ d2 = Recorded(d, w, s, e) /\ b \in 0 .. Top(d, w)
  BY <1>1, <1>2, <1>3, <1>8
<1>10. /\ Gapless(d2)
       /\ \A v \in Workers \ {w} : Top(d2, v) = Top(d, v)
       /\ Top(d2, w) >= b + 1
       /\ Top(d2, w) = Top(d, w) \/ Top(d2, w) = b + 1
  BY <1>5, <1>9, RecordedGapless
<1>11. Top(d2, w) = b + 1
  BY <1>4, <1>7, <1>8, <1>10
<1> QED BY <1>4, <1>5, <1>7, <1>8, <1>10, <1>11

\* What a worker was told to run is its own in both tables.
LEMMA OwnedRows ==
    ASSUME ExecInv, TruthInv, NEW w \in Workers
    PROVE  /\ RowsOf(db, w, DOMAIN store[w].cmds) /\ RowsOf(tx, w, DOMAIN store[w].cmds)
           /\ RowsOf(db, w, {r.attempt : r \in agent[w].inbox.run})
           /\ RowsOf(tx, w, {r.attempt : r \in agent[w].inbox.run})
<1>1. store[w] \in Stores /\ agent[w] \in Agents
  BY MachineFacts
<1>2. DOMAIN store[w].cmds \subseteq AttemptIds
  BY <1>1, StoreShape
<1>3. agent[w].inbox.run \subseteq [attempt : AttemptIds, rev : Nat]
  BY <1>1 DEF Agents, Replies
<1>4. Owned(w) /\ Follows(db, tx)
  BY DEF TruthInv, TablesTrue
<1>5. \A a \in DOMAIN store[w].cmds \cup {r.attempt : r \in agent[w].inbox.run} :
         /\ a \in AttemptIds /\ InTable(db, a) /\ RowOf(db, a).worker = w
         /\ InTable(tx, a) /\ RowOf(tx, a).worker = w
  BY <1>2, <1>3, <1>4 DEF Owned, Follows
<1> QED BY <1>5 DEF RowsOf

\* What is under way still waits or is recorded.
Relayed(w) == \A m : UnderWay(w, m) => m \in Outgoing(store[w]) \/ m.seq <= Top(db, w)

InStep(w) ==
    /\ Ordered(store[w]) /\ Relayed(w)
    /\ Matches(db, w, store[w], Top(db, w)) /\ Matches(tx, w, store[w], Top(tx, w))

StoryInv == \A w \in Workers : InStep(w)

LEMMA SameTop ==
    ASSUME NEW d, NEW d2, NEW w, d2.events = d.events
    PROVE  Top(d2, w) = Top(d, w)
BY DEF Top, Seen

\* What a transaction leaves.
LEMMA PlaneMatches ==
    ASSUME ExecInv, TruthInv, StoryInv, PlaneWrites, NEW w \in Workers
    PROVE  /\ Matches(db', w, store[w], Top(db', w)) /\ Matches(tx', w, store[w], Top(tx', w))
           /\ Top(db, w) <= Top(db', w)
<1>1. PICK d, d2, x, x2, st : d = db /\ d2 = db' /\ x = tx /\ x2 = tx' /\ st = store[w]
  OBVIOUS
<1>2. /\ Matches(d, w, st, Top(d, w)) /\ Matches(x, w, st, Top(x, w)) /\ Ordered(st)
      /\ RowsOf(d, w, DOMAIN st.cmds) /\ RowsOf(x, w, DOMAIN st.cmds)
  BY <1>1, OwnedRows DEF StoryInv, InStep
<1>3. Top(d, w) \in Nat /\ Top(x, w) \in Nat /\ Top(d, w) <= Top(x, w)
  BY <1>1, TopsType DEF ExecInv
<1>4. ASSUME NEW y, NEW y2, Alike(y, y2), Matches(y, w, st, Top(y, w)),
             RowsOf(y, w, DOMAIN st.cmds)
      PROVE  Matches(y2, w, st, Top(y2, w)) /\ Top(y2, w) = Top(y, w)
  <2>1. Top(y2, w) = Top(y, w)
    BY <1>4, SameTop DEF Alike
  <2>2. Matches(y2, w, st, Top(y, w))
    BY <1>2, <1>4, AlikeResembles, ResemblesMatches
  <2> QED BY <2>1, <2>2
<1>5. ASSUME Alike(d, d2), Alike(d, x2) \/ Alike(x, x2)
      PROVE  /\ Matches(d2, w, st, Top(d2, w)) /\ Matches(x2, w, st, Top(x2, w))
             /\ Top(d, w) <= Top(d2, w)
  BY <1>2, <1>3, <1>4, <1>5
<1>6. ASSUME NEW e, d2 = d, Records(e)
      PROVE  /\ Matches(d2, w, st, Top(d2, w)) /\ Matches(x2, w, st, Top(x2, w))
             /\ Top(d, w) <= Top(d2, w)
  <2>1. PICK v \in Workers : v = req.worker
    BY <1>6 DEF Records, Served
  <2>2. /\ Written(x, x2, e.body) /\ RowOf(x, e.body.attempt).worker = v
        /\ UnderWay(v, e)
    BY <1>1, <1>6, <2>1 DEF Records, UnderWay
  <2>3. /\ e.seq = Top(x, v) + 1 /\ Top(x, v) \in Nat /\ Top(x2, v) = Top(x, v) + 1
        /\ \A u \in Workers \ {v} : Top(x2, u) = Top(x, u)
    BY <1>1, <1>6, <2>1, RecordsNext
  <2>4. CASE v # w
    <3>1. Resembles(x, x2, w)
      BY <2>2, <2>4, OtherResembles
    <3>2. Matches(x2, w, st, Top(x, w))
      BY <1>2, <3>1, ResemblesMatches
    <3> QED BY <1>2, <1>3, <1>6, <2>3, <2>4, <3>2
  <2>5. CASE v = w
    <3>1. e \in Outgoing(st)
      BY <1>1, <1>3, <2>2, <2>3, <2>5 DEF StoryInv, InStep, Relayed
    <3>2. Numbered(st) /\ \A q \in Outgoing(st) : q.seq = e.seq => q = e
      BY <1>1, <3>1, WaitingFacts
    <3>3. PICK t \in Nat : t = Top(x, w)
      BY <1>3
    <3>4. Matches(x2, w, st, t + 1)
      BY <1>2, <2>2, <2>3, <2>5, <3>1, <3>2, <3>3, WrittenMatches
    <3> QED BY <1>2, <1>3, <1>6, <2>3, <2>5, <3>3, <3>4
  <2> QED BY <2>4, <2>5
<1>7. ASSUME NEW v, d2 = d, AddsRow(x, x2, v), x2.events = x.events
      PROVE  /\ Matches(d2, w, st, Top(d2, w)) /\ Matches(x2, w, st, Top(x2, w))
             /\ Top(d, w) <= Top(d2, w)
  <2>1. Resembles(x, x2, w)
    BY <1>7, AddedResembles
  <2>2. Matches(x2, w, st, Top(x, w))
    BY <1>2, <2>1, ResemblesMatches
  <2>3. Top(x2, w) = Top(x, w)
    BY <1>7, SameTop
  <2> QED BY <1>2, <1>3, <1>7, <2>2, <2>3
<1>8. ASSUME d2 = x, x2 = x
      PROVE  /\ Matches(d2, w, st, Top(d2, w)) /\ Matches(x2, w, st, Top(x2, w))
             /\ Top(d, w) <= Top(d2, w)
  BY <1>2, <1>3, <1>8
<1> QED BY <1>1, <1>5, <1>6, <1>7, <1>8 DEF PlaneWrites

LEMMA StoryNext ==
    ASSUME NoRestarts, ExecInv, TruthInv, FilesInv, StoryInv, [SyncNext]_sysVars
    PROVE  StoryInv'
<1> SUFFICES ASSUME NEW w \in Workers PROVE InStep(w)'
  BY DEF StoryInv
<1>1. WorkInv /\ TablesTrue /\ ChainInv /\ ExecInv'
  BY ExecNext DEF ExecInv, TruthInv
<1>2. /\ Progresses(w)
      /\ UNCHANGED <<store, procs, files>> \/ UNCHANGED <<db, tx, req, call, wire>>
  BY MachinesMove DEF FilesInv
<1>3. PlaneWrites
  BY <1>1, TablesWritten
<1>4. /\ Ordered(store[w]) /\ Relayed(w)
      /\ Matches(db, w, store[w], Top(db, w)) /\ Matches(tx, w, store[w], Top(tx, w))
  BY DEF StoryInv, InStep
<1>5. Numbered(store[w]) /\ Numbered(store'[w])
  <2>1. store'[w] \in Stores /\ Linked(w)' /\ Gapless(db')
    BY <1>1 DEF ExecInv, ChainInv, WorkInv, MachinesTyped
  <2>2. PICK b \in Nat : Box(store'[w], w, b)
    BY <2>1 DEF Linked, Gapless
  <2> QED BY <2>1, <2>2, BoxFacts, WaitingFacts
<1>6. /\ Top(db, w) \in Nat /\ Top(tx, w) \in Nat /\ Top(db, w) <= Top(tx, w)
      /\ Top(tx, w) < store[w].next /\ store[w].next \in Nat
      /\ agent[w].inbox.through \in Nat /\ agent[w].inbox.through <= Top(db, w)
  BY <1>1, TopsType DEF ChainInv, Heard
<1>7. Ordered(store'[w])
  BY <1>2, <1>4, <1>5, OrderedSays DEF Progresses
<1>8. /\ Matches(db', w, store'[w], Top(db', w)) /\ Matches(tx', w, store'[w], Top(tx', w))
      /\ Top(db, w) <= Top(db', w)
  <2>1. CASE UNCHANGED store
    BY <1>3, <2>1, PlaneMatches
  <2>2. CASE UNCHANGED <<db, tx>>
    <3>0. PICK d, x : d = db /\ x = tx
      OBVIOUS
    <3>1. PICK t \in Nat, u \in Nat : d = db /\ x = tx /\ t = Top(d, w) /\ u = Top(x, w)
      BY <1>6, <3>0
    <3>2. /\ RowsOf(d, w, DOMAIN store[w].cmds) /\ RowsOf(x, w, DOMAIN store[w].cmds)
          /\ RowsOf(d, w, {r.attempt : r \in agent[w].inbox.run})
          /\ RowsOf(x, w, {r.attempt : r \in agent[w].inbox.run})
      BY <3>1, OwnedRows
    <3>3. /\ Says(w) /\ Matches(d, w, store[w], t) /\ Matches(x, w, store[w], u)
          /\ t < store[w].next /\ u < store[w].next
          /\ agent[w].inbox.through <= t /\ agent[w].inbox.through <= u
      BY <1>2, <1>4, <1>6, <3>1 DEF Progresses
    <3>4. Matches(d, w, store'[w], t)
      BY <1>5, <1>6, <3>2, <3>3, MatchesSays
    <3>5. Matches(x, w, store'[w], u)
      BY <1>5, <1>6, <3>2, <3>3, MatchesSays
    <3> QED BY <1>6, <2>2, <3>1, <3>4, <3>5
  <2> QED BY <1>2, <2>1, <2>2
<1>9. Relayed(w)'
  <2> SUFFICES ASSUME NEW m, UnderWay(w, m)'
               PROVE  m \in Outgoing(store'[w]) \/ m.seq <= Top(db', w)
    BY DEF Relayed, Outgoing
  <2>1. Top(db', w) \in Nat
    BY <1>1 DEF ExecInv, ChainInv, Gapless
  <2>2. m \in Outgoing(store[w]) \/ UnderWay(w, m)
    BY <1>1, MessagesFlow
  <2>3. m \in Outgoing(store[w]) \/ m.seq <= Top(db, w)
    BY <1>4, <2>2 DEF Relayed
  <2>4. ASSUME NEW n, m.seq <= n, n <= Top(db, w), n \in Nat PROVE m.seq <= Top(db', w)
    <3>1. m.seq \in Nat
      <4>1. CASE m \in Outgoing(store[w])
        BY <1>5, <4>1 DEF Numbered
      <4>2. CASE UnderWay(w, m)
        <5>1. /\ \A r \in wire : r.events \in Seq(Messages)
              /\ call.rest \in Seq(Messages)
          BY <1>1 DEF WorkInv, PlaneTyped, Posted
        <5>2. PICK es \in Seq(Messages) : \E i \in DOMAIN es : m = es[i]
          BY <4>2, <5>1 DEF UnderWay
        <5>3. m \in Messages
          BY <5>2
        <5> QED BY <5>3 DEF Messages
      <4> QED BY <2>2, <4>1, <4>2
    <3> QED BY <1>6, <1>8, <2>1, <2>4, <3>1
  <2>5. CASE m.seq <= Top(db, w)
    BY <1>6, <2>4, <2>5
  <2>6. CASE m \in Outgoing(store[w])
    <3>1. m \in Outgoing(store'[w]) \/ m.seq <= agent[w].inbox.through
      <4>1. m.seq \in Nat
        BY <1>5, <2>6 DEF Numbered
      <4>2. CASE Drops(store[w], agent[w].inbox.through, store'[w])
        BY <1>6, <2>6, <4>1, <4>2 DEF Drops
      <4>3. CASE ~Drops(store[w], agent[w].inbox.through, store'[w])
        BY <1>2, <2>6, <4>3 DEF Progresses, Says, Silent, Speaks, Takes
      <4> QED BY <4>2, <4>3
    <3> QED BY <1>6, <2>4, <3>1
  <2> QED BY <2>3, <2>5, <2>6
<1> QED BY <1>7, <1>8, <1>9 DEF InStep

LEMMA StoryInit == SyncInit => StoryInv
<1> SUFFICES ASSUME SyncInit, NEW w \in Workers PROVE InStep(w)
  BY DEF StoryInv
<1>1. \A a \in AttemptIds : ~InTable(db, a) /\ ~InTable(tx, a)
  BY IdIs DEF SyncInit, Init, EmptyDatabase, NoJobRow, InTable
<1>2. Outgoing(store[w]) = {} /\ DOMAIN store[w].cmds = {}
  BY DEF SyncInit, AgentInit, Outgoing
<1>3. wire = {} /\ req = Idle
  BY DEF SyncInit, Init
<1>4. Ordered(store[w])
  BY <1>2 DEF Ordered
<1>5. Relayed(w)
  BY <1>3 DEF Relayed, UnderWay
<1>6. \A t : Matches(db, w, store[w], t) /\ Matches(tx, w, store[w], t)
  BY <1>1, <1>2 DEF Matches, Upcoming, Behind, ToCome
<1> QED BY <1>4, <1>5, <1>6 DEF InStep

---------------------------------------------------------------------------
(* Sessions *)

SameSession(ag, ag2) == ag2.up = ag.up /\ ag2.session = ag.session
Boots(ag, ag2) == ~ag.up /\ ag2.up /\ ag2.session = ag.session + 1

LEMMA SessionPut ==
    ASSUME MachinesTyped, NEW w \in Workers, NEW x, SameSession(agent[w], x),
           agent' = [agent EXCEPT ![w] = x]
    PROVE  \A v \in Workers : SameSession(agent[v], agent'[v])
BY DEF MachinesTyped, SameSession

LEMMA SessionKept ==
    ASSUME MachinesTyped, NEW w \in Workers, NEW phase, NEW reply,
           \/ UNCHANGED agent \/ Goto(w, phase) \/ NextOf(w, phase) \/ GotError(w)
           \/ GotReply(w, reply)
    PROVE  \A v \in Workers : SameSession(agent[v], agent'[v])
<1>1. agent[w] \in Agents
  BY DEF MachinesTyped
<1>2. CASE UNCHANGED agent
  BY <1>2 DEF SameSession
<1>3. CASE Goto(w, phase)
  <2>1. PICK x : x = [agent[w] EXCEPT !.pc = phase]
    OBVIOUS
  <2>2. agent' = [agent EXCEPT ![w] = x] /\ SameSession(agent[w], x)
    BY <1>1, <1>3, <2>1 DEF Goto, Agents, SameSession
  <2> QED BY <2>2, SessionPut
<1>4. CASE NextOf(w, phase)
  <2>1. PICK x : x = [agent[w] EXCEPT !.pc = phase, !.todo = Tail(@)]
    OBVIOUS
  <2>2. agent' = [agent EXCEPT ![w] = x] /\ SameSession(agent[w], x)
    BY <1>1, <1>4, <2>1 DEF NextOf, Agents, SameSession
  <2> QED BY <2>2, SessionPut
<1>5. CASE GotError(w)
  <2>1. PICK x : x = [agent[w] EXCEPT !.pc = "reap", !.inbox = NoReply]
    OBVIOUS
  <2>2. agent' = [agent EXCEPT ![w] = x] /\ SameSession(agent[w], x)
    BY <1>1, <1>5, <2>1 DEF GotError, Agents, SameSession
  <2> QED BY <2>2, SessionPut
<1>6. CASE GotReply(w, reply)
  <2>1. PICK x : x = [agent[w] EXCEPT !.pc = "accept", !.inbox = reply]
    OBVIOUS
  <2>2. agent' = [agent EXCEPT ![w] = x] /\ SameSession(agent[w], x)
    BY ZenonT(30), <1>1, <1>6, <2>1 DEF GotReply, Agents, SameSession
  <2> QED BY <2>2, SessionPut
<1> QED BY <1>2, <1>3, <1>4, <1>5, <1>6

LEMMA AgentKeepsSession ==
    ASSUME MachinesTyped, NEW w \in Workers, AgentStep(w)
    PROVE  \A v \in Workers : SameSession(agent[v], agent'[v])
<1>1. agent[w] \in Agents
  BY DEF MachinesTyped
<1>2. CASE \E phase : Goto(w, phase) \/ NextOf(w, phase) \/ GotError(w) \/ UNCHANGED agent
  BY <1>2, SessionKept
<1>3. CASE ListRunning(w)
  <2>1. PICK list : agent' = [agent EXCEPT ![w].pc = "ingest", ![w].todo = list]
    BY <1>3 DEF ListRunning
  <2>2. PICK x : x = [agent[w] EXCEPT !.pc = "ingest", !.todo = list]
    OBVIOUS
  <2>3. agent' = [agent EXCEPT ![w] = x] /\ SameSession(agent[w], x)
    BY <1>1, <2>1, <2>2 DEF Agents, SameSession
  <2> QED BY <2>3, SessionPut
<1>4. CASE ReadRunStatus(w)
  <2>1. PICK x : x = [agent[w] EXCEPT !.found = files[w][Now(w)].status,
                                      !.pc = IF files[w][Now(w)].status = "none"
                                             THEN "alive" ELSE "finish"]
    OBVIOUS
  <2>2. agent' = [agent EXCEPT ![w] = x] /\ SameSession(agent[w], x)
    BY <1>1, <1>4, <2>1 DEF ReadRunStatus, Agents, SameSession
  <2> QED BY <2>2, SessionPut
<1>5. CASE Finish(w)
  <2>1. PICK x : x = [agent[w] EXCEPT !.pc = "ingest", !.todo = Tail(@),
                                      !.sampling = @ \ {Now(w)}]
    OBVIOUS
  <2>2. agent' = [agent EXCEPT ![w] = x] /\ SameSession(agent[w], x)
    BY ZenonT(30), <1>1, <1>5, <2>1 DEF Finish, Agents, SameSession
  <2> QED BY <2>2, SessionPut
<1>6. CASE Acknowledge(w)
  <2>1. PICK todo : agent' = [agent EXCEPT ![w].pc = "launch", ![w].inbox = NoReply, ![w].todo = todo]
    BY <1>6 DEF Acknowledge, ListPending
  <2>2. PICK x : x = [agent[w] EXCEPT !.pc = "launch", !.inbox = NoReply, !.todo = todo]
    OBVIOUS
  <2>3. agent' = [agent EXCEPT ![w] = x] /\ SameSession(agent[w], x)
    BY <1>1, <2>1, <2>2 DEF Agents, SameSession
  <2> QED BY <2>3, SessionPut
<1>7. CASE WatchProgress(w)
  <2>1. PICK next : next = [agent[w] EXCEPT !.pc = "ingest", !.todo = Tail(@),
                                            !.sampling = @ \cup {Now(w)}]
    OBVIOUS
  <2>2. next \in [up : {agent[w].up}, session : {agent[w].session}, pc : {next.pc},
                  todo : {next.todo}, found : {next.found}, inbox : {next.inbox},
                  sampling : {next.sampling}, swept : {next.swept}, seen : {next.seen}]
    BY <1>1, <2>1 DEF Agents
  <2>3. \/ agent' = [agent EXCEPT ![w] = next]
        \/ \E a, s : agent' = [agent EXCEPT ![w] = [next EXCEPT !.swept[a] = @ + 1, !.seen[a] = s]]
    <3>1. PICK a, found : a = Now(w) /\ found = Listed(w, a)
      OBVIOUS
    <3>2. \/ agent' = [agent EXCEPT ![w] = next]
          \/ agent' = [agent EXCEPT ![w] =
                [next EXCEPT !.swept[a] = @ + 1,
                             !.seen[a] = IF found = << >> THEN @ ELSE Last(found)]]
      BY <1>7, <2>1, <3>1 DEF WatchProgress
    <3>3. [next EXCEPT !.swept[a] = @ + 1,
                       !.seen[a] = IF found = << >> THEN @ ELSE Last(found)]
          = [next EXCEPT !.swept[a] = @ + 1,
                         !.seen[a] = IF found = << >> THEN next.seen[a] ELSE Last(found)]
      BY <2>2
    <3> QED BY <3>2, <3>3
  <2>4. \A a, s : LET x == [next EXCEPT !.swept[a] = @ + 1, !.seen[a] = s]
                  IN  SameSession(agent[w], x)
    BY <2>2 DEF SameSession
  <2>5. SameSession(agent[w], next)
    BY <2>2 DEF SameSession
  <2>6. PICK x : agent' = [agent EXCEPT ![w] = x] /\ SameSession(agent[w], x)
    BY <2>3, <2>4, <2>5
  <2> QED BY <2>6, SessionPut
<1>8. CASE AcceptCommands(w) \/ Ingest(w)
  BY <1>2, <1>8 DEF AcceptCommands, Ingest
<1>9. CASE CheckAlive(w)
  BY <1>2, <1>7, <1>9 DEF CheckAlive, SignalCancel
<1>10. CASE RecordStarted(w) \/ FinishUnstarted(w) \/ FailBeforeLaunch(w) \/ StartProcess(w)
  BY <1>2, <1>10 DEF RecordStarted, FinishUnstarted, FailBeforeLaunch, StartProcess
<1>11. CASE ReapWithdrawn(w) \/ AllReconciled(w) \/ Launched(w)
  BY <1>2, <1>11 DEF ReapWithdrawn, AllReconciled, Launched
<1> QED BY <1>3, <1>4, <1>5, <1>6, <1>8, <1>9, <1>10, <1>11 DEF AgentStep

LEMMA SessionsMove ==
    ASSUME NoRestarts, ExecInv, [SyncNext]_sysVars, NEW v \in Workers
    PROVE  SameSession(agent[v], agent'[v]) \/ Boots(agent[v], agent'[v])
<1>1. /\ MachinesTyped /\ ~Fault("crash") /\ ~Fault("reboot")
      /\ req # Idle => req.worker \in Workers
  BY StaysUnbroken DEF ExecInv, WorkInv, PlaneTyped, Served
<1>2. CASE UNCHANGED agent
  BY <1>2 DEF SameSession
<1>3. ASSUME NEW w \in Workers, AgentAlone(w) \/ JobAlone(w)
      PROVE  SameSession(agent[v], agent'[v])
  <2>1. CASE AgentAlone(w)
    BY <1>1, <2>1, AgentKeepsSession DEF AgentAlone
  <2>2. CASE JobAlone(w)
    <3>1. UNCHANGED agent
      BY <2>2, JobStepKeepsAgent DEF JobAlone
    <3> QED BY <3>1 DEF SameSession
  <2> QED BY <1>3, <2>1, <2>2
<1>4. ASSUME NEW w \in Workers, Post(w) \/ Faults(w) PROVE SameSession(agent[v], agent'[v])
  <2>1. (\E phase : Goto(w, phase)) \/ GotError(w)
    BY <1>1, <1>4 DEF Post, PostSync, Faults, TimeOut
  <2> QED BY <1>1, <2>1, SessionKept
<1>5. ASSUME NEW w \in Workers, Start(w)
      PROVE  SameSession(agent[v], agent'[v]) \/ Boots(agent[v], agent'[v])
  <2>1. /\ ~agent[w].up
        /\ agent' = [agent EXCEPT ![w] = [Stopped(@.session + 1) EXCEPT !.up = TRUE]]
    BY <1>5 DEF Start, StartAgent
  <2>2. CASE v = w
    <3>1. agent'[w] = [Stopped(agent[w].session + 1) EXCEPT !.up = TRUE]
      BY <1>1, <2>1 DEF MachinesTyped
    <3> QED BY <2>1, <2>2, <3>1 DEF Boots, Stopped
  <2>3. CASE v # w
    BY <1>1, <2>1, <2>3 DEF MachinesTyped, SameSession
  <2> QED BY <2>2, <2>3
<1>6. CASE Fail
  <2>1. PICK w \in Workers : w = req.worker
    BY <1>1, <1>6 DEF Fail, Rollback
  <2>2. GotError(w) \/ UNCHANGED agent
    BY <1>6, <2>1 DEF Fail
  <2> QED BY <1>1, <2>2, SessionKept
<1>7. CASE Reply
  <2>1. PICK w \in Workers : w = req.worker
    BY <1>1, <1>7 DEF Reply, Commit, OffersDone, Idle
  <2>2. (\E reply : GotReply(w, reply)) \/ UNCHANGED agent
    BY <1>7, <2>1 DEF Reply
  <2> QED BY <1>1, <2>2, SessionKept
<1>8. CASE \/ Operate \/ (\E r \in wire : Serve(r)) \/ RecordNext \/ StartOffers
           \/ (\E j \in Jobs : Offer(j)) \/ UNCHANGED sysVars
  BY <1>2, <1>8 DEF Operate, Serve, RecordNext, StartOffers, Offer, agentVars, sysVars
<1> QED BY <1>3, <1>4, <1>5, <1>6, <1>7, <1>8 DEF SyncNext, Server, RefuseNext, ServerFault

\* Without restarts a worker has one session.
OneSession ==
    /\ \A w \in Workers : agent[w].session = IF agent[w].up THEN 1 ELSE 0
    /\ \A r \in wire : r.session = 1
    /\ req # Idle => req.session = 1
    /\ \A r \in db.events \cup tx.events : r.session = 1

LEMMA SessionNext ==
    ASSUME NoRestarts, ExecInv, TablesTrue, OneSession, [SyncNext]_sysVars
    PROVE  OneSession'
<1>1. /\ WorkInv /\ MachinesTyped /\ PlaneTyped /\ wire \subseteq Posted
      /\ req \in {Idle} \cup Served /\ db \in Tables /\ tx \in Tables
  BY DEF ExecInv, WorkInv, PlaneTyped
<1>2. \A w \in Workers : agent'[w].session = IF agent'[w].up THEN 1 ELSE 0
  <2> SUFFICES ASSUME NEW w \in Workers
               PROVE  agent'[w].session = IF agent'[w].up THEN 1 ELSE 0
    OBVIOUS
  <2>1. agent[w].session = IF agent[w].up THEN 1 ELSE 0
    BY DEF OneSession
  <2>2. CASE SameSession(agent[w], agent'[w])
    BY <2>1, <2>2 DEF SameSession
  <2>3. CASE Boots(agent[w], agent'[w])
    BY <2>1, <2>3 DEF Boots
  <2> QED BY <2>2, <2>3, SessionsMove
<1>3. \A r \in wire' : r.session = 1
  <2>1. CASE wire' \subseteq wire
    BY <2>1 DEF OneSession
  <2>2. ASSUME NEW w \in Workers, Post(w) PROVE \A r \in wire' : r.session = 1
    <3>1. wire' = wire \cup {[worker |-> w, session |-> agent[w].session,
                              events |-> Batch(w), live |-> TRUE]}
          /\ agent[w].up
      BY <2>2 DEF Post, PostSync, At
    <3> QED BY <3>1 DEF OneSession
  <2>3. ASSUME NEW w \in Workers, Faults(w) PROVE \A r \in wire' : r.session = 1
    <3>1. \A r \in wire' : r \in wire \/ \E q \in wire : r = [q EXCEPT !.live = FALSE]
      BY <2>3 DEF Faults, TimeOut, Abandon
    <3>2. \A q \in wire : [q EXCEPT !.live = FALSE].session = q.session
      BY <1>1 DEF Posted
    <3>3. \A q \in wire : q.session = 1
      BY DEF OneSession
    <3>4. ASSUME NEW r \in wire' PROVE r.session = 1
      <4>1. CASE r \in wire
        BY <3>3, <4>1
      <4>2. CASE \E q \in wire : r = [q EXCEPT !.live = FALSE]
        <5>1. PICK q \in wire : r = [q EXCEPT !.live = FALSE]
          BY <4>2
        <5>2. [q EXCEPT !.live = FALSE].session = 1
          BY <3>2, <3>3
        <5> QED BY <5>1, <5>2
      <4> QED BY <3>1, <4>1, <4>2
    <3> QED BY <3>4
  <2>4. CASE \/ \E w \in Workers : AgentAlone(w) \/ JobAlone(w) \/ Start(w)
             \/ Operate \/ Server \/ ServerFault \/ UNCHANGED sysVars
    <3>1. wire' \subseteq wire
      BY <2>4 DEF AgentAlone, JobAlone, Start, Operate, Server, ServerFault, Serve, RecordNext,
                  RefuseNext, StartOffers, Offer, Reply, Fail, netVars, sysVars
    <3> QED BY <2>1, <3>1
  <2> QED BY <2>2, <2>3, <2>4 DEF SyncNext
<1>4. req' # Idle => req'.session = 1
  <2>1. CASE UNCHANGED req \/ req' = Idle
    BY <2>1 DEF OneSession
  <2>2. ASSUME NEW r \in wire, Serve(r) PROVE req'.session = 1
    BY <2>2 DEF Serve, BeginSync, OneSession
  <2>3. CASE StartOffers \/ \E j \in Jobs : Offer(j)
    <3>1. req \in Served /\ req # Idle
      BY <1>1, <2>3 DEF StartOffers, BeginOffers, Offer, OfferNext, Idle
    <3>2. req'.session = req.session
      BY <2>3, <3>1 DEF StartOffers, BeginOffers, Offer, OfferNext, Served
    <3> QED BY <3>1, <3>2 DEF OneSession
  <2>4. CASE \/ \E w \in Workers : AgentAlone(w) \/ JobAlone(w) \/ Post(w) \/ Start(w) \/ Faults(w)
             \/ RecordNext \/ Fail \/ Reply \/ UNCHANGED sysVars
    <3>1. UNCHANGED req \/ req' = Idle
      BY <2>4 DEF AgentAlone, JobAlone, Post, Start, Faults, Aside, RecordNext, RecordEvent,
                  Fail, Rollback, Reply, Commit, sysVars
    <3> QED BY <2>1, <3>1
  <2>5. CASE Operate
    <3>1. UNCHANGED req
      BY <2>5 DEF Operate, CreateWorker, CreateWebhookTarget, CreateJob, CancelJob, Do
    <3> QED BY <2>1, <3>1
  <2> QED BY <2>2, <2>3, <2>4, <2>5 DEF SyncNext, Server, RefuseNext, ServerFault
<1>5. \A r \in db'.events \cup tx'.events : r.session = 1
  <2>1. PlaneWrites
    BY <1>1, TablesWritten
  <2>2. \A r \in db.events \cup tx.events : r.session = 1
    BY DEF OneSession
  <2>3. ASSUME NEW e, Records(e), db' = db
        PROVE  \A r \in db'.events \cup tx'.events : r.session = 1
    <3>1. /\ tx' = Recorded(tx, req.worker, req.session, e)
          /\ Fresh(tx, req.worker, req.session, e) /\ req.session = 1
      BY <2>3 DEF Records, RecordNext, RecordEvent, OneSession
    <3>2. PICK row : row = EventRow(req.worker, req.session, e)
      OBVIOUS
    <3>3. row.session = 1
      BY <3>1, <3>2 DEF EventRow
    <3>4. tx'.events = tx.events \cup {row}
      BY <1>1, <3>1, <3>2 DEF Recorded, Tables
    <3> QED BY <2>2, <2>3, <3>3, <3>4
  <2> QED BY <2>1, <2>2, <2>3 DEF PlaneWrites, Alike
<1> QED BY <1>2, <1>3, <1>4, <1>5 DEF OneSession

LEMMA SessionInit == SyncInit => OneSession
BY DEF SyncInit, Init, AgentInit, Stopped, EmptyDatabase, OneSession

---------------------------------------------------------------------------
(* Nothing is refused *)

\* The series a job may write are ones the control plane knows.
MetricsDefined ==
    \A j \in Jobs, p \in Points \ {TooLong} : DefinedMetric(JobSpec[j].metrics, p)

\* The next event of a sync that is not recorded applies.
LEMMA NextApplies ==
    ASSUME Tails \subseteq {TRUE}, MetricsDefined, ExecInv, TruthInv, StoryInv,
           NEW w \in Workers, NEW e \in Outgoing(store[w]), Sound(files[w], e),
           e.seq = Top(tx, w) + 1
    PROVE  CanApply(tx, w, e.body)
<1>1. PICK a, kind, st, t : /\ a = e.body.attempt /\ kind = e.body.kind
                            /\ st = store[w] /\ t = Top(tx, w)
  OBVIOUS
<1>2. /\ Ordered(st) /\ Matches(tx, w, st, t) /\ e \in Messages /\ Numbered(st)
      /\ t \in Nat /\ tx \in Tables
      /\ \A m, q \in Outgoing(st) : m.seq = q.seq => m = q
  BY <1>1, WaitingFacts, TopsType DEF StoryInv, InStep, ExecInv, WorkInv, PlaneTyped
<1>3. a \in DOMAIN st.cmds
  BY <1>1, <1>2 DEF Ordered
<1>4. a \in AttemptIds /\ InTable(tx, a) /\ RowOf(tx, a).worker = w
  BY <1>1, <1>3, OwnedRows DEF RowsOf
<1>5. PICK row : row = RowOf(tx, a)
  OBVIOUS
<1>6. Assigned(tx, w, a) /\ tx.job[a[1]].attempts[a[2]] = row /\ row \in Attempts
  <2>1. tx.job[a[1]] \in JobRows
    BY <1>2, <1>4, IdIs DEF Tables
  <2>2. tx.job[a[1]].attempts[a[2]] \in Attempts
    BY <1>4, <2>1 DEF JobRows, InTable
  <2> QED BY <1>4, <1>5, <2>2 DEF Assigned, InTable, RowOf
<1>7. e.seq > t /\ e.seq \in Nat
  BY <1>1, <1>2
<1>8. EventRank(kind) # 0 => RowRank(row.state) < EventRank(kind)
  BY <1>1, <1>2, <1>5, <1>7 DEF Matches, Upcoming
<1>9. CASE kind = "attempt_accepted"
  <2>1. row.state = "offered"
    BY <1>8, <1>9 DEF EventRank, RowRank
  <2> QED BY <1>1, <1>6, <1>9, <2>1 DEF CanApply
<1>10. CASE kind = "attempt_started"
  <2>1. row.state \in {"offered", "accepted"}
    BY <1>8, <1>10 DEF EventRank, RowRank
  <2> QED BY <1>1, <1>6, <1>10, <2>1 DEF CanApply
<1>11. CASE kind = "attempt_finished"
  <2>1. row.state \in {"offered", "accepted", "running"}
    BY <1>8, <1>11 DEF EventRank, RowRank
  <2>2. row.state # "offered"
    <3> SUFFICES ASSUME row.state = "offered" PROVE FALSE
      OBVIOUS
    <3>1. PICK q \in Outgoing(st) :
             q.seq > t /\ q.body.attempt = a /\ q.body.kind = "attempt_accepted"
      BY <1>2, <1>3, <1>5 DEF Matches, ToCome
    <3>2. q.seq \in Nat /\ q.seq # e.seq
      BY <1>1, <1>2, <1>11, <3>1 DEF Numbered
    <3>3. e.seq < q.seq
      BY <1>1, <1>2, <1>7, <3>1, <3>2
    <3>4. EventRank(kind) = 3 /\ EventRank(q.body.kind) = 1
      BY <1>11, <3>1 DEF EventRank
    <3>5. EventRank(kind) < EventRank(q.body.kind)
      BY <1>1, <1>2, <3>1, <3>3, <3>4 DEF Ordered
    <3> QED BY <3>4, <3>5
  <2>3. e.body.tailFits
    <3>1. e.body.tailFits \in Tails \cup {TRUE}
      BY <1>1, <1>11 DEF Sound
    <3> QED BY <3>1
  <2> QED BY <1>1, <1>6, <1>11, <2>1, <2>2, <2>3 DEF CanApply
<1>12. CASE kind = "artifacts"
  <2>1. e.body.files # {}
    BY <1>1, <1>12 DEF Sound
  <2> QED BY <1>1, <1>6, <1>12, <2>1 DEF CanApply
<1>13. CASE kind = "metric_sample"
  <2>1. e.body.point \in Points /\ e.body.point # TooLong /\ a[1] \in Jobs
    BY <1>1, <1>2, <1>4, <1>13, IdIs DEF Sound, Messages, EventBodies
  <2>2. DefinedMetric(JobSpec[a[1]].metrics, e.body.point)
    BY <2>1 DEF MetricsDefined
  <2> QED BY <1>1, <1>6, <1>13, <2>2 DEF CanApply
<1>14. kind \in EventKinds
  BY <1>1, <1>2 DEF Messages, EventBodies, EventKinds
<1> QED BY <1>9, <1>10, <1>11, <1>12, <1>13, <1>14 DEF EventKinds

LEMMA NextRecords ==
    ASSUME Tails \subseteq {TRUE}, MetricsDefined, ExecInv, TruthInv, FilesInv, StoryInv,
           OneSession, req.phase = "events", call.rest # << >>
    PROVE  CanRecord(tx, req.worker, req.session, Head(call.rest))
<1>1. /\ ChainInv /\ Gapless(tx) /\ Serving /\ req \in Served /\ req # Idle
      /\ call.rest \in Seq(Messages)
  BY DEF ExecInv, ChainInv, WorkInv, PlaneTyped, Idle
<1>0. PICK w \in Workers : w = req.worker
  BY <1>1 DEF Served
<1>2. PICK s, e : w = req.worker /\ s = req.session /\ e = Head(call.rest)
  BY <1>0
<1>3. e \in Messages /\ UnderWay(w, e) /\ s = 1
  BY <1>1, <1>2 DEF UnderWay, OneSession
<1>4. PICK b \in 0 .. Top(tx, w) : Consecutive(call.rest, w, b)
  BY <1>1, <1>2 DEF Serving
<1>5. Top(tx, w) \in Nat /\ b \in Nat
  BY <1>1, <1>4 DEF Gapless
<1>6. e.seq = b + 1 /\ e.id = <<w, b + 1>>
  <2>1. Popped(call.rest, w, b)
    BY <1>4, <1>5, ConsecutiveTail
  <2> QED BY <1>2, <2>1 DEF Popped
<1>7. PICK n \in Nat \ {0} : n = b + 1 /\ n = e.seq /\ e.id = <<w, n>>
  BY <1>5, <1>6
<1>8. /\ n <= Top(tx, w) =>
            \E r \in tx.events : r.worker = w /\ r.seq = n /\ r.id = <<w, n>>
      /\ (\E r \in tx.events : r.worker = w /\ r.seq = n) => n <= Top(tx, w)
  BY <1>1, KnownRow
<1>9. CASE n <= Top(tx, w)
  <2>1. PICK r \in tx.events : r.worker = w /\ r.seq = n /\ r.id = <<w, n>>
    BY <1>8, <1>9
  <2>2. r.session = 1
    BY DEF OneSession
  <2>3. Replayed(tx, w, s, e)
    BY <1>3, <1>7, <2>1, <2>2 DEF Replayed, SameKey
  <2> QED BY <1>2, <1>7, <2>3 DEF CanRecord
<1>10. CASE ~(n <= Top(tx, w))
  <2>1. e.seq = Top(tx, w) + 1
    BY <1>4, <1>5, <1>7, <1>10
  <2>2. Fresh(tx, w, s, e)
    <3> SUFFICES ASSUME NEW r \in tx.events, (r.worker = w /\ r.seq = n) \/ r.id = <<w, n>>
                 PROVE  FALSE
      BY <1>7 DEF Fresh, SameKey
    <3>1. r.id = <<r.worker, r.seq>>
      BY <1>1 DEF Gapless
    <3>2. r.worker = w /\ r.seq = n
      BY <3>1
    <3> QED BY <1>8, <1>10, <3>2
  <2>3. e \in Outgoing(store[w]) /\ Sound(files[w], e)
    <3>1. Top(db, w) \in Nat /\ Top(db, w) <= Top(tx, w)
      BY <1>1, TopsType
    <3>2. ~(e.seq <= Top(db, w))
      BY <1>5, <2>1, <3>1
    <3> QED BY <1>3, <3>2 DEF StoryInv, InStep, Relayed, FilesInv, AllSound
  <2>4. CanApply(tx, w, e.body)
    BY <2>1, <2>3, NextApplies
  <2> QED BY <1>2, <1>7, <2>2, <2>4 DEF CanRecord
<1> QED BY <1>9, <1>10

LEMMA Story ==
    NoRestarts => (SyncSpec => [](ExecInv /\ TruthInv /\ FilesInv /\ StoryInv /\ OneSession))
<1> SUFFICES ASSUME NoRestarts
             PROVE  SyncSpec => [](ExecInv /\ TruthInv /\ FilesInv /\ StoryInv /\ OneSession)
  OBVIOUS
<1>1. SyncInit => ExecInv /\ TruthInv /\ FilesInv /\ StoryInv /\ OneSession
  BY ExecInit, TruthInit, FilesInit, StoryInit, SessionInit
<1>2. (ExecInv /\ TruthInv /\ FilesInv /\ StoryInv /\ OneSession) /\ [SyncNext]_sysVars
         => (ExecInv /\ TruthInv /\ FilesInv /\ StoryInv /\ OneSession)'
  <2>1. TruthInv => TablesTrue
    BY DEF TruthInv
  <2> QED BY <2>1, ExecNext, TruthNext, FilesNext, StoryNext, SessionNext
<1> QED BY <1>1, <1>2, PTL DEF SyncSpec

\* The control plane can record every event a worker sends it, so no sync is refused
\* and an outbox is never stuck behind an event that cannot be applied, however
\* answers are lost and batches repeated: where log tails fit, jobs write only series
\* that are defined and agents are not restarted (recordWorkerEvent and the guards of
\* applyWorkerEvent, against the order in which the agent enqueues).
THEOREM SyncsNeverRefused ==
    NoRestarts /\ Tails \subseteq {TRUE} /\ MetricsDefined
        => (SyncSpec => []SyncNeverRefused)
<1> SUFFICES ASSUME NoRestarts, Tails \subseteq {TRUE}, MetricsDefined
             PROVE  SyncSpec => []SyncNeverRefused
  OBVIOUS
<1>1. ASSUME ExecInv, TruthInv, FilesInv, StoryInv, OneSession PROVE SyncNeverRefused
  BY <1>1, NextRecords DEF SyncNeverRefused
<1> QED BY <1>1, Story, PTL

---------------------------------------------------------------------------
(* Commands that are sent again *)

LEMMA PhasePut ==
    ASSUME MachinesTyped, NEW w \in Workers, NEW x, agent' = [agent EXCEPT ![w] = x]
    PROVE  agent'[w].pc = x.pc
BY DEF MachinesTyped

LEMMA PhaseSet ==
    ASSUME MachinesTyped, NEW w \in Workers, NEW phase, phase # "accept",
           Goto(w, phase) \/ NextOf(w, phase) \/ GotError(w)
    PROVE  agent'[w].pc # "accept"
<1>1. agent[w] \in Agents
  BY DEF MachinesTyped
<1>2. CASE Goto(w, phase)
  <2>1. PICK x : x = [agent[w] EXCEPT !.pc = phase]
    OBVIOUS
  <2>2. agent' = [agent EXCEPT ![w] = x] /\ x.pc = phase
    BY <1>1, <1>2, <2>1 DEF Goto, Agents
  <2> QED BY <2>2, PhasePut
<1>3. CASE NextOf(w, phase)
  <2>1. PICK x : x = [agent[w] EXCEPT !.pc = phase, !.todo = Tail(@)]
    OBVIOUS
  <2>2. agent' = [agent EXCEPT ![w] = x] /\ x.pc = phase
    BY <1>1, <1>3, <2>1 DEF NextOf, Agents
  <2> QED BY <2>2, PhasePut
<1>4. CASE GotError(w)
  <2>1. PICK x : x = [agent[w] EXCEPT !.pc = "reap", !.inbox = NoReply]
    OBVIOUS
  <2>2. agent' = [agent EXCEPT ![w] = x] /\ x.pc = "reap"
    BY ZenonT(30), <1>1, <1>4, <2>1 DEF GotError, Agents
  <2> QED BY <2>2, PhasePut
<1> QED BY <1>2, <1>3, <1>4

\* Only an answer brings the agent to a reply it has not accepted.
LEMMA AgentDeparts ==
    ASSUME MachinesTyped, NEW w \in Workers, AgentStep(w)
    PROVE  agent'[w].pc # "accept"
<1>1. agent[w] \in Agents
  BY DEF MachinesTyped
<1>2. ASSUME NEW phase, phase # "accept", Goto(w, phase) \/ NextOf(w, phase) \/ GotError(w)
      PROVE  agent'[w].pc # "accept"
  BY <1>2, PhaseSet
<1>3. CASE ListRunning(w)
  <2>1. PICK list : agent' = [agent EXCEPT ![w].pc = "ingest", ![w].todo = list]
    BY <1>3 DEF ListRunning
  <2>2. PICK x : x = [agent[w] EXCEPT !.pc = "ingest", !.todo = list]
    OBVIOUS
  <2>3. agent' = [agent EXCEPT ![w] = x] /\ x.pc = "ingest"
    BY <1>1, <2>1, <2>2 DEF Agents
  <2> QED BY <2>3, PhasePut
<1>4. CASE ReadRunStatus(w)
  <2>1. PICK pc : pc = IF files[w][Now(w)].status = "none" THEN "alive" ELSE "finish"
    OBVIOUS
  <2>2. PICK x : x = [agent[w] EXCEPT !.found = files[w][Now(w)].status, !.pc = pc]
    OBVIOUS
  <2>3. agent' = [agent EXCEPT ![w] = x] /\ x.pc = pc
    BY <1>1, <1>4, <2>1, <2>2 DEF ReadRunStatus, Agents
  <2> QED BY <2>1, <2>3, PhasePut
<1>5. CASE Finish(w)
  <2>1. PICK x : x = [agent[w] EXCEPT !.pc = "ingest", !.todo = Tail(@),
                                      !.sampling = @ \ {Now(w)}]
    OBVIOUS
  <2>2. agent' = [agent EXCEPT ![w] = x] /\ x.pc = "ingest"
    BY ZenonT(30), <1>1, <1>5, <2>1 DEF Finish, Agents
  <2> QED BY <2>2, PhasePut
<1>6. CASE Acknowledge(w)
  <2>1. PICK todo : agent' = [agent EXCEPT ![w].pc = "launch", ![w].inbox = NoReply,
                                           ![w].todo = todo]
    BY <1>6 DEF Acknowledge, ListPending
  <2>2. PICK x : x = [agent[w] EXCEPT !.pc = "launch", !.inbox = NoReply, !.todo = todo]
    OBVIOUS
  <2>3. agent' = [agent EXCEPT ![w] = x] /\ x.pc = "launch"
    BY <1>1, <2>1, <2>2 DEF Agents
  <2> QED BY <2>3, PhasePut
<1>7. CASE WatchProgress(w)
  <2>1. PICK next : next = [agent[w] EXCEPT !.pc = "ingest", !.todo = Tail(@),
                                            !.sampling = @ \cup {Now(w)}]
    OBVIOUS
  <2>2. next \in [up : {next.up}, session : {next.session}, pc : {"ingest"},
                  todo : {next.todo}, found : {next.found}, inbox : {next.inbox},
                  sampling : {next.sampling}, swept : {next.swept}, seen : {next.seen}]
    BY <1>1, <2>1 DEF Agents
  <2>3. \/ agent' = [agent EXCEPT ![w] = next]
        \/ \E a, s : agent' = [agent EXCEPT ![w] = [next EXCEPT !.swept[a] = @ + 1, !.seen[a] = s]]
    <3>1. PICK a, found : a = Now(w) /\ found = Listed(w, a)
      OBVIOUS
    <3>2. \/ agent' = [agent EXCEPT ![w] = next]
          \/ agent' = [agent EXCEPT ![w] =
                [next EXCEPT !.swept[a] = @ + 1,
                             !.seen[a] = IF found = << >> THEN @ ELSE Last(found)]]
      BY <1>7, <2>1, <3>1 DEF WatchProgress
    <3>3. [next EXCEPT !.swept[a] = @ + 1,
                       !.seen[a] = IF found = << >> THEN @ ELSE Last(found)]
          = [next EXCEPT !.swept[a] = @ + 1,
                         !.seen[a] = IF found = << >> THEN next.seen[a] ELSE Last(found)]
      BY <2>2
    <3> QED BY <3>2, <3>3
  <2>4. next.pc = "ingest"
        /\ \A a, s : [next EXCEPT !.swept[a] = @ + 1, !.seen[a] = s].pc = "ingest"
    BY <2>2
  <2>5. CASE agent' = [agent EXCEPT ![w] = next]
    BY <2>4, <2>5, PhasePut
  <2>6. ASSUME NEW a, NEW s,
               agent' = [agent EXCEPT ![w] = [next EXCEPT !.swept[a] = @ + 1, !.seen[a] = s]]
        PROVE  agent'[w].pc # "accept"
    <3>1. PICK x : x = [next EXCEPT !.swept[a] = @ + 1, !.seen[a] = s]
      OBVIOUS
    <3>2. agent' = [agent EXCEPT ![w] = x] /\ x.pc = "ingest"
      BY <2>4, <2>6, <3>1
    <3> QED BY <3>2, PhasePut
  <2> QED BY <2>3, <2>5, <2>6
<1>8. CASE AcceptCommands(w)
  <2>1. GotError(w) \/ Goto(w, "ack")
    BY <1>8 DEF AcceptCommands
  <2> QED BY <1>2, <2>1
<1>9. CASE Ingest(w)
  <2>1. (UNCHANGED agent /\ At(w, "ingest")) \/ GotError(w) \/ Goto(w, "status")
    BY <1>9 DEF Ingest
  <2> QED BY <1>2, <2>1 DEF At
<1>10. CASE CheckAlive(w)
  <2>1. NextOf(w, "ingest") \/ WatchProgress(w) \/ Goto(w, "finish")
    BY <1>10 DEF CheckAlive, SignalCancel
  <2> QED BY <1>2, <1>7, <2>1
<1>11. CASE RecordStarted(w) \/ FinishUnstarted(w) \/ FailBeforeLaunch(w) \/ StartProcess(w)
  <2>1. NextOf(w, "launch") \/ Goto(w, "unstarted") \/ Goto(w, "spawned")
    BY <1>11 DEF RecordStarted, FinishUnstarted, FailBeforeLaunch, StartProcess
  <2> QED BY <1>2, <2>1
<1>12. CASE ReapWithdrawn(w) \/ AllReconciled(w) \/ Launched(w)
  <2>1. (UNCHANGED agent /\ At(w, "reap")) \/ Goto(w, "send") \/ Goto(w, "reap")
    BY <1>12 DEF ReapWithdrawn, AllReconciled, Launched
  <2> QED BY <1>2, <2>1 DEF At
<1> QED BY <1>3, <1>4, <1>5, <1>6, <1>8, <1>9, <1>10, <1>11, <1>12 DEF AgentStep

Within(es) == {es[i] : i \in DOMAIN es}

\* Events `es` and what is recorded up to t are all that st has to say.
Covers(es, t, st) == \A m \in Outgoing(st) : m \in Within(es) \/ m.seq <= t

\* An agent with an answer knows none of the commands in it.
Unheld(ag, st) ==
    ag.up /\ ag.pc = "accept" => \A r \in ag.inbox.run : r.attempt \notin DOMAIN st.cmds

RepeatInv ==
    /\ \A r \in wire : r.live => Outgoing(store[r.worker]) \subseteq Within(r.events)
    /\ call.live => Covers(call.rest, Top(tx, req.worker), store[req.worker])
    /\ req.phase = "offers" => call.rest = << >>
    /\ \A w \in Workers : Unheld(agent[w], store[w])

\* A sync carries the whole outbox.
OneBatch == \A w \in Workers : Len(store[w].outbox) <= MaxBatch

LEMMA BatchIsAll ==
    ASSUME WorkInv, NEW w \in Workers, Len(store[w].outbox) <= MaxBatch
    PROVE  Within(Batch(w)) = Outgoing(store[w])
<1>1. PICK st, out, n : st = store[w] /\ out = st.outbox /\ n = Len(out)
  OBVIOUS
<1>2. out \in Seq(Messages) /\ n \in Nat /\ DOMAIN out = 1 .. n
  BY <1>1 DEF WorkInv, MachinesTyped, Stores
<1>3. n <= MaxBatch /\ MaxBatch \in Nat
  BY <1>1, AgentAssumption
<1>4. PICK l : l = IF n < MaxBatch THEN n ELSE MaxBatch
  OBVIOUS
<1>5. l = n
  BY <1>2, <1>3, <1>4
<1>6. Batch(w) = SubSeq(out, 1, n)
  BY <1>1, <1>4, <1>5 DEF Batch
<1>7. SubSeq(out, 1, n) = out
  BY <1>1, <1>2
<1> QED BY <1>1, <1>6, <1>7 DEF Within, Outgoing

\* A step of an agent or of a job on its machine.
LEMMA RepeatMachine ==
    ASSUME ExecInv, FilesInv, RepeatInv, NEW w \in Workers, AgentAlone(w) \/ JobAlone(w)
    PROVE  RepeatInv'
<1>1. /\ MachinesTyped /\ Awaited /\ WorkInv /\ ChainInv
  BY DEF ExecInv, WorkInv
<1>2. /\ req = Idle /\ UNCHANGED <<db, tx, req, call, wire>> /\ (AgentStep(w) \/ JobStep(w))
  BY DEF AgentAlone, JobAlone, Aside, netVars
<1>3. Changes(w)
  BY <1>1, <1>2, AgentWorks, JobWorks DEF WorkInv, ChainInv, Heard
<1>4. \A v \in Workers \ {w} : store'[v] = store[v] /\ agent'[v] = agent[v]
  BY <1>1, <1>3 DEF Changes, MachinesTyped
<1>5. ~call.live /\ ~call'.live
  BY <1>1, <1>2 DEF Awaited
<1>6. req'.phase = "offers" => call'.rest = << >>
  BY <1>2 DEF RepeatInv
<1>7. \A r \in wire : r.live => At(r.worker, "wait") /\ r.worker \in Workers
  BY <1>1 DEF Awaited, WorkInv, PlaneTyped, Posted
<1>8. CASE AgentStep(w)
  <2>1. ~At(w, "wait") /\ agent'[w].pc # "accept"
    BY <1>1, <1>8, AgentStepFree, AgentDeparts
  <2>2. \A r \in wire' : r.live => Outgoing(store'[r.worker]) \subseteq Within(r.events)
    <3> SUFFICES ASSUME NEW r \in wire, r.live
                 PROVE  Outgoing(store'[r.worker]) \subseteq Within(r.events)
      BY <1>2
    <3>1. r.worker \in Workers \ {w}
      BY <1>7, <2>1
    <3> QED BY <1>4, <3>1 DEF RepeatInv
  <2>3. ASSUME NEW v \in Workers PROVE Unheld(agent'[v], store'[v])
    <3>1. CASE v = w
      BY <2>1, <3>1 DEF Unheld
    <3>2. CASE v # w
      BY <1>4, <3>2 DEF RepeatInv
    <3> QED BY <3>1, <3>2
  <2> QED BY <1>5, <1>6, <2>2, <2>3 DEF RepeatInv
<1>9. CASE JobStep(w)
  <2>1. UNCHANGED agent /\ Silent(store[w], store'[w])
    BY <1>9, JobStepKeepsAgent, JobSays DEF JobGrows
  <2>2. \A v \in Workers : /\ Outgoing(store'[v]) = Outgoing(store[v])
                           /\ DOMAIN store'[v].cmds = DOMAIN store[v].cmds
    <3> SUFFICES ASSUME NEW v \in Workers
                 PROVE  /\ Outgoing(store'[v]) = Outgoing(store[v])
                        /\ DOMAIN store'[v].cmds = DOMAIN store[v].cmds
      OBVIOUS
    <3>1. CASE v = w
      BY <2>1, <3>1 DEF Silent, SameCommands
    <3>2. CASE v # w
      BY <1>4, <3>2
    <3> QED BY <3>1, <3>2
  <2>3. \A r \in wire' : r.live => Outgoing(store'[r.worker]) \subseteq Within(r.events)
    BY <1>2, <1>7, <2>2 DEF RepeatInv
  <2>4. \A v \in Workers : Unheld(agent'[v], store'[v])
    BY <2>1, <2>2 DEF RepeatInv, Unheld
  <2> QED BY <1>5, <1>6, <2>3, <2>4 DEF RepeatInv
<1> QED BY <1>2, <1>8, <1>9

\* The agent of w is where no answer waits, the others are where they were.
LEMMA UnheldPut ==
    ASSUME MachinesTyped, RepeatInv, NEW w \in Workers, NEW x, x.pc # "accept",
           agent' = [agent EXCEPT ![w] = x], UNCHANGED store
    PROVE  \A v \in Workers : Unheld(agent'[v], store'[v])
<1> SUFFICES ASSUME NEW v \in Workers PROVE Unheld(agent'[v], store'[v])
  OBVIOUS
<1>1. CASE v = w
  <2>1. agent'[v].pc # "accept"
    BY <1>1, PhasePut
  <2> QED BY <2>1 DEF Unheld
<1>2. CASE v # w
  <2>1. agent'[v] = agent[v] /\ store'[v] = store[v]
    BY <1>2 DEF MachinesTyped
  <2> QED BY <2>1 DEF RepeatInv
<1> QED BY <1>1, <1>2

LEMMA UnheldSet ==
    ASSUME MachinesTyped, RepeatInv, NEW w \in Workers, UNCHANGED store,
           Goto(w, "wait") \/ GotError(w) \/ UNCHANGED agent
    PROVE  \A v \in Workers : Unheld(agent'[v], store'[v])
<1>1. agent[w] \in Agents
  BY DEF MachinesTyped
<1>2. CASE UNCHANGED agent
  BY <1>2 DEF RepeatInv
<1>3. CASE Goto(w, "wait")
  <2>1. PICK x : x = [agent[w] EXCEPT !.pc = "wait"]
    OBVIOUS
  <2>2. agent' = [agent EXCEPT ![w] = x] /\ x.pc # "accept"
    BY <1>1, <1>3, <2>1 DEF Goto, Agents
  <2> QED BY <2>2, UnheldPut
<1>4. CASE GotError(w)
  <2>1. PICK x : x = [agent[w] EXCEPT !.pc = "reap", !.inbox = NoReply]
    OBVIOUS
  <2>2. agent' = [agent EXCEPT ![w] = x] /\ x.pc # "accept"
    BY <1>1, <1>4, <2>1 DEF GotError, Agents
  <2> QED BY <2>2, UnheldPut
<1> QED BY <1>2, <1>3, <1>4

\* A worker posts, starts or gives up.
LEMMA RepeatWorker ==
    ASSUME NoRestarts, ExecInv, OneBatch, RepeatInv, [SyncNext]_sysVars,
           NEW w \in Workers, Post(w) \/ Start(w) \/ Faults(w)
    PROVE  RepeatInv'
<1>1. /\ MachinesTyped /\ Awaited /\ WorkInv /\ ~Fault("crash") /\ ~Fault("reboot")
  BY StaysUnbroken DEF ExecInv, WorkInv
<1>2. /\ req = Idle /\ UNCHANGED <<tx, req, call, store>>
  BY <1>1 DEF Post, PostSync, Start, StartAgent, Faults, TimeOut, Aside, netVars
<1>3. ~call.live /\ ~call'.live
  BY <1>1, <1>2 DEF Awaited
<1>4. req'.phase = "offers" => call'.rest = << >>
  BY <1>2 DEF RepeatInv
<1>5. \A r \in wire' : r.live => Outgoing(store'[r.worker]) \subseteq Within(r.events)
  <2>1. CASE Post(w)
    <3>1. PICK es, new : es = Batch(w)
                         /\ new = [worker |-> w, session |-> agent[w].session, events |-> es,
                                   live |-> TRUE]
      OBVIOUS
    <3>2. wire' = wire \cup {new} /\ new.worker = w /\ new.events = es
      BY <2>1, <3>1 DEF Post, PostSync
    <3>3. Within(es) = Outgoing(store[w])
      BY <1>1, <3>1, BatchIsAll DEF OneBatch
    <3> QED BY <1>2, <3>2, <3>3 DEF RepeatInv
  <2>2. CASE Start(w)
    BY <1>2, <2>2 DEF Start, netVars, RepeatInv
  <2>3. CASE Faults(w)
    <3>1. Abandon(w)
      BY <2>3 DEF Faults, TimeOut
    <3>2. \A r \in wire' : r \in wire \/ \E q \in wire : r = [q EXCEPT !.live = FALSE]
      BY <3>1 DEF Abandon
    <3>3. \A q \in wire : ~[q EXCEPT !.live = FALSE].live
      BY <1>1 DEF WorkInv, PlaneTyped, Posted
    <3>4. \A r \in wire' : r.live => r \in wire
      BY <3>2, <3>3
    <3> QED BY <1>2, <3>4 DEF RepeatInv
  <2> QED BY <2>1, <2>2, <2>3
<1>6. \A v \in Workers : Unheld(agent'[v], store'[v])
  <2>1. CASE Post(w) \/ Faults(w)
    <3>1. Goto(w, "wait") \/ GotError(w)
      BY <1>1, <2>1 DEF Post, PostSync, Faults, TimeOut
    <3> QED BY <1>1, <1>2, <3>1, UnheldSet
  <2>2. CASE Start(w)
    <3>1. PICK x : x = [Stopped(agent[w].session + 1) EXCEPT !.up = TRUE]
      OBVIOUS
    <3>2. x.pc # "accept"
      BY <3>1 DEF Stopped
    <3>3. agent' = [agent EXCEPT ![w] = x]
      BY <1>1, <2>2, <3>1 DEF Start, StartAgent, MachinesTyped
    <3> QED BY <1>1, <1>2, <3>2, <3>3, UnheldPut
  <2> QED BY <2>1, <2>2
<1> QED BY <1>3, <1>4, <1>5, <1>6 DEF RepeatInv

\* Recording an event makes it known.
LEMMA RecordTells ==
    ASSUME ExecInv, RecordNext, NEW w \in Workers, w = req.worker, NEW st, Numbered(st),
           Covers(call.rest, Top(tx, w), st)
    PROVE  Covers(call'.rest, Top(tx', w), st)
<1>1. /\ ChainInv /\ Gapless(tx) /\ Serving /\ call.rest \in Seq(Messages)
      /\ call \in [live : BOOLEAN, rest : Seq(Messages)]
      /\ req.phase = "events" /\ call.rest # << >>
      /\ tx' = Recorded(tx, w, req.session, Head(call.rest))
      /\ call' = [call EXCEPT !.rest = Tail(@)]
  BY DEF ExecInv, ChainInv, WorkInv, PlaneTyped, RecordNext, RecordEvent
<1>2. PICK d, d2, s, es, rest, e :
          /\ d = tx /\ d2 = tx' /\ s = req.session /\ es = call.rest /\ rest = call'.rest
          /\ e = Head(es)
  OBVIOUS
<1>3. /\ Gapless(d) /\ es \in Seq(Messages) /\ es # << >> /\ rest = Tail(es)
      /\ d2 = Recorded(d, w, s, e)
  BY <1>1, <1>2
<1>4. PICK b \in 0 .. Top(d, w) : Consecutive(es, w, b)
  BY <1>1, <1>2 DEF Serving
<1>5. Top(d, w) \in Nat /\ b \in Nat
  BY <1>3, <1>4 DEF Gapless
<1>6. e.seq = b + 1 /\ e.id = <<w, b + 1>>
  <2>1. Popped(es, w, b)
    BY <1>3, <1>4, <1>5, ConsecutiveTail
  <2> QED BY <1>2, <2>1 DEF Popped
<1>7. /\ Gapless(d2) /\ Top(d2, w) >= Top(d, w) /\ Top(d2, w) >= b + 1
  BY <1>3, <1>6, RecordedGapless
<1>8. Top(d2, w) \in Nat
  BY <1>7 DEF Gapless
<1>9. ASSUME NEW i \in DOMAIN es PROVE es[i] = e \/ es[i] \in Within(rest)
  <2>1. CASE i = 1
    BY <1>2, <1>3, <2>1
  <2>2. CASE i # 1
    <3>1. i - 1 \in DOMAIN rest /\ rest[i - 1] = es[i]
      BY <1>3, <2>2
    <3> QED BY <3>1 DEF Within
  <2> QED BY <2>1, <2>2
<1>10. ASSUME NEW m \in Outgoing(st) PROVE m \in Within(rest) \/ m.seq <= Top(d2, w)
  <2>1. m.seq \in Nat
    BY DEF Numbered
  <2>2. CASE m.seq <= Top(d, w)
    BY <1>5, <1>7, <1>8, <2>1, <2>2
  <2>3. CASE m \in Within(es)
    <3>1. m = e \/ m \in Within(rest)
      BY <1>9, <2>3 DEF Within
    <3>2. m = e => m.seq <= Top(d2, w)
      BY <1>5, <1>6, <1>7, <1>8
    <3> QED BY <3>1, <3>2
  <2> QED BY <1>2, <2>2, <2>3 DEF Covers
<1> QED BY <1>2, <1>10 DEF Covers

\* The answer to a sync that told everything offers only what the worker lacks.
LEMMA AnswersUnknown ==
    ASSUME ExecInv, TruthInv, StoryInv, RepeatInv, call.live, req.phase = "offers",
           NEW w \in Workers, w = req.worker, NEW r \in Answer(tx, w, req.session).run
    PROVE  r.attempt \notin DOMAIN store[w].cmds
<1> SUFFICES ASSUME r.attempt \in DOMAIN store[w].cmds PROVE FALSE
  OBVIOUS
<1>1. PICK a : a = r.attempt
  OBVIOUS
<1>2. RowOf(tx, a).state = "offered"
  BY <1>1 DEF Answer, RowOf
<1>3. PICK q \in Outgoing(store[w]) : q.seq > Top(tx, w)
  BY <1>1, <1>2 DEF StoryInv, InStep, Matches, ToCome
<1>4. call.rest = << >> /\ Covers(call.rest, Top(tx, w), store[w])
  BY DEF RepeatInv
<1>5. q.seq <= Top(tx, w)
  BY <1>4 DEF Covers, Within
<1>6. q.seq \in Nat /\ Top(tx, w) \in Nat
  BY WaitingFacts, TopsType DEF Numbered, ExecInv
<1> QED BY <1>3, <1>5, <1>6

\* A step of the server.
LEMMA RepeatServer ==
    ASSUME ExecInv, TruthInv, StoryInv, RepeatInv, Server \/ ServerFault
    PROVE  RepeatInv'
<1>1. /\ MachinesTyped /\ Awaited /\ WorkInv /\ UNCHANGED store
      /\ req # Idle => req.worker \in Workers
  BY DEF ExecInv, WorkInv, PlaneTyped, Served, Server, ServerFault, Serve, RecordNext,
         RefuseNext, StartOffers, Offer, Reply, Fail, agentVars
<1>2. ASSUME wire' \subseteq wire
      PROVE  \A r \in wire' : r.live => Outgoing(store'[r.worker]) \subseteq Within(r.events)
  BY <1>1, <1>2 DEF RepeatInv
<1>3. ASSUME UNCHANGED agent PROVE \A v \in Workers : Unheld(agent'[v], store'[v])
  BY <1>1, <1>3 DEF RepeatInv
<1>4. ASSUME NEW r \in wire, Serve(r) PROVE RepeatInv'
  <2>1. /\ wire' \subseteq wire /\ UNCHANGED agent /\ req'.phase = "events"
        /\ req'.worker = r.worker /\ call'.live = r.live /\ call'.rest = r.events
    BY <1>4 DEF Serve, BeginSync, agentVars
  <2>2. r.live => Covers(r.events, Top(tx', r.worker), store[r.worker])
    BY DEF RepeatInv, Covers
  <2> QED BY <1>1, <1>2, <1>3, <2>1, <2>2 DEF RepeatInv
<1>5. CASE RecordNext
  <2>1. /\ wire' \subseteq wire /\ UNCHANGED <<agent, req>> /\ req.phase = "events" /\ req # Idle
        /\ call' = [call EXCEPT !.rest = Tail(@)]
    BY <1>5 DEF RecordNext, RecordEvent, agentVars, Idle
  <2>2. call'.live = call.live
    BY <1>1, <2>1 DEF WorkInv, PlaneTyped
  <2>3. PICK w \in Workers : w = req.worker
    BY <1>1, <2>1
  <2>4. Numbered(store[w])
    BY WaitingFacts
  <2>5. call.live => Covers(call'.rest, Top(tx', w), store[w])
    BY <1>5, <2>3, <2>4, RecordTells DEF RepeatInv
  <2> QED BY <1>1, <1>2, <1>3, <2>1, <2>2, <2>3, <2>5 DEF RepeatInv
<1>6. CASE Fail
  <2>1. req # Idle /\ req' = Idle /\ ~call'.live /\ UNCHANGED wire
    BY <1>6 DEF Fail, Rollback, NoCall
  <2>2. req'.phase # "offers"
    BY <2>1 DEF Idle
  <2>3. PICK w \in Workers : w = req.worker
    BY <1>1, <2>1
  <2>4. GotError(w) \/ UNCHANGED agent
    BY <1>6, <2>3 DEF Fail
  <2>5. \A v \in Workers : Unheld(agent'[v], store'[v])
    BY <1>1, <2>4, UnheldSet
  <2> QED BY <1>2, <2>1, <2>2, <2>5 DEF RepeatInv
<1>7. CASE StartOffers \/ \E j \in Jobs : Offer(j)
  <2>1. /\ UNCHANGED <<wire, call, agent>> /\ req # Idle
        /\ call.rest = << >> \/ req.phase = "offers"
    BY <1>7 DEF StartOffers, BeginOffers, Offer, OfferNext, agentVars, netVars, Idle
  <2>2. req'.worker = req.worker /\ (tx' = tx \/ tx'.events = tx.events)
    BY <1>1, <1>7, OffersWrites
  <2>3. \A w : Top(tx', w) = Top(tx, w)
    BY <2>2, SameTop
  <2>4. call.rest = << >>
    BY <2>1 DEF RepeatInv
  <2> QED BY <1>1, <1>2, <1>3, <2>1, <2>2, <2>3, <2>4 DEF RepeatInv
<1>8. CASE Reply
  <2>1. req.phase = "offers" /\ req' = Idle /\ ~call'.live /\ UNCHANGED wire
    BY <1>8 DEF Reply, Commit, OffersDone, NoCall
  <2>2. req # Idle /\ req'.phase # "offers"
    BY <2>1 DEF Idle
  <2>3. PICK w \in Workers : w = req.worker
    BY <1>1, <2>2
  <2>4. ASSUME call.live PROVE \A v \in Workers : Unheld(agent'[v], store'[v])
    <3>1. PICK reply : reply = Answer(tx, w, req.session)
      OBVIOUS
    <3>2. GotReply(w, reply)
      BY <1>8, <2>3, <2>4, <3>1 DEF Reply
    <3>3. agent[w] \in Agents
      BY <1>1 DEF MachinesTyped
    <3>4. PICK x : x = [agent[w] EXCEPT !.pc = "accept", !.inbox = reply]
      OBVIOUS
    <3>5. agent' = [agent EXCEPT ![w] = x] /\ x.inbox = reply
      BY <3>2, <3>3, <3>4 DEF GotReply, Agents
    <3>6. agent'[w] = x /\ \A v \in Workers \ {w} : agent'[v] = agent[v]
      BY <1>1, <3>5 DEF MachinesTyped
    <3>7. \A r \in reply.run : r.attempt \notin DOMAIN store[w].cmds
      BY <2>1, <2>3, <2>4, <3>1, AnswersUnknown
    <3>8. Unheld(agent'[w], store'[w])
      BY <1>1, <3>5, <3>6, <3>7 DEF Unheld
    <3>9. \A v \in Workers \ {w} : Unheld(agent'[v], store'[v])
      BY <1>1, <3>6 DEF RepeatInv
    <3> QED BY <3>8, <3>9
  <2>5. ~call.live => UNCHANGED agent
    BY <1>8 DEF Reply
  <2> QED BY <1>2, <1>3, <2>1, <2>2, <2>4, <2>5 DEF RepeatInv
<1> QED BY <1>4, <1>5, <1>6, <1>7, <1>8 DEF Server, RefuseNext, ServerFault

LEMMA RepeatNext ==
    ASSUME NoRestarts, ExecInv, TruthInv, FilesInv, StoryInv, OneBatch, RepeatInv,
           [SyncNext]_sysVars
    PROVE  RepeatInv'
<1>1. CASE Operate \/ UNCHANGED sysVars
  <2>1. UNCHANGED <<req, store, agent, wire, call>> /\ (req = Idle \/ UNCHANGED tx)
    BY <1>1 DEF Operate, CreateWorker, CreateWebhookTarget, CreateJob, CancelJob, Do,
                agentVars, netVars, sysVars
  <2>2. req = Idle => ~call.live
    BY DEF ExecInv, WorkInv, Awaited
  <2> QED BY <2>1, <2>2 DEF RepeatInv
<1> QED BY <1>1, RepeatMachine, RepeatWorker, RepeatServer DEF SyncNext

LEMMA RepeatInit == SyncInit => RepeatInv
<1> SUFFICES ASSUME SyncInit PROVE RepeatInv
  OBVIOUS
<1>1. wire = {} /\ ~call.live /\ req.phase # "offers"
  BY DEF SyncInit, Init, NoCall, Idle
<1>2. \A w \in Workers : DOMAIN store[w].cmds = {}
  BY DEF SyncInit, AgentInit
<1> QED BY <1>1, <1>2 DEF RepeatInv, Unheld

\* A command that a worker knows is not offered to it again, so no answer conflicts
\* with what AcceptCommands stored, whatever is lost, repeated or canceled: where the
\* batch of a sync holds the whole outbox and agents are not restarted (offeredCommands
\* and the comparison in AcceptCommands).
THEOREM CommandsNeverConflict ==
    NoRestarts => (SyncSpec /\ []OneBatch => []CommandsRepeatable)
<1> SUFFICES ASSUME NoRestarts PROVE SyncSpec /\ []OneBatch => []CommandsRepeatable
  OBVIOUS
<1>1. SyncInit => RepeatInv
  BY RepeatInit
<1>2. /\ ExecInv /\ TruthInv /\ FilesInv /\ StoryInv /\ OneSession
      /\ OneBatch /\ RepeatInv /\ [SyncNext]_sysVars
      => RepeatInv'
  BY RepeatNext
<1>3. RepeatInv => CommandsRepeatable
  BY DEF RepeatInv, Unheld, CommandsRepeatable, CommandsChanged, At
<1> QED BY <1>1, <1>2, <1>3, Story, PTL DEF SyncSpec
---------------------------------------------------------------------------
(* Samples and the lines they were read from *)

Readable(lines, o) == {l \in 1 .. o : lines[l] # Unreadable}

\* Sample i of S was line f[i], event m of U, still to come, was line g[m], and these are
\* the lines R, in the order of the samples and then of the events.
LinedUp(samples, S, U, lines, R, f, g) ==
    /\ f \in [S -> R] /\ g \in [U -> R]
    /\ \A i \in S : samples[i].point = lines[f[i]]
    /\ \A m \in U : m.body.point = lines[g[m]]
    /\ \A i, k \in S : i < k => f[i] < f[k]
    /\ \A m, q \in U : m.seq < q.seq => g[m] < g[q]
    /\ \A i \in S, m \in U : f[i] < g[m]
    /\ \A l \in R : (\E i \in S : f[i] = l) \/ (\E m \in U : g[m] = l)

Traced(samples, S, U, lines, R) == \E f, g : LinedUp(samples, S, U, lines, R, f, g)

LEMMA TracedNone == \A samples, lines : Traced(samples, {}, {}, lines, {})
<1> SUFFICES ASSUME NEW samples, NEW lines PROVE Traced(samples, {}, {}, lines, {})
  OBVIOUS
<1>1. PICK f : f = [i \in {} |-> i]
  OBVIOUS
<1>2. f \in [{} -> {}]
  BY <1>1
<1>3. LinedUp(samples, {}, {}, lines, {}, f, f)
  BY <1>2 DEF LinedUp
<1> QED BY <1>3 DEF Traced

\* Nothing changes for the lines R.
LEMMA TracedSame ==
    ASSUME NEW samples, NEW samples2, NEW S, NEW U, NEW lines, NEW lines2, NEW R,
           Traced(samples, S, U, lines, R),
           \A i \in S : samples2[i] = samples[i], \A l \in R : lines2[l] = lines[l]
    PROVE  Traced(samples2, S, U, lines2, R)
<1>1. PICK f, g : LinedUp(samples, S, U, lines, R, f, g)
  BY DEF Traced
<1>2. \A i \in S : f[i] \in R
  BY <1>1 DEF LinedUp
<1>3. \A m \in U : g[m] \in R
  BY <1>1 DEF LinedUp
<1>4. LinedUp(samples2, S, U, lines2, R, f, g)
  BY <1>1, <1>2, <1>3 DEF LinedUp
<1> QED BY <1>4 DEF Traced

\* A further line becomes the last event.
LEMMA TracedReads ==
    ASSUME NEW samples, NEW S, NEW U, NEW lines, NEW R \in SUBSET Nat,
           Traced(samples, S, U, lines, R),
           NEW e, NEW l \in Nat, e.body.point = lines[l], \A k \in R : k < l,
           e.seq \in Nat, \A m \in U : m.seq \in Nat /\ m.seq < e.seq
    PROVE  Traced(samples, S, U \cup {e}, lines, R \cup {l})
<1>1. PICK f, g : LinedUp(samples, S, U, lines, R, f, g)
  BY DEF Traced
<1>2. PICK V, Q, h : /\ V = U \cup {e} /\ Q = R \cup {l}
                     /\ h = [m \in V |-> IF m = e THEN l ELSE g[m]]
  OBVIOUS
<1>3. e \notin U
  OBVIOUS
<1>4. /\ h \in [V -> Q] /\ h[e] = l /\ \A m \in U : h[m] = g[m] /\ g[m] \in R
  BY <1>1, <1>2, <1>3 DEF LinedUp
<1>5. f \in [S -> Q] /\ \A i \in S : f[i] \in R
  BY <1>1, <1>2 DEF LinedUp
<1>6. \A m, q \in V : m.seq < q.seq => h[m] < h[q]
  <2> SUFFICES ASSUME NEW m \in V, NEW q \in V, m.seq < q.seq PROVE h[m] < h[q]
    OBVIOUS
  <2>1. CASE m \in U /\ q \in U
    BY <1>1, <1>4, <2>1 DEF LinedUp
  <2>2. CASE m \in U /\ q = e
    BY <1>4, <2>2
  <2>3. CASE m = e
    BY <1>2, <2>3
  <2> QED BY <1>2, <2>1, <2>2, <2>3
<1>7. \A i \in S, m \in V : f[i] < h[m]
  BY <1>1, <1>2, <1>4, <1>5 DEF LinedUp
<1>8. \A m \in V : m.body.point = lines[h[m]]
  BY <1>1, <1>2, <1>4 DEF LinedUp
<1>9. \A k \in Q : (\E i \in S : f[i] = k) \/ (\E m \in V : h[m] = k)
  BY <1>1, <1>2, <1>4 DEF LinedUp
<1>10. LinedUp(samples, S, V, lines, Q, f, h)
  BY <1>1, <1>4, <1>5, <1>6, <1>7, <1>8, <1>9 DEF LinedUp
<1> QED BY <1>2, <1>10 DEF Traced

\* The first event becomes the last sample.
LEMMA TracedRecords ==
    ASSUME NEW samples, NEW samples2, NEW S \in SUBSET Nat, NEW U, NEW lines,
           NEW R \in SUBSET Nat, Traced(samples, S, U, lines, R),
           NEW e \in U, NEW n \in Nat, \A i \in S : i < n /\ samples2[i] = samples[i],
           samples2[n].point = e.body.point,
           \A m \in U : m.seq \in Nat /\ (m = e \/ e.seq < m.seq)
    PROVE  Traced(samples2, S \cup {n}, U \ {e}, lines, R)
<1>1. PICK f, g : LinedUp(samples, S, U, lines, R, f, g)
  BY DEF Traced
<1>2. PICK S2, V, h, k : /\ S2 = S \cup {n} /\ V = U \ {e}
                         /\ h = [i \in S2 |-> IF i = n THEN g[e] ELSE f[i]]
                         /\ k = [m \in V |-> g[m]]
  OBVIOUS
<1>3. n \notin S
  OBVIOUS
<1>4. g[e] \in R /\ \A m \in U : g[m] \in R
  BY <1>1 DEF LinedUp
<1>5. h \in [S2 -> R] /\ h[n] = g[e] /\ \A i \in S : h[i] = f[i] /\ f[i] \in R
  BY <1>1, <1>2, <1>3, <1>4 DEF LinedUp
<1>6. k \in [V -> R] /\ \A m \in V : k[m] = g[m]
  BY <1>2, <1>4
<1>7. \A i \in S2 : samples2[i].point = lines[h[i]]
  BY <1>1, <1>2, <1>5 DEF LinedUp
<1>8. \A i, j \in S2 : i < j => h[i] < h[j]
  <2> SUFFICES ASSUME NEW i \in S2, NEW j \in S2, i < j PROVE h[i] < h[j]
    OBVIOUS
  <2>1. CASE i \in S /\ j \in S
    BY <1>1, <1>5, <2>1 DEF LinedUp
  <2>2. CASE i \in S /\ j = n
    BY <1>1, <1>5, <2>2 DEF LinedUp
  <2>3. CASE i = n
    BY <1>2, <2>3
  <2> QED BY <1>2, <2>1, <2>2, <2>3
<1>9. \A m, q \in V : m.seq < q.seq => k[m] < k[q]
  BY <1>1, <1>2, <1>6 DEF LinedUp
<1>10. \A i \in S2, m \in V : h[i] < k[m]
  <2> SUFFICES ASSUME NEW i \in S2, NEW m \in V PROVE h[i] < k[m]
    OBVIOUS
  <2>1. m \in U /\ e.seq < m.seq /\ k[m] = g[m]
    BY <1>2, <1>6
  <2>2. CASE i \in S
    BY <1>1, <1>5, <2>1, <2>2 DEF LinedUp
  <2>3. CASE i = n
    BY <1>1, <1>5, <2>1, <2>3 DEF LinedUp
  <2> QED BY <1>2, <2>2, <2>3
<1>11. \A m \in V : m.body.point = lines[k[m]]
  BY <1>1, <1>2, <1>6 DEF LinedUp
<1>12. \A l \in R : (\E i \in S2 : h[i] = l) \/ (\E m \in V : k[m] = l)
  <2> SUFFICES ASSUME NEW l \in R PROVE (\E i \in S2 : h[i] = l) \/ (\E m \in V : k[m] = l)
    OBVIOUS
  <2>1. CASE \E i \in S : f[i] = l
    BY <1>2, <1>5, <2>1
  <2>2. CASE g[e] = l
    BY <1>2, <1>5, <2>2
  <2>3. CASE \E m \in V : g[m] = l
    BY <1>6, <2>3
  <2> QED BY <1>1, <1>2, <2>1, <2>2, <2>3 DEF LinedUp
<1>13. LinedUp(samples2, S2, V, lines, R, h, k)
  BY <1>5, <1>6, <1>7, <1>8, <1>9, <1>10, <1>11, <1>12 DEF LinedUp
<1> QED BY <1>2, <1>13 DEF Traced

\* The samples of attempt a that are still to come after the t-th event.
Unsent(st, a, t) ==
    {m \in Outgoing(st) : /\ m.body.kind = "metric_sample" /\ m.body.attempt = a
                          /\ m.seq > t}

TracedRow(d, a, st, fs, t) ==
    Traced(d.job[a[1]].samples, SamplesFor(d.job[a[1]].samples, a[2]), Unsent(st, a, t),
           fs[a].lines, Readable(fs[a].lines, Offset(st, a)))

Tracked(d, w, st, fs, t) ==
    \A a \in AttemptIds : InTable(d, a) /\ RowOf(d, a).worker = w => TracedRow(d, a, st, fs, t)

\* No more is read than is there.
ReadSoFar(st, fs) ==
    \A a \in AttemptIds : Offset(st, a) \in Nat /\ Offset(st, a) <= Len(fs[a].lines)

\* What is still to come stays to come.
StaysOut(st, st2, t) == \A m \in Outgoing(st) : m.seq > t => m \in Outgoing(st2)

LEMMA UnsentSame ==
    ASSUME NEW st, NEW st2, ReadsNone(st, st2), NEW t, StaysOut(st, st2, t), NEW a
    PROVE  Unsent(st2, a, t) = Unsent(st, a, t)
BY DEF Unsent, ReadsNone, StaysOut

LEMMA ReadableSame ==
    ASSUME NEW lines, Len(lines) \in Nat, NEW lines2, Longer(lines, lines2),
           NEW o \in Nat, o <= Len(lines)
    PROVE  /\ Readable(lines2, o) = Readable(lines, o)
           /\ \A l \in Readable(lines, o) : lines2[l] = lines[l]
<1>1. \A l \in 1 .. o : lines2[l] = lines[l]
  BY DEF Longer
<1> QED BY <1>1 DEF Readable

\* No line is read, and lines may be added.
LEMMA TrackedAside ==
    ASSUME NEW d, NEW w, NEW st, NEW st2, NEW fs \in [AttemptIds -> FileRows], NEW fs2, NEW t,
           Tracked(d, w, st, fs, t), ReadSoFar(st, fs),
           ReadsNone(st, st2), StaysOut(st, st2, t), LinesGrow(fs, fs2)
    PROVE  Tracked(d, w, st2, fs2, t)
<1> SUFFICES ASSUME NEW a \in AttemptIds, InTable(d, a), RowOf(d, a).worker = w
             PROVE  TracedRow(d, a, st2, fs2, t)
  BY DEF Tracked
<1>1. PICK samples, S, U, lines, lines2, o, R :
          /\ samples = d.job[a[1]].samples /\ S = SamplesFor(samples, a[2])
          /\ U = Unsent(st, a, t) /\ lines = fs[a].lines /\ lines2 = fs2[a].lines
          /\ o = Offset(st, a) /\ R = Readable(lines, o)
  OBVIOUS
<1>2. Traced(samples, S, U, lines, R)
  BY <1>1 DEF Tracked, TracedRow
<1>3. /\ Len(lines) \in Nat /\ Longer(lines, lines2) /\ o \in Nat /\ o <= Len(lines)
  BY <1>1 DEF FileRows, LinesGrow, ReadSoFar
<1>4. Readable(lines2, o) = R /\ \A l \in R : lines2[l] = lines[l]
  BY <1>1, <1>3, ReadableSame
<1>5. Traced(samples, S, U, lines2, R)
  BY <1>2, <1>4, TracedSame
<1>6. Unsent(st2, a, t) = U /\ Offset(st2, a) = o
  BY <1>1, UnsentSame DEF ReadsNone
<1> QED BY <1>1, <1>4, <1>5, <1>6 DEF TracedRow

\* A line is read.
LEMMA TrackedReads ==
    ASSUME NEW d, NEW w, NEW st, NEW st2, NEW fs \in [AttemptIds -> FileRows],
           NEW t \in Nat, t < st.next, Numbered(st),
           Tracked(d, w, st, fs, t), NEW b \in AttemptIds, NEW n \in Nat,
           ReadsLine(st, fs, st2, b, n)
    PROVE  Tracked(d, w, st2, fs, t)
<1> SUFFICES ASSUME NEW a \in AttemptIds, InTable(d, a), RowOf(d, a).worker = w
             PROVE  TracedRow(d, a, st2, fs, t)
  BY DEF Tracked
<1>1. PICK samples, S, U, lines, o, R :
          /\ samples = d.job[a[1]].samples /\ S = SamplesFor(samples, a[2])
          /\ U = Unsent(st, a, t) /\ lines = fs[a].lines
          /\ o = Offset(st, a) /\ R = Readable(lines, o)
  OBVIOUS
<1>2. Traced(samples, S, U, lines, R)
  BY <1>1 DEF Tracked, TracedRow
<1>3. CASE a # b
  <2>1. Offset(st2, a) = o
    BY <1>1, <1>3 DEF ReadsLine
  <2>2. \A m : m.body.attempt = a => (m \in Outgoing(st2) <=> m \in Outgoing(st))
    BY <1>3 DEF ReadsLine, Tells
  <2>3. Unsent(st2, a, t) = U
    BY <1>1, <2>2 DEF Unsent
  <2> QED BY <1>1, <1>2, <2>1, <2>3 DEF TracedRow
<1>4. CASE a = b
  <2>1. n = o + 1 /\ o \in Nat /\ Offset(st2, a) = n
    BY <1>1, <1>4 DEF ReadsLine
  <2>2. 1 .. n = (1 .. o) \cup {n}
    BY <2>1
  <2>3. CASE lines[n] = Unreadable /\ Outgoing(st2) = Outgoing(st)
    <3>1. Readable(lines, n) = R
      BY <1>1, <2>2, <2>3 DEF Readable
    <3>2. Unsent(st2, a, t) = U
      BY <1>1, <2>3 DEF Unsent
    <3> QED BY <1>1, <1>2, <2>1, <3>1, <3>2 DEF TracedRow
  <2>4. ASSUME NEW e, lines[n] # Unreadable, Outgoing(st2) = Outgoing(st) \cup {e},
               e.seq = st.next, Tells(e, a, n, lines)
        PROVE  TracedRow(d, a, st2, fs, t)
    <3>1. Readable(lines, n) = R \cup {n}
      BY <1>1, <2>2, <2>4 DEF Readable
    <3>2. Unsent(st2, a, t) = U \cup {e}
      BY <1>1, <2>4 DEF Unsent, Tells
    <3>3. R \in SUBSET Nat /\ \A k \in R : k < n
      BY <1>1, <2>1 DEF Readable
    <3>4. e.seq \in Nat /\ \A m \in U : m.seq \in Nat /\ m.seq < e.seq
      BY <1>1, <2>4 DEF Unsent, Numbered
    <3>5. e.body.point = lines[n]
      BY <2>4 DEF Tells
    <3>6. Traced(samples, S, U \cup {e}, lines, R \cup {n})
      BY <1>2, <3>3, <3>4, <3>5, TracedReads
    <3> QED BY <1>1, <2>1, <3>1, <3>2, <3>6 DEF TracedRow
  <2> QED BY <1>1, <1>4, <2>3, <2>4 DEF ReadsLine
<1> QED BY <1>3, <1>4

LEMMA SaysStays ==
    ASSUME NEW w, Says(w), Numbered(store[w]), NEW t \in Nat,
           agent[w].inbox.through \in Nat, agent[w].inbox.through <= t
    PROVE  StaysOut(store[w], store'[w], t)
<1> SUFFICES ASSUME NEW m \in Outgoing(store[w]), m.seq > t PROVE m \in Outgoing(store'[w])
  BY DEF StaysOut
<1>1. m.seq \in Nat
  BY DEF Numbered
<1>2. CASE Drops(store[w], agent[w].inbox.through, store'[w])
  BY <1>1, <1>2 DEF Drops
<1>3. CASE ~Drops(store[w], agent[w].inbox.through, store'[w])
  BY <1>3 DEF Says, Silent, Speaks, Takes
<1> QED BY <1>2, <1>3

LEMMA ReadSoFarMoves ==
    ASSUME NEW w, files[w] \in [AttemptIds -> FileRows], files'[w] \in [AttemptIds -> FileRows],
           ReadSoFar(store[w], files[w]), Progresses(w)
    PROVE  ReadSoFar(store'[w], files'[w])
<1>1. \A a \in AttemptIds : Len(files[w][a].lines) \in Nat /\ Len(files'[w][a].lines) \in Nat
  BY DEF FileRows
<1>2. CASE LinesGrow(files[w], files'[w]) /\ ReadsNone(store[w], store'[w])
  BY <1>1, <1>2 DEF ReadSoFar, LinesGrow, Longer, ReadsNone
<1>3. CASE files'[w] = files[w] /\ ReadsNone(store[w], store'[w])
  BY <1>3 DEF ReadSoFar, ReadsNone
<1>4. ASSUME NEW b \in AttemptIds, NEW n \in Nat, files'[w] = files[w],
             ReadsLine(store[w], files[w], store'[w], b, n)
      PROVE  ReadSoFar(store'[w], files'[w])
  <2> SUFFICES ASSUME NEW a \in AttemptIds
               PROVE  Offset(store'[w], a) \in Nat /\ Offset(store'[w], a) <= Len(files[w][a].lines)
    BY <1>4 DEF ReadSoFar
  <2>1. CASE a = b
    BY <1>1, <1>4, <2>1 DEF ReadsLine
  <2>2. CASE a # b
    BY <1>4, <2>2 DEF ReadsLine, ReadSoFar
  <2> QED BY <2>1, <2>2
<1> QED BY <1>2, <1>3, <1>4 DEF Progresses, Reads

\* What a machine does keeps track.
LEMMA TrackedMoves ==
    ASSUME NEW d, NEW w, files[w] \in [AttemptIds -> FileRows], NEW t \in Nat,
           t < store[w].next, Numbered(store[w]), ReadSoFar(store[w], files[w]),
           agent[w].inbox.through \in Nat, agent[w].inbox.through <= t,
           Tracked(d, w, store[w], files[w], t), Progresses(w)
    PROVE  Tracked(d, w, store'[w], files'[w], t)
<1>1. StaysOut(store[w], store'[w], t)
  BY SaysStays DEF Progresses
<1>2. CASE LinesGrow(files[w], files'[w]) /\ ReadsNone(store[w], store'[w])
  BY <1>1, <1>2, TrackedAside
<1>3. CASE files'[w] = files[w] /\ ReadsNone(store[w], store'[w])
  <2>1. LinesGrow(files[w], files'[w])
    BY <1>3, LinesStay
  <2> QED BY <1>1, <1>3, <2>1, TrackedAside
<1>4. ASSUME NEW b \in AttemptIds, NEW n \in Nat, files'[w] = files[w],
             ReadsLine(store[w], files[w], store'[w], b, n)
      PROVE  Tracked(d, w, store'[w], files'[w], t)
  BY <1>4, TrackedReads
<1> QED BY <1>2, <1>3, <1>4 DEF Progresses, Reads

LEMMA SampleOld ==
    ASSUME NEW d, d.job \in [Jobs -> JobRows], NEW d2, NEW body, body.attempt \in AttemptIds,
           SampleAdded(d, d2, body), NEW a \in AttemptIds,
           body.kind # "metric_sample" \/ a # body.attempt
    PROVE  LET old == d.job[a[1]].samples
               new == d2.job[a[1]].samples
           IN  /\ SamplesFor(new, a[2]) = SamplesFor(old, a[2])
               /\ \A i \in SamplesFor(old, a[2]) : new[i] = old[i]
<1>1. PICK j, n, old, new : /\ j = a[1] /\ n = a[2] /\ old = d.job[j].samples
                            /\ new = d2.job[j].samples
  OBVIOUS
<1>2. j \in Jobs /\ a = <<j, n>>
  BY <1>1, IdIs
<1>3. CASE new = old
  BY <1>1, <1>3
<1>4. CASE new # old
  <2>1. PICK k, x : k = body.attempt[2] /\ x = [attempt |-> k, point |-> body.point]
    OBVIOUS
  <2>2. body.kind = "metric_sample" /\ j = body.attempt[1] /\ new = Append(old, x)
    BY <1>1, <1>2, <1>4, <2>1 DEF SampleAdded
  <2>3. k # n
    BY <1>1, <1>2, <2>1, <2>2, IdIs
  <2>4. PICK T : old \in Seq(T)
    BY <1>1, <1>2 DEF JobRows
  <2>5. /\ Len(old) \in Nat /\ DOMAIN old = 1 .. Len(old)
        /\ DOMAIN new = 1 .. Len(old) + 1 /\ new[Len(old) + 1] = x
        /\ \A i \in 1 .. Len(old) : new[i] = old[i]
    <3>1. PICK V : V = T \cup {x}
      OBVIOUS
    <3>2. old \in Seq(V) /\ x \in V
      BY <2>4, <3>1
    <3> QED BY <2>2, <3>2
  <2>6. x.attempt = k
    BY <2>1
  <2>7. \A i \in 1 .. Len(old) + 1 : i \in 1 .. Len(old) \/ i = Len(old) + 1
    BY <2>5
  <2>8. \A i \in 1 .. Len(old) : i \in 1 .. Len(old) + 1
    BY <2>5
  <2>9. SamplesFor(new, n) = SamplesFor(old, n)
    BY <2>3, <2>5, <2>6, <2>7, <2>8 DEF SamplesFor
  <2> QED BY <1>1, <2>5, <2>9 DEF SamplesFor
<1> QED BY <1>3, <1>4

\* Attempt k has one more sample, the last one.
OneMore(old, new, k, point) ==
    \E n \in Nat :
        /\ SamplesFor(new, k) = SamplesFor(old, k) \cup {n}
        /\ SamplesFor(old, k) \in SUBSET Nat
        /\ \A i \in SamplesFor(old, k) : i < n /\ new[i] = old[i]
        /\ new[n].point = point

LEMMA SampleNew ==
    ASSUME NEW d, d.job \in [Jobs -> JobRows], NEW d2, NEW body, NEW a \in AttemptIds,
           SampleAdded(d, d2, body), body.kind = "metric_sample", a = body.attempt
    PROVE  OneMore(d.job[a[1]].samples, d2.job[a[1]].samples, a[2], body.point)
<1>1. PICK j, k, old, new, x :
          /\ j = a[1] /\ k = a[2] /\ old = d.job[j].samples /\ new = d2.job[j].samples
          /\ x = [attempt |-> k, point |-> body.point]
  OBVIOUS
<1>2. j \in Jobs
  BY <1>1, IdIs
<1>3. new = Append(old, x)
  BY <1>1, <1>2 DEF SampleAdded
<1>4. PICK T : old \in Seq(T)
  BY <1>1, <1>2 DEF JobRows
<1>5. /\ Len(old) \in Nat /\ DOMAIN old = 1 .. Len(old)
      /\ DOMAIN new = 1 .. Len(old) + 1 /\ new[Len(old) + 1] = x
      /\ \A i \in 1 .. Len(old) : new[i] = old[i]
  <2>1. PICK V : V = T \cup {x}
    OBVIOUS
  <2>2. old \in Seq(V) /\ x \in V
    BY <1>4, <2>1
  <2> QED BY <1>3, <2>2
<1>6. PICK n \in Nat : n = Len(old) + 1
  BY <1>5
<1>7. x.attempt = k /\ x.point = body.point
  BY <1>1
<1>8. \A i \in DOMAIN old : i < n /\ i \in DOMAIN new /\ i \in Nat
  BY <1>5, <1>6
<1>9. \A i \in DOMAIN new : i \in DOMAIN old \/ i = n
  BY <1>5, <1>6
<1>10. n \in DOMAIN new /\ new[n] = x /\ \A i \in DOMAIN old : new[i] = old[i]
  BY <1>5, <1>6
<1>11. SamplesFor(new, k) = SamplesFor(old, k) \cup {n}
  BY <1>7, <1>8, <1>9, <1>10 DEF SamplesFor
<1>12. SamplesFor(old, k) \in SUBSET Nat
       /\ \A i \in SamplesFor(old, k) : i < n /\ new[i] = old[i]
  BY <1>8, <1>10 DEF SamplesFor
<1>13. new[n].point = body.point
  BY <1>7, <1>10
<1>14. OneMore(old, new, k, body.point)
  BY <1>11, <1>12, <1>13 DEF OneMore
<1> QED BY <1>1, <1>14

\* There are samples only of attempts.
Rooted(d) ==
    \A a \in AttemptIds : InTable(d, a) \/ SamplesFor(d.job[a[1]].samples, a[2]) = {}

LEMMA AlikeTracked ==
    ASSUME NEW d, NEW d2, SameRows(d, d2), Rooted(d)
    PROVE  /\ Rooted(d2)
           /\ \A w, st, fs, t : Tracked(d, w, st, fs, t) => Tracked(d2, w, st, fs, t)
<1>1. \A a \in AttemptIds : /\ InTable(d2, a) <=> InTable(d, a)
                            /\ InTable(d, a) => RowOf(d2, a) = RowOf(d, a)
                            /\ d2.job[a[1]].samples = d.job[a[1]].samples
  BY IdIs DEF SameRows, SameSamples
<1>2. Rooted(d2)
  BY <1>1 DEF Rooted
<1>3. ASSUME NEW w, NEW st, NEW fs, NEW t, Tracked(d, w, st, fs, t)
      PROVE  Tracked(d2, w, st, fs, t)
  <2>1. \A a \in AttemptIds : TracedRow(d, a, st, fs, t) => TracedRow(d2, a, st, fs, t)
    BY <1>1 DEF TracedRow
  <2> QED BY <1>1, <1>3, <2>1 DEF Tracked
<1> QED BY <1>2, <1>3

LEMMA AddedTracked ==
    ASSUME NEW d, NEW d2, NEW v, AddsRow(d, d2, v), Rooted(d),
           NEW w, NEW st, NEW fs, NEW t, Tracked(d, w, st, fs, t), Ordered(st),
           RowsOf(d, w, DOMAIN st.cmds)
    PROVE  Rooted(d2) /\ Tracked(d2, w, st, fs, t)
<1>1. \A a \in AttemptIds : d2.job[a[1]].samples = d.job[a[1]].samples
  BY IdIs DEF AddsRow, SameSamples
<1>2. Rooted(d2)
  BY <1>1 DEF Rooted, AddsRow
<1>3. ASSUME NEW a \in AttemptIds, InTable(d2, a), RowOf(d2, a).worker = w
      PROVE  TracedRow(d2, a, st, fs, t)
  <2>1. CASE InTable(d, a)
    <3>1. RowOf(d, a).worker = w
      BY <1>3, <2>1 DEF AddsRow
    <3>2. TracedRow(d, a, st, fs, t)
      BY <2>1, <3>1 DEF Tracked
    <3> QED BY <1>1, <3>2 DEF TracedRow
  <2>2. CASE ~InTable(d, a)
    <3>1. SamplesFor(d2.job[a[1]].samples, a[2]) = {}
      BY <1>1, <2>2 DEF Rooted
    <3>2. a \notin DOMAIN st.cmds
      BY <2>2 DEF RowsOf
    <3>3. Offset(st, a) = 0
      BY <3>2 DEF Offset
    <3>4. Readable(fs[a].lines, Offset(st, a)) = {}
      BY <3>3 DEF Readable
    <3>5. Unsent(st, a, t) = {}
      BY <3>2 DEF Unsent, Ordered
    <3> QED BY <3>1, <3>4, <3>5, TracedNone DEF TracedRow
  <2> QED BY <2>1, <2>2
<1> QED BY <1>2, <1>3 DEF Tracked

LEMMA WrittenRooted ==
    ASSUME NEW d, d.job \in [Jobs -> JobRows], NEW d2, NEW body, Written(d, d2, body), Rooted(d)
    PROVE  Rooted(d2)
<1> SUFFICES ASSUME NEW a \in AttemptIds, ~InTable(d2, a)
             PROVE  SamplesFor(d2.job[a[1]].samples, a[2]) = {}
  BY DEF Rooted
<1>1. ~InTable(d, a) /\ a # body.attempt /\ body.attempt \in AttemptIds
      /\ SampleAdded(d, d2, body)
  BY DEF Written
<1>2. SamplesFor(d2.job[a[1]].samples, a[2]) = SamplesFor(d.job[a[1]].samples, a[2])
  BY <1>1, SampleOld
<1> QED BY <1>1, <1>2 DEF Rooted

\* An event of another worker is recorded.
LEMMA WrittenElsewhere ==
    ASSUME NEW d, d.job \in [Jobs -> JobRows], NEW d2, NEW body, Written(d, d2, body),
           NEW w, RowOf(d, body.attempt).worker # w,
           NEW st, NEW fs, NEW t, Tracked(d, w, st, fs, t)
    PROVE  Tracked(d2, w, st, fs, t)
<1> SUFFICES ASSUME NEW a \in AttemptIds, InTable(d2, a), RowOf(d2, a).worker = w
             PROVE  TracedRow(d2, a, st, fs, t)
  BY DEF Tracked
<1>1. /\ body.attempt \in AttemptIds /\ SampleAdded(d, d2, body) /\ InTable(d, a)
      /\ RowOf(d2, body.attempt).worker = RowOf(d, body.attempt).worker
  BY DEF Written, Marks
<1>2. a # body.attempt /\ RowOf(d, a).worker = w
  BY <1>1 DEF Written
<1>3. TracedRow(d, a, st, fs, t)
  BY <1>1, <1>2 DEF Tracked
<1>4. PICK old, new : old = d.job[a[1]].samples /\ new = d2.job[a[1]].samples
  OBVIOUS
<1>5. /\ SamplesFor(new, a[2]) = SamplesFor(old, a[2])
      /\ \A i \in SamplesFor(old, a[2]) : new[i] = old[i]
  BY <1>1, <1>2, <1>4, SampleOld
<1> QED BY <1>3, <1>4, <1>5, TracedSame DEF TracedRow

\* The next event of w is recorded.
LEMMA WrittenTracked ==
    ASSUME NEW d, d.job \in [Jobs -> JobRows], NEW d2, NEW e, Written(d, d2, e.body),
           NEW w, RowOf(d, e.body.attempt).worker = w, NEW t \in Nat, e.seq = t + 1,
           NEW st, e \in Outgoing(st), Numbered(st),
           \A q \in Outgoing(st) : q.seq = e.seq => q = e,
           NEW fs, Tracked(d, w, st, fs, t)
    PROVE  Tracked(d2, w, st, fs, t + 1)
<1> SUFFICES ASSUME NEW a \in AttemptIds, InTable(d2, a), RowOf(d2, a).worker = w
             PROVE  TracedRow(d2, a, st, fs, t + 1)
  BY DEF Tracked
<1>1. /\ e.body.attempt \in AttemptIds /\ SampleAdded(d, d2, e.body) /\ InTable(d, a)
      /\ RowOf(d2, e.body.attempt).worker = RowOf(d, e.body.attempt).worker
  BY DEF Written, Marks
<1>2. RowOf(d, a).worker = w
  BY <1>1 DEF Written
<1>3. TracedRow(d, a, st, fs, t)
  BY <1>1, <1>2 DEF Tracked
<1>4. PICK old, new, S, U, lines, R :
          /\ old = d.job[a[1]].samples /\ new = d2.job[a[1]].samples
          /\ S = SamplesFor(old, a[2]) /\ U = Unsent(st, a, t)
          /\ lines = fs[a].lines /\ R = Readable(lines, Offset(st, a))
  OBVIOUS
<1>5. Traced(old, S, U, lines, R)
  BY <1>3, <1>4 DEF TracedRow
<1>6. \A m \in Outgoing(st) : m.seq \in Nat /\ (m.seq > t <=> m.seq > t + 1 \/ m = e)
  BY DEF Numbered
<1>7. \A m \in Outgoing(st) : m.seq > t + 1 => m # e
  OBVIOUS
<1>8. Unsent(st, a, t + 1) = U \ {e}
  BY <1>4, <1>6, <1>7 DEF Unsent
<1>9. CASE e.body.kind # "metric_sample" \/ a # e.body.attempt
  <2>1. SamplesFor(new, a[2]) = S /\ \A i \in S : new[i] = old[i]
    BY <1>1, <1>4, <1>9, SampleOld
  <2>2. e \notin U
    BY <1>4, <1>9 DEF Unsent
  <2>3. U \ {e} = U
    BY <2>2
  <2>4. Traced(new, S, U, lines, R)
    BY <1>5, <2>1, TracedSame
  <2> QED BY <1>4, <1>8, <2>1, <2>3, <2>4 DEF TracedRow
<1>10. CASE e.body.kind = "metric_sample" /\ a = e.body.attempt
  <2>1. PICK n \in Nat : /\ SamplesFor(new, a[2]) = S \cup {n} /\ S \in SUBSET Nat
                         /\ \A i \in S : i < n /\ new[i] = old[i]
                         /\ new[n].point = e.body.point
    <3>1. PICK body : body = e.body
      OBVIOUS
    <3>2. SampleAdded(d, d2, body) /\ body.kind = "metric_sample" /\ a = body.attempt
      BY <1>1, <1>10, <3>1
    <3>3. OneMore(d.job[a[1]].samples, d2.job[a[1]].samples, a[2], body.point)
      BY <3>2, SampleNew
    <3>4. OneMore(old, new, a[2], e.body.point)
      BY <1>4, <3>1, <3>3
    <3> QED BY <1>4, <3>4 DEF OneMore
  <2>2. e \in U
    BY <1>4, <1>6, <1>10 DEF Unsent
  <2>3. \A m \in U : m.seq \in Nat /\ (m = e \/ e.seq < m.seq)
    BY <1>4, <1>6 DEF Unsent
  <2>4. R \in SUBSET Nat
    BY <1>4 DEF Readable
  <2>5. Traced(new, S \cup {n}, U \ {e}, lines, R)
    BY <1>5, <2>1, <2>2, <2>3, <2>4, TracedRecords
  <2> QED BY <1>4, <1>8, <2>1, <2>5 DEF TracedRow
<1> QED BY <1>9, <1>10

LinesInv ==
    /\ Rooted(db) /\ Rooted(tx)
    /\ \A w \in Workers :
          /\ ReadSoFar(store[w], files[w])
          /\ Tracked(db, w, store[w], files[w], Top(db, w))
          /\ Tracked(tx, w, store[w], files[w], Top(tx, w))

\* What a transaction leaves.
LEMMA PlaneRooted ==
    ASSUME ExecInv, LinesInv, PlaneWrites
    PROVE  Rooted(db') /\ Rooted(tx')
<1>1. Rooted(db) /\ Rooted(tx) /\ tx.job \in [Jobs -> JobRows]
  BY DEF LinesInv, ExecInv, WorkInv, PlaneTyped, Tables
<1>2. PICK d, d2, x, x2 : d = db /\ d2 = db' /\ x = tx /\ x2 = tx'
  OBVIOUS
<1>3. \A y, y2 : Alike(y, y2) /\ Rooted(y) => Rooted(y2)
  BY AlikeTracked DEF Alike
<1>4. ASSUME NEW e, Records(e) PROVE Rooted(x2)
  <2>1. PICK body : body = e.body
    OBVIOUS
  <2>2. Written(x, x2, body) /\ Rooted(x) /\ x.job \in [Jobs -> JobRows]
    BY <1>1, <1>2, <1>4, <2>1 DEF Records
  <2> QED BY <2>2, WrittenRooted
<1>5. ASSUME NEW v, AddsRow(x, x2, v) PROVE Rooted(x2)
  <2>1. \A a \in AttemptIds : x2.job[a[1]].samples = x.job[a[1]].samples
    BY <1>5, IdIs DEF AddsRow, SameSamples
  <2> QED BY <1>1, <1>2, <1>5, <2>1 DEF Rooted, AddsRow
<1>6. CASE Alike(d, d2) /\ (Alike(d, x2) \/ Alike(x, x2))
  BY <1>1, <1>2, <1>3, <1>6
<1>7. CASE d2 = d /\ \E e : Records(e)
  BY <1>1, <1>2, <1>4, <1>7
<1>8. CASE d2 = d /\ \E v : AddsRow(x, x2, v)
  BY <1>1, <1>2, <1>5, <1>8
<1>9. CASE d2 = x /\ x2 = x
  BY <1>1, <1>2, <1>9
<1> QED BY <1>2, <1>6, <1>7, <1>8, <1>9 DEF PlaneWrites

LEMMA PlaneTracked ==
    ASSUME ExecInv, TruthInv, StoryInv, LinesInv, PlaneWrites, NEW w \in Workers
    PROVE  /\ Tracked(db', w, store[w], files[w], Top(db', w))
           /\ Tracked(tx', w, store[w], files[w], Top(tx', w))
<1>1. PICK d, d2, x, x2, st, fs :
          /\ d = db /\ d2 = db' /\ x = tx /\ x2 = tx' /\ st = store[w] /\ fs = files[w]
  OBVIOUS
<1>2. /\ Tracked(d, w, st, fs, Top(d, w)) /\ Tracked(x, w, st, fs, Top(x, w))
      /\ Rooted(d) /\ Rooted(x) /\ Ordered(st) /\ RowsOf(x, w, DOMAIN st.cmds)
      /\ x.job \in [Jobs -> JobRows]
  BY <1>1, OwnedRows DEF LinesInv, StoryInv, InStep, ExecInv, WorkInv, PlaneTyped, Tables
<1>3. Top(d, w) \in Nat /\ Top(x, w) \in Nat /\ Top(d, w) <= Top(x, w)
  BY <1>1, TopsType DEF ExecInv
<1>4. ASSUME NEW y, NEW y2, Alike(y, y2), Rooted(y), Tracked(y, w, st, fs, Top(y, w))
      PROVE  Tracked(y2, w, st, fs, Top(y2, w))
  <2>1. Top(y2, w) = Top(y, w)
    BY <1>4, SameTop DEF Alike
  <2> QED BY <1>4, <2>1, AlikeTracked DEF Alike
<1>5. CASE Alike(d, d2) /\ (Alike(d, x2) \/ Alike(x, x2))
  BY <1>1, <1>2, <1>4, <1>5
<1>6. ASSUME NEW e, d2 = d, Records(e)
      PROVE  Tracked(d2, w, st, fs, Top(d2, w)) /\ Tracked(x2, w, st, fs, Top(x2, w))
  <2>1. PICK v \in Workers : v = req.worker
    BY <1>6 DEF Records, Served
  <2>2. /\ Written(x, x2, e.body) /\ RowOf(x, e.body.attempt).worker = v
        /\ UnderWay(v, e)
    BY <1>1, <1>6, <2>1 DEF Records, UnderWay
  <2>3. /\ e.seq = Top(x, v) + 1 /\ Top(x, v) \in Nat /\ Top(x2, v) = Top(x, v) + 1
        /\ \A u \in Workers \ {v} : Top(x2, u) = Top(x, u)
    BY <1>1, <1>6, <2>1, RecordsNext
  <2>4. CASE v # w
    <3>1. PICK body, t : body = e.body /\ t = Top(x, w)
      OBVIOUS
    <3>2. /\ Written(x, x2, body) /\ RowOf(x, body.attempt).worker # w
          /\ Tracked(x, w, st, fs, t)
      BY <1>2, <2>2, <2>4, <3>1
    <3>3. Tracked(x2, w, st, fs, t)
      BY <1>2, <3>2, WrittenElsewhere
    <3> QED BY <1>2, <1>6, <2>3, <2>4, <3>1, <3>3
  <2>5. CASE v = w
    <3>1. e \in Outgoing(st)
      BY <1>1, <1>3, <2>2, <2>3, <2>5 DEF StoryInv, InStep, Relayed
    <3>2. Numbered(st) /\ \A q \in Outgoing(st) : q.seq = e.seq => q = e
      BY <1>1, <3>1, WaitingFacts
    <3>3. PICK t \in Nat : t = Top(x, w)
      BY <1>3
    <3>4. /\ Written(x, x2, e.body) /\ RowOf(x, e.body.attempt).worker = w
          /\ e.seq = t + 1 /\ Tracked(x, w, st, fs, t)
      BY <1>2, <2>2, <2>3, <2>5, <3>3
    <3>5. Tracked(x2, w, st, fs, t + 1)
      BY <1>2, <3>1, <3>2, <3>4, WrittenTracked
    <3> QED BY <1>2, <1>6, <2>3, <2>5, <3>3, <3>5
  <2> QED BY <2>4, <2>5
<1>7. ASSUME NEW v, d2 = d, AddsRow(x, x2, v), x2.events = x.events
      PROVE  Tracked(d2, w, st, fs, Top(d2, w)) /\ Tracked(x2, w, st, fs, Top(x2, w))
  <2>1. Top(x2, w) = Top(x, w)
    BY <1>7, SameTop
  <2>2. Tracked(x2, w, st, fs, Top(x, w))
    BY <1>2, <1>7, AddedTracked
  <2> QED BY <1>2, <1>7, <2>1, <2>2
<1>8. CASE d2 = x /\ x2 = x
  BY <1>1, <1>2, <1>8
<1> QED BY <1>1, <1>5, <1>6, <1>7, <1>8 DEF PlaneWrites

LEMMA LinesNext ==
    ASSUME NoRestarts, ExecInv, TruthInv, FilesInv, StoryInv, LinesInv, [SyncNext]_sysVars
    PROVE  LinesInv'
<1>1. WorkInv /\ TablesTrue /\ ChainInv /\ ExecInv'
  BY ExecNext DEF ExecInv, TruthInv
<1>2. /\ \A v \in Workers : Progresses(v)
      /\ UNCHANGED <<store, procs, files>> \/ UNCHANGED <<db, tx, req, call, wire>>
  BY MachinesMove DEF FilesInv
<1>3. PlaneWrites
  BY <1>1, TablesWritten
<1>4. Rooted(db') /\ Rooted(tx')
  BY <1>3, PlaneRooted
<1>5. ASSUME NEW w \in Workers
      PROVE  /\ ReadSoFar(store'[w], files'[w])
             /\ Tracked(db', w, store'[w], files'[w], Top(db', w))
             /\ Tracked(tx', w, store'[w], files'[w], Top(tx', w))
  <2>1. /\ files[w] \in [AttemptIds -> FileRows] /\ files'[w] \in [AttemptIds -> FileRows]
        /\ ReadSoFar(store[w], files[w]) /\ Numbered(store[w])
    BY <1>1, MachineFacts, WaitingFacts DEF ExecInv, WorkInv, MachinesTyped, LinesInv
  <2>2. ReadSoFar(store'[w], files'[w])
    BY <1>2, <2>1, ReadSoFarMoves
  <2>3. CASE UNCHANGED <<store, files>>
    BY <1>3, <2>2, <2>3, PlaneTracked
  <2>4. CASE UNCHANGED <<db, tx>>
    <3>0. PICK d, x : d = db /\ x = tx
      OBVIOUS
    <3>1. /\ Top(d, w) \in Nat /\ Top(x, w) \in Nat /\ Top(d, w) <= Top(x, w)
          /\ Top(x, w) < store[w].next /\ store[w].next \in Nat
          /\ agent[w].inbox.through \in Nat /\ agent[w].inbox.through <= Top(d, w)
      BY <1>1, <3>0, TopsType DEF ChainInv, Heard
    <3>2. PICK t \in Nat, u \in Nat : t = Top(d, w) /\ u = Top(x, w)
      BY <3>1
    <3>3. /\ t < store[w].next /\ u < store[w].next
          /\ agent[w].inbox.through \in Nat
          /\ agent[w].inbox.through <= t /\ agent[w].inbox.through <= u
          /\ Tracked(d, w, store[w], files[w], t) /\ Tracked(x, w, store[w], files[w], u)
      BY <3>0, <3>1, <3>2 DEF LinesInv
    <3>4. Tracked(d, w, store'[w], files'[w], t)
      BY <1>2, <2>1, <3>3, TrackedMoves
    <3>5. Tracked(x, w, store'[w], files'[w], u)
      BY <1>2, <2>1, <3>3, TrackedMoves
    <3> QED BY <2>2, <2>4, <3>0, <3>2, <3>4, <3>5
  <2> QED BY <1>2, <2>3, <2>4
<1> QED BY <1>4, <1>5 DEF LinesInv

LEMMA LinesInit == SyncInit => LinesInv
<1> SUFFICES ASSUME SyncInit PROVE LinesInv
  OBVIOUS
<1>1. \A a \in AttemptIds : /\ ~InTable(db, a) /\ ~InTable(tx, a)
                            /\ db.job[a[1]].samples = << >> /\ tx.job[a[1]].samples = << >>
  BY IdIs DEF SyncInit, Init, EmptyDatabase, NoJobRow, InTable
<1>2. Rooted(db) /\ Rooted(tx)
  BY <1>1 DEF Rooted, SamplesFor
<1>3. ASSUME NEW w \in Workers
      PROVE  /\ ReadSoFar(store[w], files[w])
             /\ \A t : Tracked(db, w, store[w], files[w], t) /\ Tracked(tx, w, store[w], files[w], t)
  <2>1. DOMAIN store[w].cmds = {} /\ \A a \in AttemptIds : files[w][a].lines = << >>
    BY DEF SyncInit, AgentInit
  <2>2. ReadSoFar(store[w], files[w])
    BY <2>1 DEF ReadSoFar, Offset
  <2> QED BY <1>1, <2>2 DEF Tracked
<1> QED BY <1>2, <1>3 DEF LinesInv

\* The samples S are the first of the lines R.
Faithful(samples, S, lines, R) ==
    \E line \in [S -> R] :
        /\ \A i \in S : samples[i].point = lines[line[i]]
        /\ \A i, k \in S : i < k => line[i] < line[k]
        /\ \A i \in S, l \in R : l < line[i] => \E k \in S : line[k] = l

LEMMA TracedFaithful ==
    ASSUME NEW samples, NEW S, NEW U, NEW lines, NEW o \in Nat, Len(lines) \in Nat,
           o <= Len(lines), DOMAIN lines = 1 .. Len(lines),
           Traced(samples, S, U, lines, Readable(lines, o)),
           NEW R, R = {l \in DOMAIN lines : lines[l] # Unreadable}
    PROVE  Faithful(samples, S, lines, R)
<1>1. PICK Q : Q = Readable(lines, o)
  OBVIOUS
<1>2. PICK f, g : LinedUp(samples, S, U, lines, Q, f, g)
  BY <1>1 DEF Traced
<1>3. Q \subseteq R
  BY <1>1 DEF Readable
<1>4. f \in [S -> Q] /\ g \in [U -> Q]
  BY <1>2 DEF LinedUp
<1>5. f \in [S -> R]
  BY <1>3, <1>4
<1>6. ASSUME NEW i \in S, NEW l \in R, l < f[i] PROVE \E k \in S : f[k] = l
  <2>1. f[i] \in Nat /\ f[i] <= o /\ l \in Nat /\ l \in 1 .. Len(lines)
    BY <1>1, <1>4 DEF Readable
  <2>2. l \in Q
    BY <1>1, <1>6, <2>1 DEF Readable
  <2>3. ASSUME NEW m \in U, g[m] = l PROVE FALSE
    <3>1. f[i] < l
      BY <1>2, <2>3 DEF LinedUp
    <3> QED BY <1>6, <2>1, <3>1
  <2> QED BY <1>2, <2>2, <2>3 DEF LinedUp
<1> QED BY <1>2, <1>5, <1>6 DEF LinedUp, Faithful

\* The samples of an attempt are its readable metric lines, each once and in the order of
\* the file, up to some point, whatever the job and the sampler append meanwhile and
\* however answers are lost and batches repeated: where agents are not restarted
\* (ingestMetrics moves the offset in the transaction that enqueues, and what is
\* recorded twice counts once).
THEOREM SamplesAreTheLines == NoRestarts => (SyncSpec => []SamplesFaithful)
<1> SUFFICES ASSUME NoRestarts PROVE SyncSpec => []SamplesFaithful
  OBVIOUS
<1> DEFINE Base == ExecInv /\ TruthInv /\ FilesInv /\ StoryInv /\ OneSession
<1>1. Base /\ LinesInv /\ [SyncNext]_sysVars => LinesInv'
  BY LinesNext
<1>2. ASSUME ExecInv, TruthInv, LinesInv PROVE SamplesFaithful
  <2> SUFFICES ASSUME NEW a \in AttemptIds, HasRow(a)
               PROVE  LET lines   == files[AttemptRow(a).worker][a].lines
                          samples == db.job[a[1]].samples
                      IN  Faithful(samples, SamplesFor(samples, a[2]), lines,
                                   {l \in DOMAIN lines : lines[l] # Unreadable})
    BY DEF SamplesFaithful, Faithful, SamplesFor
  <2>1. PICK w : w = AttemptRow(a).worker
    OBVIOUS
  <2>2. w \in Workers /\ InTable(db, a) /\ RowOf(db, a).worker = w
    <3>1. a[1] \in Jobs /\ db.job \in [Jobs -> JobRows]
      BY <1>2, IdIs DEF ExecInv, WorkInv, PlaneTyped, Tables
    <3>2. AttemptRow(a) \in Attempts
      BY <3>1 DEF HasRow, AttemptRow, JobRows
    <3> QED BY <2>1, <3>2 DEF HasRow, AttemptRow, InTable, RowOf, Attempts
  <2>3. PICK samples, S, U, lines, o, R :
            /\ samples = db.job[a[1]].samples /\ S = SamplesFor(samples, a[2])
            /\ U = Unsent(store[w], a, Top(db, w)) /\ lines = files[w][a].lines
            /\ o = Offset(store[w], a) /\ R = {l \in DOMAIN lines : lines[l] # Unreadable}
    OBVIOUS
  <2>4. Traced(samples, S, U, lines, Readable(lines, o))
    BY <1>2, <2>2, <2>3 DEF LinesInv, Tracked, TracedRow
  <2>5. /\ o \in Nat /\ Len(lines) \in Nat /\ o <= Len(lines) /\ DOMAIN lines = 1 .. Len(lines)
    <3>1. lines \in Seq(Lines)
      BY <1>2, <2>2, <2>3, MachineFacts DEF FileRows
    <3> QED BY <1>2, <2>2, <2>3, <3>1 DEF LinesInv, ReadSoFar
  <2>6. Faithful(samples, S, lines, R)
    BY <2>3, <2>4, <2>5, TracedFaithful
  <2> QED BY <2>1, <2>3, <2>6
<1>3. Base /\ LinesInv => SamplesFaithful
  BY <1>2
<1>4. SyncInit => LinesInv
  BY LinesInit
<1>5. SyncSpec => []Base
  BY Story
<1> QED BY <1>1, <1>3, <1>4, <1>5, PTL DEF SyncSpec
=============================================================================
