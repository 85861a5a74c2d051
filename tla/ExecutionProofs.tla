----------------------------- MODULE ExecutionProofs -----------------------------
(* What a worker executes and what it says about it, for every number of workers, *)
(* jobs, places, lost answers and server faults: the types of the whole system,    *)
(* that an attempt is executed once, that success and end are reported only when   *)
(* they are true.                                                                  *)
EXTENDS OutboxProofs, ControlPlaneProofs

---------------------------------------------------------------------------
(* Types that do not depend on the bounds of an instance *)

\* An event as a worker numbers it, and what a sync answers.
Messages == [seq : Nat, id : Workers \X Nat, body : EventBodies]
Replies  == [run : SUBSET [attempt : AttemptIds, rev : Nat], cancel : SUBSET AttemptIds,
             through : Nat]

CommandTables == UNION {[known -> Commands] : known \in SUBSET AttemptIds}
Stores    == [cmds : CommandTables, outbox : Seq(Messages), next : Nat]
Agents    == [up : BOOLEAN, session : Nat, pc : Phases, todo : Seq(AttemptIds),
              found : {"none", "ok", "bad"}, inbox : Replies,
              sampling : SUBSET AttemptIds, swept : [AttemptIds -> 0 .. MaxSweeps],
              seen : [AttemptIds -> Files \cup {NoFile}]]
Processes == [attempt : AttemptIds, st : {"running", "reported", "gone"}]
FileRows  == [status : {"none", "ok", "bad"}, lines : Seq(Lines), tail : LineTails,
              outputs : SUBSET Files]

Posted == [worker : Workers, session : Nat, events : Seq(Messages), live : BOOLEAN]
Served == [phase : {"events", "offers"}, worker : Workers, session : Nat,
           scan : SUBSET Jobs]
Recordings == [worker : Workers, session : Nat, seq : Nat, id : Workers \X Nat,
               attempt : AttemptIds, kind : EventKinds]
Tables == [job     : [Jobs -> JobRows],
           worker  : [Workers -> {"absent", "offline", "online"}],
           keys    : SUBSET (Keys \X Jobs),
           targets : SUBSET Targets,
           events  : SUBSET Recordings]

\* The files of an attempt are finitely many, its metric lines at most MaxLines.
Sized(fs) == \A a \in AttemptIds :
                 IsFiniteSet(fs[a].outputs) /\ Len(fs[a].lines) <= MaxLines

MachinesTyped ==
    /\ store \in [Workers -> Stores] /\ agent \in [Workers -> Agents]
    /\ procs \in [Workers -> Seq(Processes)]
    /\ files \in [Workers -> [AttemptIds -> FileRows]]
    /\ \A w \in Workers : Sized(files[w])

PlaneTyped ==
    /\ wire \subseteq Posted
    /\ call \in [live : BOOLEAN, rest : Seq(Messages)]
    /\ req \in {Idle} \cup Served
    /\ db \in Tables /\ tx \in Tables

Reconciling == {"ingest", "status", "alive", "finish"}
Launching   == {"launch", "spawned", "unstarted"}

\* The list the agent works off: the commands found running, or found pending, and
\* of these the first may just have been marked as started without a process.
ListFits(st, ag) ==
    /\ ag.pc \in Reconciling \cup Launching =>
          /\ \A i \in DOMAIN ag.todo : ag.todo[i] \in DOMAIN st.cmds
          /\ \A i, k \in DOMAIN ag.todo : ag.todo[i] = ag.todo[k] => i = k
    /\ ag.pc \in {"status", "alive", "finish", "spawned", "unstarted"} => ag.todo # << >>
    /\ ag.pc \in Reconciling =>
          \A i \in DOMAIN ag.todo : st.cmds[ag.todo[i]].state = "running"
    /\ ag.pc \in Launching =>
          \A i \in DOMAIN ag.todo :
              IF i = 1 /\ ag.pc = "unstarted"
              THEN st.cmds[ag.todo[i]].state = "running" /\ st.cmds[ag.todo[i]].pid = 0
              ELSE st.cmds[ag.todo[i]].state = "pending"
    /\ ~ag.up => ag.pc = "reap"

\* A worker waits for one request at most, and only while somebody may answer it.
Awaited ==
    /\ \A r \in wire : r.live => At(r.worker, "wait")
    /\ \A r, q \in wire : r.live /\ q.live /\ r.worker = q.worker => r = q
    /\ call.live => /\ req # Idle /\ At(req.worker, "wait")
                    /\ \A r \in wire : r.live => r.worker # req.worker

\* The invariant of every behaviour, restarts included.
WorkInv ==
    /\ MachinesTyped /\ PlaneTyped
    /\ \A w \in Workers : ListFits(store[w], agent[w])
    /\ Awaited

---------------------------------------------------------------------------
(* What the statements of the worker's store make of it *)

\* The event that body becomes.
Message(st, w, body) == [seq |-> st.next, id |-> <<w, st.next>>, body |-> body]

LEMMA StoreShape ==
    ASSUME NEW st \in Stores
    PROVE  /\ st.cmds \in CommandTables /\ st.outbox \in Seq(Messages) /\ st.next \in Nat
           /\ DOMAIN st.cmds \subseteq AttemptIds
           /\ st.cmds \in [DOMAIN st.cmds -> Commands]
BY DEF Stores, CommandTables

LEMMA TableShape ==
    ASSUME NEW known \in SUBSET AttemptIds, NEW cmds \in [known -> Commands]
    PROVE  cmds \in CommandTables
BY DEF CommandTables

LEMMA EnqueueIs ==
    ASSUME NEW st \in Stores, NEW w \in Workers, NEW body \in EventBodies
    PROVE  LET new == Enqueue(st, w, body)
           IN  /\ new \in Stores /\ new.cmds = st.cmds
               /\ new.outbox = Append(st.outbox, Message(st, w, body))
<1> DEFINE e == Message(st, w, body)
<1>1. e \in Messages
  BY DEF Message, Messages, Stores
<1>2. Append(st.outbox, e) \in Seq(Messages) /\ st.next + 1 \in Nat
  BY <1>1 DEF Stores
<1>3. Enqueue(st, w, body) = [st EXCEPT !.outbox = Append(st.outbox, e), !.next = st.next + 1]
  BY DEF Enqueue, Message, Stores
<1> HIDE DEF e
<1>4. /\ Enqueue(st, w, body) \in Stores
      /\ Enqueue(st, w, body).cmds = st.cmds
      /\ Enqueue(st, w, body).outbox = Append(st.outbox, e)
  BY <1>2, <1>3 DEF Stores
<1> QED BY <1>4 DEF e

\* One command changes, and an event tells it.
Told(st, w, a, c, body, new) ==
    /\ new \in Stores
    /\ new.cmds = [st.cmds EXCEPT ![a] = c]
    /\ DOMAIN new.cmds = DOMAIN st.cmds
    /\ new.cmds[a] = c
    /\ \A b \in DOMAIN st.cmds \ {a} : new.cmds[b] = st.cmds[b]
    /\ new.outbox = Append(st.outbox, Message(st, w, body))

LEMMA TellIs ==
    ASSUME NEW st \in Stores, NEW w \in Workers, NEW a \in DOMAIN st.cmds,
           NEW c \in Commands, NEW body \in EventBodies,
           NEW mid, mid = [st EXCEPT !.cmds = [st.cmds EXCEPT ![a] = c]]
    PROVE  Told(st, w, a, c, body, Enqueue(mid, w, body)) /\ mid \in Stores
<1> DEFINE cmds == [st.cmds EXCEPT ![a] = c]
<1>1. cmds \in [DOMAIN st.cmds -> Commands] /\ DOMAIN st.cmds \in SUBSET AttemptIds
  BY StoreShape
<1>2. cmds \in CommandTables
  BY <1>1, TableShape
<1>3. /\ DOMAIN cmds = DOMAIN st.cmds /\ cmds[a] = c
      /\ \A b \in DOMAIN st.cmds \ {a} : cmds[b] = st.cmds[b]
  BY StoreShape
<1> HIDE DEF cmds
<1>4. /\ mid \in Stores /\ mid.cmds = cmds /\ mid.outbox = st.outbox /\ mid.next = st.next
  BY <1>2 DEF Stores, cmds
<1>5. /\ Enqueue(mid, w, body) \in Stores /\ Enqueue(mid, w, body).cmds = mid.cmds
      /\ Enqueue(mid, w, body).outbox = Append(mid.outbox, Message(mid, w, body))
  BY <1>4, EnqueueIs
<1>6. Message(mid, w, body) = Message(st, w, body)
  BY <1>4 DEF Message
<1> QED BY <1>3, <1>4, <1>5, <1>6 DEF Told, cmds

LEMMA StartedIs ==
    ASSUME NEW st \in Stores, NEW w \in Workers, NEW a \in DOMAIN st.cmds, NEW pid \in Nat
    PROVE  Told(st, w, a, [st.cmds[a] EXCEPT !.state = "running", !.pid = pid],
                [kind |-> "attempt_started", attempt |-> a], MarkStarted(st, w, a, pid))
<1> DEFINE c == [st.cmds[a] EXCEPT !.state = "running", !.pid = pid]
           body == [kind |-> "attempt_started", attempt |-> a]
           mid == [st EXCEPT !.cmds = [st.cmds EXCEPT ![a] = c]]
<1>1. st.cmds[a] \in Commands /\ a \in AttemptIds
  BY StoreShape
<1>2. c \in Commands
  BY <1>1 DEF Commands
<1>3. body \in EventBodies
  BY <1>1 DEF EventBodies
<1>4. MarkStarted(st, w, a, pid) = Enqueue(mid, w, body)
  <2>1. [st EXCEPT !.cmds[a] = [@ EXCEPT !.state = "running", !.pid = pid]] = mid
    BY StoreShape DEF Stores
  <2> QED BY <2>1 DEF MarkStarted
<1> HIDE DEF c, body, mid
<1>5. Told(st, w, a, c, body, Enqueue(mid, w, body))
  BY <1>2, <1>3, TellIs DEF mid
<1> QED BY <1>4, <1>5 DEF c, body

LEMMA FinishedIs ==
    ASSUME NEW st \in Stores, NEW w \in Workers, NEW a \in DOMAIN st.cmds,
           NEW ok \in BOOLEAN, NEW tail \in BOOLEAN, NEW outputs \in SUBSET Files
    PROVE  Told(st, w, a, [st.cmds[a] EXCEPT !.state = "finished"],
                [kind |-> "attempt_finished", attempt |-> a, ok |-> ok,
                 tailFits |-> tail, files |-> outputs],
                MarkFinished(st, w, a, ok, tail, outputs))
<1> DEFINE c == [st.cmds[a] EXCEPT !.state = "finished"]
           body == [kind |-> "attempt_finished", attempt |-> a, ok |-> ok,
                    tailFits |-> tail, files |-> outputs]
           mid == [st EXCEPT !.cmds = [st.cmds EXCEPT ![a] = c]]
<1>1. st.cmds[a] \in Commands /\ a \in AttemptIds
  BY StoreShape
<1>2. c \in Commands
  BY <1>1 DEF Commands
<1>3. body \in EventBodies
  BY <1>1 DEF EventBodies
<1>4. MarkFinished(st, w, a, ok, tail, outputs) = Enqueue(mid, w, body)
  <2>1. [st EXCEPT !.cmds[a].state = "finished"] = mid
    BY StoreShape DEF Stores
  <2> QED BY <2>1 DEF MarkFinished
<1> HIDE DEF c, body, mid
<1>5. Told(st, w, a, c, body, Enqueue(mid, w, body))
  BY <1>2, <1>3, TellIs DEF mid
<1> QED BY <1>4, <1>5 DEF c, body

\* The offset moves, and a line that can be read is told.
LEMMA LineIs ==
    ASSUME NEW st \in Stores, NEW w \in Workers, NEW a \in DOMAIN st.cmds,
           NEW line \in Lines
    PROVE  LET new == TakeLine(st, w, a, line)
           IN  /\ new \in Stores
               /\ new.cmds = [st.cmds EXCEPT ![a] = [st.cmds[a] EXCEPT !.offset = @ + 1]]
               /\ line = Unreadable => new.outbox = st.outbox
               /\ line # Unreadable =>
                     new.outbox = Append(st.outbox,
                         Message(st, w, [kind |-> "metric_sample", attempt |-> a,
                                         point |-> line]))
<1> DEFINE c == [st.cmds[a] EXCEPT !.offset = @ + 1]
           body == [kind |-> "metric_sample", attempt |-> a, point |-> line]
           mid == [st EXCEPT !.cmds = [st.cmds EXCEPT ![a] = c]]
<1>1. st.cmds[a] \in Commands /\ a \in AttemptIds
  BY StoreShape
<1>2. c \in Commands
  BY <1>1 DEF Commands
<1>4. TakeLine(st, w, a, line) = IF line = Unreadable THEN mid ELSE Enqueue(mid, w, body)
  <2>1. [st EXCEPT !.cmds[a].offset = @ + 1] = mid
    BY StoreShape DEF Stores
  <2> QED BY <2>1 DEF TakeLine
<1>5. CASE line = Unreadable
  <2> DEFINE other == [kind |-> "attempt_started", attempt |-> a]
  <2>1. other \in EventBodies
    BY <1>1 DEF EventBodies
  <2> HIDE DEF c, mid, other
  <2>2. mid \in Stores
    BY <1>2, <2>1, TellIs DEF mid
  <2>3. mid.cmds = [st.cmds EXCEPT ![a] = c] /\ mid.outbox = st.outbox
    BY DEF mid, Stores
  <2> QED BY <1>4, <1>5, <2>2, <2>3 DEF c
<1>6. CASE line # Unreadable
  <2>1. body \in EventBodies
    BY <1>1, <1>6 DEF EventBodies, Lines
  <2> HIDE DEF c, mid, body
  <2>2. Told(st, w, a, c, body, Enqueue(mid, w, body))
    BY <1>2, <2>1, TellIs DEF mid
  <2> QED BY <1>4, <1>6, <2>2 DEF Told, c, body
<1> QED BY <1>5, <1>6

LEMMA AnnouncedIs ==
    ASSUME NEW st \in Stores, NEW w \in Workers, NEW a \in AttemptIds,
           NEW changed \in SUBSET Files
    PROVE  LET new == AnnounceArtifacts(st, w, a, changed)
           IN  /\ new \in Stores /\ new.cmds = st.cmds
               /\ changed = {} => new = st
               /\ changed # {} =>
                     new.outbox = Append(st.outbox,
                         Message(st, w, [kind |-> "artifacts", attempt |-> a,
                                         files |-> changed]))
<1> DEFINE body == [kind |-> "artifacts", attempt |-> a, files |-> changed]
<1>1. body \in EventBodies
  BY DEF EventBodies
<1>2. AnnounceArtifacts(st, w, a, changed)
        = IF changed = {} THEN st ELSE Enqueue(st, w, body)
  BY DEF AnnounceArtifacts
<1> HIDE DEF body
<1>3. CASE changed = {}
  BY <1>2, <1>3
<1>4. CASE changed # {}
  BY <1>1, <1>2, <1>4, EnqueueIs DEF body
<1> QED BY <1>3, <1>4

\* AcceptCommands adds pending commands and marks the ones to cancel.
Accepts(st, run, cancel, new) ==
    /\ new \in Stores
    /\ DOMAIN new.cmds = DOMAIN st.cmds \cup {r.attempt : r \in run}
    /\ \A a \in DOMAIN st.cmds :
          new.cmds[a] = IF a \in cancel /\ st.cmds[a].state # "finished"
                                        /\ st.cmds[a].cancel = "no"
                        THEN [st.cmds[a] EXCEPT !.cancel = "asked"] ELSE st.cmds[a]
    /\ \A a \in DOMAIN new.cmds \ DOMAIN st.cmds :
          new.cmds[a].state = "pending" /\ new.cmds[a].pid = 0 /\ new.cmds[a].offset = 0
    /\ Len(new.outbox) >= Len(st.outbox)
    /\ \A i \in DOMAIN new.outbox :
          IF i <= Len(st.outbox) THEN new.outbox[i] = st.outbox[i]
          ELSE new.outbox[i].body.kind = "attempt_accepted"

LEMMA AcceptIs ==
    ASSUME NEW st \in Stores, NEW w \in Workers,
           NEW run \in SUBSET [attempt : AttemptIds, rev : Nat], IsFiniteSet(run),
           NEW cancel \in SUBSET AttemptIds
    PROVE  Accepts(st, run, cancel, WithCommands(st, w, run, cancel))
<1> DEFINE fresh == {r \in run : r.attempt \notin DOMAIN st.cmds}
           rows == SetToSeq(fresh)
           all == DOMAIN st.cmds \cup {r.attempt : r \in run}
           row(a) == IF a \in DOMAIN st.cmds THEN st.cmds[a]
                     ELSE [rev |-> (CHOOSE r \in run : r.attempt = a).rev,
                           state |-> "pending", pid |-> 0, cancel |-> "no", offset |-> 0]
           mark(c) == IF c.state # "finished" /\ c.cancel = "no"
                      THEN [c EXCEPT !.cancel = "asked"] ELSE c
           cmds == [a \in all |-> IF a \in cancel THEN mark(row(a)) ELSE row(a)]
           es == [i \in DOMAIN rows |->
                    [seq |-> st.next + i - 1, id |-> <<w, st.next + i - 1>>,
                     body |-> [kind |-> "attempt_accepted", attempt |-> rows[i].attempt]]]
           new == WithCommands(st, w, run, cancel)
<1>1. /\ new = [cmds |-> cmds, outbox |-> st.outbox \o es, next |-> st.next + Len(rows)]
  BY DEF WithCommands
<1>2. all \in SUBSET AttemptIds
  BY StoreShape
<1>3. ASSUME NEW a \in all PROVE row(a) \in Commands
  <2>1. CASE a \in DOMAIN st.cmds
    BY <2>1, StoreShape
  <2>2. CASE a \notin DOMAIN st.cmds
    <3>1. (CHOOSE r \in run : r.attempt = a) \in run
      BY <2>2
    <3>2. (CHOOSE r \in run : r.attempt = a).rev \in Nat
      BY <3>1
    <3> QED BY <2>2, <3>2 DEF Commands
  <2> QED BY <2>1, <2>2
<1>4. cmds \in CommandTables
  <2>1. ASSUME NEW c \in Commands PROVE mark(c) \in Commands
    BY DEF Commands
  <2>2. \A a \in all : row(a) \in Commands /\ mark(row(a)) \in Commands
    BY <1>3, <2>1
  <2> HIDE DEF all, row, mark
  <2>3. cmds \in [all -> Commands]
    BY <2>2
  <2> HIDE DEF cmds
  <2> QED BY <1>2, <2>3, TableShape
<1>5. DOMAIN rows = 1 .. Len(rows) /\ Len(rows) \in Nat /\ rows \in Seq(fresh)
  <2>1. IsFiniteSet(fresh)
    BY FS_Subset
  <2> HIDE DEF fresh
  <2> QED BY <2>1, SetListed
<1>6. es \in Seq(Messages) /\ Len(es) = Len(rows) /\ DOMAIN es = 1 .. Len(rows)
  <2>1. ASSUME NEW i \in DOMAIN rows PROVE es[i] \in Messages
    <3>1. rows[i].attempt \in AttemptIds
      <4>1. rows[i] \in fresh
        <5> HIDE DEF rows, fresh
        <5> QED BY <1>5
      <4> QED BY <4>1
    <3>2. st.next + i - 1 \in Nat
      <4> HIDE DEF rows
      <4> QED BY <1>5, StoreShape
    <3> HIDE DEF rows
    <3> QED BY <3>1, <3>2 DEF Messages, EventBodies
  <2> HIDE DEF rows
  <2>2. es \in [1 .. Len(rows) -> Messages]
    BY <1>5, <2>1
  <2> HIDE DEF es
  <2> QED BY <1>5, <2>2
<1>7. /\ st.outbox \o es \in Seq(Messages)
      /\ Len(st.outbox \o es) = Len(st.outbox) + Len(rows)
      /\ Len(st.outbox) \in Nat
      /\ \A i \in 1 .. Len(st.outbox) + Len(rows) :
            (st.outbox \o es)[i] = IF i <= Len(st.outbox) THEN st.outbox[i]
                                   ELSE es[i - Len(st.outbox)]
  <2> HIDE DEF es, rows
  <2>1. st.outbox \in Seq(Messages)
    BY StoreShape
  <2>2. /\ st.outbox \o es \in Seq(Messages)
        /\ Len(st.outbox \o es) = Len(st.outbox) + Len(es)
        /\ \A i \in 1 .. Len(st.outbox) + Len(es) :
              (st.outbox \o es)[i] = IF i <= Len(st.outbox) THEN st.outbox[i]
                                     ELSE es[i - Len(st.outbox)]
    BY <1>6, <2>1, ConcatProperties
  <2>3. Len(st.outbox) \in Nat /\ Len(es) = Len(rows)
    BY <1>6, <2>1
  <2> QED BY <2>2, <2>3
<1>8. new \in Stores
  <2> HIDE DEF cmds, es, rows, new
  <2>1. st.next + Len(rows) \in Nat
    BY <1>5, StoreShape
  <2> QED BY <1>1, <1>4, <1>7, <2>1 DEF Stores
<1>9. \A i \in DOMAIN new.outbox :
          IF i <= Len(st.outbox) THEN new.outbox[i] = st.outbox[i]
          ELSE new.outbox[i].body.kind = "attempt_accepted"
  <2>1. \A i \in 1 .. Len(rows) : es[i].body.kind = "attempt_accepted"
    BY <1>5
  <2> HIDE DEF cmds, es, rows, new
  <2>2. new.outbox = st.outbox \o es /\ DOMAIN new.outbox = 1 .. Len(st.outbox) + Len(rows)
    BY <1>1, <1>5, <1>7
  <2>3. \A i \in 1 .. Len(st.outbox) + Len(rows) :
           ~(i <= Len(st.outbox)) => i - Len(st.outbox) \in 1 .. Len(rows)
    BY <1>5, <1>7
  <2> QED BY <1>7, <2>1, <2>2, <2>3
<1>10. Len(new.outbox) >= Len(st.outbox)
  <2> HIDE DEF cmds, es, rows, new
  <2> QED BY <1>1, <1>5, <1>7
<1>11. new.cmds = cmds /\ DOMAIN cmds = all
  BY <1>1
<1>12. \A a \in DOMAIN st.cmds :
          cmds[a] = IF a \in cancel /\ st.cmds[a].state # "finished"
                                    /\ st.cmds[a].cancel = "no"
                    THEN [st.cmds[a] EXCEPT !.cancel = "asked"] ELSE st.cmds[a]
  OBVIOUS
<1>13. \A a \in all \ DOMAIN st.cmds :
          cmds[a].state = "pending" /\ cmds[a].pid = 0 /\ cmds[a].offset = 0
  OBVIOUS
<1> HIDE DEF new, cmds
<1> QED BY <1>8, <1>9, <1>10, <1>11, <1>12, <1>13 DEF Accepts, new

---------------------------------------------------------------------------
(* One machine: its store, agent, processes and files *)

Machine(st, ag, ps, fs) ==
    /\ st \in Stores /\ ag \in Agents /\ ps \in Seq(Processes)
    /\ fs \in [AttemptIds -> FileRows] /\ Sized(fs)
    /\ ListFits(st, ag)

\* Commands and processes name each other; a process that was started and is not
\* recorded yet is the last one, and the agent is about to record it.
PidsFit(st, ag, ps) ==
    /\ \A a \in DOMAIN st.cmds :
          /\ st.cmds[a].state = "pending" => st.cmds[a].pid = 0
          /\ st.cmds[a].pid # 0 => /\ st.cmds[a].pid \in DOMAIN ps
                                   /\ ps[st.cmds[a].pid].attempt = a
    /\ \A p \in DOMAIN ps :
          /\ ps[p].attempt \in DOMAIN st.cmds
          /\ \/ st.cmds[ps[p].attempt].pid = p
             \/ ag.pc = "spawned" /\ p = Len(ps) /\ ps[p].attempt = Head(ag.todo)
    /\ ag.pc = "spawned" => ps # << >> /\ ps[Len(ps)].attempt = Head(ag.todo)

NoneRuns(ps, a) == \A p \in DOMAIN ps : ps[p].attempt = a => ps[p].st # "running"

\* A status is there only when the process is through, what the agent found is
\* still there, and a command is finished only when no process of it runs.
OutcomesFit(st, ag, ps, fs) ==
    /\ \A a \in AttemptIds :
          fs[a].status # "none" =>
             \E p \in DOMAIN ps : ps[p].attempt = a /\ ps[p].st # "running"
    /\ \A a \in DOMAIN st.cmds : st.cmds[a].state = "finished" => NoneRuns(ps, a)
    /\ ag.pc = "alive" => ag.found = "none"
    /\ ag.pc = "finish" =>
          /\ NoneRuns(ps, Head(ag.todo))
          /\ ag.found # "none" => fs[Head(ag.todo)].status = ag.found

Fit(st, ag, ps, fs) == PidsFit(st, ag, ps) /\ OutcomesFit(st, ag, ps, fs)

\* Attempt a is over, with exit code 0 if ok.
Over(st, fs, a, ok) ==
    /\ a \in DOMAIN st.cmds /\ st.cmds[a].state = "finished"
    /\ ok => fs[a].status = "ok"

Truthful(st, fs, e) ==
    e.body.kind = "attempt_finished" => Over(st, fs, e.body.attempt, e.body.ok)

\* What is new in an outbox is true.
TellsTruth(st, st2, fs) ==
    \A i \in DOMAIN st2.outbox :
        \/ \E k \in DOMAIN st.outbox : st2.outbox[i] = st.outbox[k]
        \/ Truthful(st2, fs, st2.outbox[i])

\* What a step on a machine keeps.
Goes(st, ag, ps, fs, st2, ag2, ps2, fs2) ==
    /\ Machine(st2, ag2, ps2, fs2)
    /\ DOMAIN st2.cmds \subseteq DOMAIN st.cmds \cup {r.attempt : r \in ag.inbox.run}
    /\ ag2.inbox.run \subseteq ag.inbox.run
    /\ Fit(st, ag, ps, fs) =>
          /\ Fit(st2, ag2, ps2, fs2)
          /\ \A a \in AttemptIds, ok \in BOOLEAN : Over(st, fs, a, ok) => Over(st2, fs2, a, ok)
          /\ TellsTruth(st, st2, fs2)

\* Without an unrecorded process an attempt has one process, the one its command
\* names.
LEMMA OneProcess ==
    ASSUME NEW st, NEW ag, NEW ps \in Seq(Processes), PidsFit(st, ag, ps),
           ag.pc = "spawned" => /\ Head(ag.todo) \in DOMAIN st.cmds
                                /\ st.cmds[Head(ag.todo)].state = "pending"
    PROVE  \A p, q \in DOMAIN ps : ps[p].attempt = ps[q].attempt => p = q
<1> SUFFICES ASSUME NEW p \in DOMAIN ps, NEW q \in DOMAIN ps, ps[p].attempt = ps[q].attempt
             PROVE  p = q
  OBVIOUS
<1>1. p \in Nat \ {0} /\ q \in Nat \ {0}
  OBVIOUS
<1>2. \/ st.cmds[ps[p].attempt].pid = p
      \/ ag.pc = "spawned" /\ p = Len(ps) /\ ps[p].attempt = Head(ag.todo)
  BY DEF PidsFit
<1>3. \/ st.cmds[ps[q].attempt].pid = q
      \/ ag.pc = "spawned" /\ q = Len(ps) /\ ps[q].attempt = Head(ag.todo)
  BY DEF PidsFit
<1>4. ag.pc = "spawned" => st.cmds[Head(ag.todo)].pid = 0
  BY DEF PidsFit
<1> QED BY <1>1, <1>2, <1>3, <1>4

LEMMA SpawnedPending ==
    ASSUME NEW st, NEW ag \in Agents, ListFits(st, ag), ag.pc = "spawned"
    PROVE  Head(ag.todo) \in DOMAIN st.cmds /\ st.cmds[Head(ag.todo)].state = "pending"
<1>1. ag.todo \in Seq(AttemptIds) /\ ag.todo # << >>
  BY DEF Agents, ListFits
<1>2. 1 \in DOMAIN ag.todo /\ Head(ag.todo) = ag.todo[1]
  BY <1>1
<1> QED BY <1>2 DEF ListFits, Launching

\* The first command of a list.
LEMMA FirstListed ==
    ASSUME NEW st, NEW ag \in Agents, ListFits(st, ag), ag.todo # << >>
    PROVE  LET a == Head(ag.todo)
           IN  /\ a \in AttemptIds
               /\ ag.pc \in Reconciling \cup Launching => a \in DOMAIN st.cmds
               /\ ag.pc \in Reconciling => st.cmds[a].state = "running"
               /\ ag.pc \in {"launch", "spawned"} => st.cmds[a].state = "pending"
               /\ ag.pc = "unstarted" =>
                     st.cmds[a].state = "running" /\ st.cmds[a].pid = 0
<1>1. ag.todo \in Seq(AttemptIds)
  BY DEF Agents
<1>2. 1 \in DOMAIN ag.todo /\ Head(ag.todo) = ag.todo[1] /\ ag.todo[1] \in AttemptIds
  BY <1>1
<1> QED BY <1>2 DEF ListFits, Reconciling, Launching

\* What is left of a list.
LEMMA RestListed ==
    ASSUME NEW S, NEW todo \in Seq(S), todo # << >>,
           \A i, k \in DOMAIN todo : todo[i] = todo[k] => i = k
    PROVE  LET rest == Tail(todo)
           IN  /\ rest \in Seq(S)
               /\ \A i, k \in DOMAIN rest : rest[i] = rest[k] => i = k
               /\ \A i \in DOMAIN rest : /\ i + 1 \in DOMAIN todo /\ i + 1 # 1
                                         /\ rest[i] = todo[i + 1] /\ rest[i] # Head(todo)
<1> DEFINE rest == Tail(todo)
<1>1. /\ rest \in Seq(S) /\ Len(rest) = Len(todo) - 1 /\ Len(todo) \in Nat \ {0}
      /\ Head(todo) = todo[1]
  OBVIOUS
<1>2. ASSUME NEW i \in DOMAIN rest
      PROVE  i \in Nat /\ i + 1 \in DOMAIN todo /\ i + 1 # 1 /\ rest[i] = todo[i + 1]
  BY <1>1
<1>3. 1 \in DOMAIN todo
  BY <1>1
<1> HIDE DEF rest
<1>4. ASSUME NEW i \in DOMAIN rest, NEW k \in DOMAIN rest, rest[i] = rest[k] PROVE i = k
  <2>1. i + 1 = k + 1
    BY <1>2, <1>4
  <2> QED BY <1>2, <2>1
<1>5. ASSUME NEW i \in DOMAIN rest PROVE rest[i] # Head(todo)
  BY <1>1, <1>2, <1>3
<1> QED BY <1>1, <1>2, <1>4, <1>5 DEF rest

\* A step that leaves processes and files alone and neither records a process nor
\* looks at one.
LEMMA Quietly ==
    ASSUME NEW st, NEW ag, NEW ps, NEW fs, Machine(st, ag, ps, fs),
           NEW st2 \in Stores, NEW ag2 \in Agents, ListFits(st2, ag2),
           DOMAIN st2.cmds = DOMAIN st.cmds, ag2.inbox.run \subseteq ag.inbox.run,
           ag.pc # "spawned", ag2.pc \notin {"spawned", "alive", "finish"},
           Fit(st, ag, ps, fs) =>
              /\ \A a \in DOMAIN st.cmds :
                    /\ st2.cmds[a].pid = st.cmds[a].pid
                    /\ st2.cmds[a].state = "pending" => st.cmds[a].state = "pending"
                    /\ st.cmds[a].state = "finished" => st2.cmds[a].state = "finished"
                    /\ st2.cmds[a].state = "finished" /\ st.cmds[a].state # "finished"
                          => NoneRuns(ps, a)
              /\ TellsTruth(st, st2, fs)
    PROVE  Goes(st, ag, ps, fs, st2, ag2, ps, fs)
<1>1. Machine(st2, ag2, ps, fs)
  BY DEF Machine
<1>2. ASSUME Fit(st, ag, ps, fs)
      PROVE  /\ Fit(st2, ag2, ps, fs)
             /\ \A a \in AttemptIds, ok \in BOOLEAN : Over(st, fs, a, ok) => Over(st2, fs, a, ok)
             /\ TellsTruth(st, st2, fs)
  <2>1. PidsFit(st2, ag2, ps)
    BY <1>2 DEF Fit, PidsFit
  <2>2. OutcomesFit(st2, ag2, ps, fs)
    BY <1>2 DEF Fit, OutcomesFit
  <2>3. \A a \in AttemptIds, ok \in BOOLEAN : Over(st, fs, a, ok) => Over(st2, fs, a, ok)
    BY <1>2 DEF Over
  <2> QED BY <1>2, <2>1, <2>2, <2>3 DEF Fit
<1> QED BY <1>1, <1>2 DEF Goes

\* An event that tells no end is true.
LEMMA NotFinished ==
    ASSUME NEW st, NEW fs, NEW old, NEW w, NEW body, body.kind # "attempt_finished"
    PROVE  Truthful(st, fs, Message(old, w, body))
BY DEF Truthful, Message

\* What is in an outbox after an event was appended.
LEMMA AppendedTo ==
    ASSUME NEW S, NEW es \in Seq(S), NEW e
    PROVE  \A i \in DOMAIN Append(es, e) :
              (\E k \in DOMAIN es : Append(es, e)[i] = es[k]) \/ Append(es, e)[i] = e
<1> DEFINE T == S \cup {e}
<1>0. es \in Seq(T) /\ e \in T
  OBVIOUS
<1> HIDE DEF T
<1>1. /\ Append(es, e) \in Seq(T) /\ Len(Append(es, e)) = Len(es) + 1
      /\ Append(es, e)[Len(es) + 1] = e /\ Len(es) \in Nat
      /\ \A i \in 1 .. Len(es) : Append(es, e)[i] = es[i]
  BY <1>0
<1>2. DOMAIN es = 1 .. Len(es) /\ DOMAIN Append(es, e) = 1 .. Len(es) + 1
  BY <1>1
<1>3. \A i \in 1 .. Len(es) + 1 : i \in 1 .. Len(es) \/ i = Len(es) + 1
  BY <1>1
<1> QED BY <1>1, <1>2, <1>3

\* One true event more.
LEMMA Appended ==
    ASSUME NEW st \in Stores, NEW st2 \in Stores, NEW fs, NEW e,
           st2.outbox = Append(st.outbox, e), Truthful(st2, fs, e)
    PROVE  TellsTruth(st, st2, fs)
<1>1. st.outbox \in Seq(Messages)
  BY StoreShape
<1>2. \A i \in DOMAIN st2.outbox :
         (\E k \in DOMAIN st.outbox : st2.outbox[i] = st.outbox[k]) \/ st2.outbox[i] = e
  BY <1>1, AppendedTo
<1> QED BY <1>2 DEF TellsTruth

LEMMA ReapGoes ==
    ASSUME NEW w \in Workers, NEW st, NEW ag, NEW ps, NEW fs, Machine(st, ag, ps, fs),
           ag.pc = "reap", NEW a \in Withdrawn(st),
           NEW st2, st2 = MarkFinished(st, w, a, FALSE, TRUE, {})
    PROVE  Goes(st, ag, ps, fs, st2, ag, ps, fs)
<1> DEFINE ok == FALSE
           tail == TRUE
           none == {}
           c == [st.cmds[a] EXCEPT !.state = "finished"]
           body == [kind |-> "attempt_finished", attempt |-> a, ok |-> ok,
                    tailFits |-> tail, files |-> none]
<1>1. /\ st \in Stores /\ ag \in Agents /\ ps \in Seq(Processes) /\ ListFits(st, ag)
      /\ a \in DOMAIN st.cmds /\ st.cmds[a].state = "pending" /\ st.cmds[a] \in Commands
  BY StoreShape DEF Machine, Withdrawn
<1>2. Told(st, w, a, c, body, st2)
  <2>1. ok \in BOOLEAN /\ tail \in BOOLEAN /\ none \in SUBSET Files
    OBVIOUS
  <2>2. st2 = MarkFinished(st, w, a, ok, tail, none)
    OBVIOUS
  <2> HIDE DEF ok, tail, none
  <2> QED BY <1>1, <2>1, <2>2, FinishedIs
<1>3. c.state = "finished" /\ c.pid = st.cmds[a].pid
  BY <1>1 DEF Commands
<1>4. body.kind = "attempt_finished" /\ body.attempt = a /\ body.ok = FALSE
  OBVIOUS
<1> HIDE DEF c, body
<1>5. ListFits(st2, ag)
  BY <1>1 DEF ListFits, Reconciling, Launching
<1>6. ASSUME Fit(st, ag, ps, fs) PROVE NoneRuns(ps, a)
  <2>1. st.cmds[a].pid = 0
    BY <1>1, <1>6 DEF Fit, PidsFit
  <2>2. \A p \in DOMAIN ps : ps[p].attempt = a => p = 0
    BY <1>6, <2>1 DEF Fit, PidsFit
  <2>3. \A p \in DOMAIN ps : p # 0
    BY <1>1
  <2> QED BY <2>2, <2>3 DEF NoneRuns
<1>7. Truthful(st2, fs, Message(st, w, body))
  BY <1>1, <1>2, <1>3, <1>4 DEF Truthful, Message, Over, Told
<1>8. TellsTruth(st, st2, fs)
  BY <1>1, <1>2, <1>7, Appended DEF Told
<1>9. /\ st2 \in Stores /\ DOMAIN st2.cmds = DOMAIN st.cmds
      /\ st2.cmds[a] = c /\ \A b \in DOMAIN st.cmds \ {a} : st2.cmds[b] = st.cmds[b]
  BY <1>2 DEF Told
<1> QED BY <1>1, <1>3, <1>5, <1>6, <1>8, <1>9, Quietly

\* A list of commands, in any order.
LEMMA SeqsListed ==
    ASSUME NEW S \in SUBSET AttemptIds, NEW list \in SetToSeqs(S)
    PROVE  /\ list \in Seq(AttemptIds) /\ list \in Seq(S)
           /\ \A i, k \in DOMAIN list : list[i] = list[k] => i = k
<1> DEFINE N == Cardinality(S)
<1>1. N \in Nat
  BY FiniteIds, FS_Subset, FS_CardinalityType
<1>2. list \in [1 .. N -> S] /\ \A i, k \in 1 .. N : i # k => list[i] # list[k]
  BY DEF SetToSeqs
<1> HIDE DEF N
<1>3. list \in [1 .. N -> AttemptIds]
  BY <1>2
<1>4. list \in Seq(S) /\ list \in Seq(AttemptIds)
  BY <1>1, <1>2, <1>3
<1> QED BY <1>2, <1>4

\* A step on the agent alone.
LEMMA AgentGoes ==
    ASSUME NEW st, NEW ag, NEW ps, NEW fs, Machine(st, ag, ps, fs),
           NEW ag2 \in Agents, ListFits(st, ag2), ag2.inbox.run \subseteq ag.inbox.run,
           ag.pc # "spawned", ag2.pc \notin {"spawned", "alive", "finish"}
    PROVE  Goes(st, ag, ps, fs, st, ag2, ps, fs)
<1>1. TellsTruth(st, st, fs)
  BY DEF TellsTruth
<1> QED BY <1>1, Quietly DEF Machine

LEMMA ListRunningGoes ==
    ASSUME NEW st, NEW ag, NEW ps, NEW fs, Machine(st, ag, ps, fs),
           ag.pc = "reap", ag.up, NEW list \in SetToSeqs(Running(st)),
           NEW ag2, ag2 = [ag EXCEPT !.pc = "ingest", !.todo = list]
    PROVE  Goes(st, ag, ps, fs, st, ag2, ps, fs)
<1>1. st \in Stores /\ ag \in Agents
  BY DEF Machine
<1>2. Running(st) \in SUBSET AttemptIds
  BY <1>1, StoreShape DEF Running
<1>3. /\ list \in Seq(AttemptIds) /\ list \in Seq(Running(st))
      /\ \A i, k \in DOMAIN list : list[i] = list[k] => i = k
  BY <1>2, SeqsListed
<1>4. \A i \in DOMAIN list : list[i] \in Running(st)
  BY <1>3
<1>5. /\ ag2 \in Agents /\ ag2.pc = "ingest" /\ ag2.todo = list /\ ag2.up
      /\ ag2.inbox = ag.inbox
  <2>1. "ingest" \in Phases
    BY DEF Phases
  <2> QED BY <1>1, <1>3, <2>1 DEF Agents
<1>6. ListFits(st, ag2)
  BY <1>3, <1>4, <1>5 DEF ListFits, Running, Reconciling, Launching
<1> QED BY <1>1, <1>5, <1>6, AgentGoes

\* Any error ends the cycle.
LEMMA ErrorGoes ==
    ASSUME NEW st, NEW ag, NEW ps, NEW fs, Machine(st, ag, ps, fs), ag.pc # "spawned",
           NEW ag2, ag2 = [ag EXCEPT !.pc = "reap", !.inbox = NoReply]
    PROVE  Goes(st, ag, ps, fs, st, ag2, ps, fs)
<1>1. NoReply \in Replies /\ NoReply.run = {} /\ "reap" \in Phases
  BY DEF NoReply, Replies, Phases
<1>2. ag2 \in Agents /\ ag2.pc = "reap" /\ ag2.inbox.run = {}
  BY <1>1 DEF Machine, Agents
<1>3. ListFits(st, ag2)
  BY <1>2 DEF ListFits, Reconciling, Launching
<1> QED BY <1>2, <1>3, AgentGoes

\* The agent goes to a phase in which it has no list.
LEMMA GotoGoes ==
    ASSUME NEW st, NEW ag, NEW ps, NEW fs, Machine(st, ag, ps, fs), ag.pc # "spawned",
           ag.up, NEW phase \in {"reap", "send", "wait", "accept", "ack"},
           NEW ag2, ag2 = [ag EXCEPT !.pc = phase]
    PROVE  Goes(st, ag, ps, fs, st, ag2, ps, fs)
<1>1. phase \in Phases
  BY DEF Phases
<1>2. ag2 \in Agents /\ ag2.pc = phase /\ ag2.inbox = ag.inbox /\ ag2.up
  BY <1>1 DEF Machine, Agents
<1>3. ListFits(st, ag2)
  BY <1>2 DEF ListFits, Reconciling, Launching
<1> QED BY <1>2, <1>3, AgentGoes

LEMMA EndOfFileGoes ==
    ASSUME NEW st, NEW ag, NEW ps, NEW fs, Machine(st, ag, ps, fs), ag.pc = "ingest",
           ag.todo # << >>, NEW ag2, ag2 = [ag EXCEPT !.pc = "status"]
    PROVE  Goes(st, ag, ps, fs, st, ag2, ps, fs)
<1>1. "status" \in Phases
  BY DEF Phases
<1>2. /\ ag2 \in Agents /\ ag2.pc = "status" /\ ag2.inbox = ag.inbox /\ ag2.up = ag.up
      /\ ag2.todo = ag.todo
  BY <1>1 DEF Machine, Agents
<1>3. ListFits(st, ag2)
  BY <1>2 DEF Machine, ListFits, Reconciling, Launching
<1> QED BY <1>2, <1>3, AgentGoes

\* The agent is done with the first command of its list.
LEMMA PassedOn ==
    ASSUME NEW st, NEW ag \in Agents, ListFits(st, ag), ag.todo # << >>,
           NEW st2, DOMAIN st2.cmds = DOMAIN st.cmds,
           \A b \in DOMAIN st.cmds \ {Head(ag.todo)} : st2.cmds[b].state = st.cmds[b].state,
           NEW ag2, ag2.todo = Tail(ag.todo), ag2.up = ag.up,
           \/ ag.pc \in Reconciling /\ ag2.pc = "ingest"
           \/ ag.pc \in Launching /\ ag2.pc = "launch"
    PROVE  ListFits(st2, ag2)
<1> DEFINE todo == ag.todo
           rest == ag2.todo
<1>1. todo \in Seq(AttemptIds) /\ \A i, k \in DOMAIN todo : todo[i] = todo[k] => i = k
  BY DEF Agents, ListFits
<1>2. /\ rest \in Seq(AttemptIds)
      /\ \A i, k \in DOMAIN rest : rest[i] = rest[k] => i = k
      /\ \A i \in DOMAIN rest : /\ i + 1 \in DOMAIN todo /\ i + 1 # 1
                                /\ rest[i] = todo[i + 1] /\ rest[i] # Head(todo)
  BY <1>1, RestListed
<1>3. ag2.up
  BY DEF ListFits, Reconciling, Launching
<1> HIDE DEF todo, rest
<1>4. ASSUME NEW i \in DOMAIN rest
      PROVE  /\ rest[i] \in DOMAIN st2.cmds /\ st2.cmds[rest[i]].state = st.cmds[rest[i]].state
             /\ ag.pc \in Reconciling => st.cmds[rest[i]].state = "running"
             /\ ag.pc \in Launching => st.cmds[rest[i]].state = "pending"
  <2>1. /\ i + 1 \in DOMAIN todo /\ i + 1 # 1 /\ rest[i] = todo[i + 1]
        /\ rest[i] # Head(ag.todo)
    BY <1>2 DEF todo
  <2>2. /\ todo[i + 1] \in DOMAIN st.cmds
        /\ ag.pc \in Reconciling => st.cmds[todo[i + 1]].state = "running"
        /\ ag.pc \in Launching => st.cmds[todo[i + 1]].state = "pending"
    BY <2>1 DEF ListFits, todo
  <2> QED BY <2>1, <2>2
<1>5. ListFits(st2, ag2)
  BY <1>2, <1>3, <1>4 DEF ListFits, Reconciling, Launching, rest
<1> QED BY <1>5

\* TakeLine.
LEMMA LineGoes ==
    ASSUME NEW w \in Workers, NEW st, NEW ag, NEW ps, NEW fs, Machine(st, ag, ps, fs),
           ag.pc = "ingest", ag.todo # << >>, NEW line \in Lines,
           NEW st2, st2 = TakeLine(st, w, Head(ag.todo), line)
    PROVE  Goes(st, ag, ps, fs, st2, ag, ps, fs)
<1> DEFINE a == Head(ag.todo)
           body == [kind |-> "metric_sample", attempt |-> a, point |-> line]
           c == [st.cmds[a] EXCEPT !.offset = @ + 1]
<1>1. st \in Stores /\ ag \in Agents /\ ListFits(st, ag)
  BY DEF Machine
<1>2. a \in DOMAIN st.cmds
  BY <1>1, FirstListed DEF Reconciling
<1>3. st.cmds \in [DOMAIN st.cmds -> Commands]
  BY <1>1, StoreShape
<1> HIDE DEF a
<1>4. /\ st2 \in Stores /\ st2.cmds = [st.cmds EXCEPT ![a] = c]
      /\ line = Unreadable => st2.outbox = st.outbox
      /\ line # Unreadable => st2.outbox = Append(st.outbox, Message(st, w, body))
  BY <1>1, <1>2, LineIs DEF a
<1>5. /\ DOMAIN st2.cmds = DOMAIN st.cmds
      /\ \A b \in DOMAIN st.cmds : /\ st2.cmds[b].state = st.cmds[b].state
                                   /\ st2.cmds[b].pid = st.cmds[b].pid
  <2>1. c.state = st.cmds[a].state /\ c.pid = st.cmds[a].pid
    BY <1>2, <1>3 DEF Commands
  <2> HIDE DEF c
  <2> QED BY <1>2, <1>3, <1>4, <2>1
<1>6. body.kind # "attempt_finished"
  OBVIOUS
<1> HIDE DEF body
<1>7. TellsTruth(st, st2, fs)
  <2>1. CASE line = Unreadable
    BY <1>4, <2>1 DEF TellsTruth
  <2>2. CASE line # Unreadable
    <3>1. Truthful(st2, fs, Message(st, w, body))
      BY <1>6, NotFinished
    <3> QED BY <1>1, <1>4, <2>2, <3>1, Appended
  <2> QED BY <2>1, <2>2
<1>8. ListFits(st2, ag)
  BY <1>1, <1>5 DEF ListFits, Reconciling, Launching
<1> QED BY <1>1, <1>4, <1>5, <1>7, <1>8, Quietly

\* ReadRunStatus: a status is there only when the only process of the attempt is
\* through.
LEMMA StatusGoes ==
    ASSUME NEW st, NEW ag, NEW ps, NEW fs, Machine(st, ag, ps, fs), ag.pc = "status",
           NEW found, found = fs[Head(ag.todo)].status,
           NEW ag2, ag2 = [ag EXCEPT !.found = found,
                                     !.pc = IF found = "none" THEN "alive" ELSE "finish"]
    PROVE  Goes(st, ag, ps, fs, st, ag2, ps, fs)
<1> DEFINE a == Head(ag.todo)
<1>1. st \in Stores /\ ag \in Agents /\ ListFits(st, ag) /\ ag.todo # << >>
  BY DEF Machine, ListFits
<1>2. a \in AttemptIds
  BY <1>1, FirstListed
<1>3. found \in {"none", "ok", "bad"}
  BY <1>2 DEF Machine, FileRows
<1>4. /\ ag2 \in Agents /\ ag2.found = found /\ ag2.todo = ag.todo /\ ag2.up = ag.up
      /\ ag2.inbox = ag.inbox
      /\ ag2.pc = IF found = "none" THEN "alive" ELSE "finish"
  BY <1>1, <1>3 DEF Agents, Phases
<1>5. ListFits(st, ag2)
  BY <1>1, <1>4 DEF ListFits, Reconciling, Launching
<1>6. ASSUME Fit(st, ag, ps, fs) PROVE Fit(st, ag2, ps, fs)
  <2>1. PidsFit(st, ag2, ps)
    BY <1>4, <1>6 DEF Fit, PidsFit
  <2>2. ASSUME found # "none" PROVE NoneRuns(ps, a)
    <3>1. PICK p \in DOMAIN ps : ps[p].attempt = a /\ ps[p].st # "running"
      BY <1>2, <1>6, <2>2 DEF Fit, OutcomesFit
    <3>2. \A q \in DOMAIN ps : ps[q].attempt = a => q = p
      BY <1>6, <3>1, OneProcess DEF Fit, Machine
    <3> QED BY <3>1, <3>2 DEF NoneRuns
  <2>3. OutcomesFit(st, ag2, ps, fs)
    BY <1>4, <1>6, <2>2 DEF Fit, OutcomesFit
  <2> QED BY <2>1, <2>3 DEF Fit
<1>7. TellsTruth(st, st, fs)
  BY DEF TellsTruth
<1>8. Machine(st, ag2, ps, fs)
  BY <1>4, <1>5 DEF Machine
<1> QED BY <1>4, <1>6, <1>7, <1>8 DEF Goes

\* A process that is not alive.
LEMMA DeadGoes ==
    ASSUME NEW st, NEW ag, NEW ps, NEW fs, Machine(st, ag, ps, fs), ag.pc = "alive",
           LET pid == st.cmds[Head(ag.todo)].pid IN pid > 0 => ps[pid].st = "gone",
           NEW ag2, ag2 = [ag EXCEPT !.pc = "finish"]
    PROVE  Goes(st, ag, ps, fs, st, ag2, ps, fs)
<1> DEFINE a == Head(ag.todo)
           pid == st.cmds[a].pid
<1>1. st \in Stores /\ ag \in Agents /\ ListFits(st, ag) /\ ag.todo # << >>
  BY DEF Machine, ListFits
<1>2. a \in AttemptIds /\ a \in DOMAIN st.cmds
  BY <1>1, FirstListed DEF Reconciling
<1>3. /\ ag2 \in Agents /\ ag2.found = ag.found /\ ag2.todo = ag.todo /\ ag2.up = ag.up
      /\ ag2.inbox = ag.inbox /\ ag2.pc = "finish"
  BY <1>1 DEF Agents, Phases
<1>4. ListFits(st, ag2)
  BY <1>1, <1>3 DEF ListFits, Reconciling, Launching
<1>5. ASSUME Fit(st, ag, ps, fs) PROVE Fit(st, ag2, ps, fs)
  <2>1. PidsFit(st, ag2, ps)
    BY <1>3, <1>5 DEF Fit, PidsFit
  <2>2. NoneRuns(ps, a)
    <3>1. \A p \in DOMAIN ps : ps[p].attempt = a => p = pid
      BY <1>5 DEF Fit, PidsFit
    <3>2. \A p \in DOMAIN ps : p > 0
      BY DEF Machine
    <3> QED BY <3>1, <3>2 DEF NoneRuns
  <2>3. OutcomesFit(st, ag2, ps, fs)
    BY <1>3, <1>5, <2>2 DEF Fit, OutcomesFit
  <2> QED BY <2>1, <2>3 DEF Fit
<1>6. TellsTruth(st, st, fs)
  BY DEF TellsTruth
<1>7. Machine(st, ag2, ps, fs)
  BY <1>3, <1>4 DEF Machine
<1> QED BY <1>3, <1>5, <1>6, <1>7 DEF Goes

\* Processes end, files grow; the status of an attempt is written when its process
\* stops running.
LEMMA EndingGoes ==
    ASSUME NEW st, NEW ag, NEW ps, NEW fs, Machine(st, ag, ps, fs),
           NEW ag2 \in Agents, ListFits(st, ag2), ag2.inbox.run \subseteq ag.inbox.run,
           \/ ag2 = ag
           \/ ag.pc # "spawned" /\ ag2.pc \notin {"spawned", "alive", "finish"},
           NEW ps2 \in Seq(Processes), DOMAIN ps2 = DOMAIN ps,
           \A p \in DOMAIN ps : /\ ps2[p].attempt = ps[p].attempt
                                /\ ps2[p].st = "running" => ps[p].st = "running",
           NEW fs2 \in [AttemptIds -> FileRows], Sized(fs2),
           \A a \in AttemptIds :
              \/ fs2[a].status = fs[a].status
              \/ \E p \in DOMAIN ps : /\ ps[p].attempt = a /\ ps[p].st = "running"
                                      /\ ps2[p].st # "running"
    PROVE  Goes(st, ag, ps, fs, st, ag2, ps2, fs2)
<1>1. st \in Stores /\ ag \in Agents /\ ListFits(st, ag) /\ ps \in Seq(Processes)
  BY DEF Machine
<1>2. \A a : NoneRuns(ps, a) => NoneRuns(ps2, a)
  BY DEF NoneRuns
<1>3. \A a \in AttemptIds : NoneRuns(ps, a) => fs2[a].status = fs[a].status
  BY DEF NoneRuns
<1>4. Len(ps2) = Len(ps)
  <2>1. DOMAIN ps = 1 .. Len(ps) /\ DOMAIN ps2 = 1 .. Len(ps2)
    BY <1>1
  <2>2. Len(ps) \in Nat /\ Len(ps2) \in Nat
    BY <1>1
  <2> QED BY <2>1, <2>2
<1>5. ps # << >> => ps2 # << >>
  BY <1>1, <1>4
<1>6. ASSUME Fit(st, ag, ps, fs)
      PROVE  /\ Fit(st, ag2, ps2, fs2)
             /\ \A a \in AttemptIds, ok \in BOOLEAN : Over(st, fs, a, ok) => Over(st, fs2, a, ok)
             /\ TellsTruth(st, st, fs2)
  <2>1. PidsFit(st, ag2, ps2)
    <3>1. CASE ag2 = ag
      <4>1. ag.pc = "spawned" => Len(ps) \in DOMAIN ps
        BY <1>1, <1>6 DEF Fit, PidsFit
      <4> QED BY <1>4, <1>5, <1>6, <3>1, <4>1 DEF Fit, PidsFit
    <3>2. CASE ag.pc # "spawned" /\ ag2.pc \notin {"spawned", "alive", "finish"}
      BY <1>6, <3>2 DEF Fit, PidsFit
    <3> QED BY <3>1, <3>2
  <2>2. ag.pc = "finish" => Head(ag.todo) \in AttemptIds
    BY <1>1, FirstListed DEF ListFits
  <2>3. \A a \in AttemptIds :
           fs2[a].status # "none" =>
              \E p \in DOMAIN ps2 : ps2[p].attempt = a /\ ps2[p].st # "running"
    BY <1>6 DEF Fit, OutcomesFit
  <2>4. /\ \A a \in DOMAIN st.cmds : st.cmds[a].state = "finished" => NoneRuns(ps2, a)
        /\ ag.pc = "alive" => ag.found = "none"
        /\ ag.pc = "finish" =>
              /\ NoneRuns(ps2, Head(ag.todo))
              /\ ag.found # "none" => fs2[Head(ag.todo)].status = ag.found
    BY <1>2, <1>3, <1>6, <2>2 DEF Fit, OutcomesFit
  <2>5. OutcomesFit(st, ag2, ps2, fs2)
    BY <2>3, <2>4 DEF OutcomesFit
  <2>6. \A a \in AttemptIds, ok \in BOOLEAN : Over(st, fs, a, ok) => Over(st, fs2, a, ok)
    BY <1>3, <1>6 DEF Fit, OutcomesFit, Over
  <2>7. TellsTruth(st, st, fs2)
    BY DEF TellsTruth
  <2> QED BY <2>1, <2>5, <2>6, <2>7 DEF Fit
<1>7. Machine(st, ag2, ps2, fs2)
  BY <1>1 DEF Machine
<1> QED BY <1>6, <1>7 DEF Goes

\* On to the next command that is running.
LEMMA NextGoes ==
    ASSUME NEW st, NEW ag, NEW ps, NEW fs, Machine(st, ag, ps, fs), ag.pc = "alive",
           NEW ag2, ag2 = [ag EXCEPT !.pc = "ingest", !.todo = Tail(@)]
    PROVE  /\ ag2 \in Agents /\ ag2.pc = "ingest" /\ ag2.inbox = ag.inbox /\ ListFits(st, ag2)
           /\ Goes(st, ag, ps, fs, st, ag2, ps, fs)
<1>1. st \in Stores /\ ag \in Agents /\ ListFits(st, ag) /\ ag.todo # << >>
  BY DEF Machine, ListFits
<1>2. /\ ag2 \in Agents /\ ag2.todo = Tail(ag.todo) /\ ag2.up = ag.up
      /\ ag2.inbox = ag.inbox /\ ag2.pc = "ingest"
  <2>1. Tail(ag.todo) \in Seq(AttemptIds)
    BY <1>1 DEF Agents
  <2> QED BY <1>1, <2>1 DEF Agents, Phases
<1>3. ListFits(st, ag2)
  BY <1>1, <1>2, PassedOn DEF Reconciling
<1> QED BY <1>1, <1>2, <1>3, AgentGoes

LEMMA FunctionIsSeq ==
    ASSUME NEW S, NEW n \in Nat, NEW f \in [1 .. n -> S]
    PROVE  f \in Seq(S) /\ Len(f) = n
OBVIOUS

\* SIGKILL.
LEMMA KillGoes ==
    ASSUME NEW st, NEW ag, NEW ps, NEW fs, Machine(st, ag, ps, fs), ag.pc = "alive",
           NEW ag2, ag2 = [ag EXCEPT !.pc = "ingest", !.todo = Tail(@)],
           NEW pid, NEW ps2, ps2 = [ps EXCEPT ![pid].st = "gone"]
    PROVE  Goes(st, ag, ps, fs, st, ag2, ps2, fs)
<1>1. ag2 \in Agents /\ ag2.pc = "ingest" /\ ag2.inbox = ag.inbox /\ ListFits(st, ag2)
  BY NextGoes
<1>2. ps \in Seq(Processes)
  BY DEF Machine
<1>3. /\ ps2 \in Seq(Processes) /\ DOMAIN ps2 = DOMAIN ps
      /\ \A p \in DOMAIN ps : /\ ps2[p].attempt = ps[p].attempt
                              /\ ps2[p].st = "running" => ps[p].st = "running"
  <2>1. DOMAIN ps2 = DOMAIN ps
    OBVIOUS
  <2>2. ASSUME NEW p \in DOMAIN ps
        PROVE  /\ ps2[p] \in Processes /\ ps2[p].attempt = ps[p].attempt
               /\ ps2[p].st = "running" => ps[p].st = "running"
    <3>1. ps[p] \in Processes
      BY <1>2
    <3>2. ps2[p] = IF p = pid THEN [ps[p] EXCEPT !.st = "gone"] ELSE ps[p]
      OBVIOUS
    <3> QED BY <3>1, <3>2 DEF Processes
  <2>3. ps2 \in Seq(Processes)
    <3>1. DOMAIN ps = 1 .. Len(ps) /\ Len(ps) \in Nat
      BY <1>2
    <3>2. ps2 \in [1 .. Len(ps) -> Processes]
      BY <2>2, <3>1
    <3> QED BY <3>1, <3>2, FunctionIsSeq
  <2> QED BY <2>1, <2>2, <2>3
<1>4. fs \in [AttemptIds -> FileRows] /\ Sized(fs)
  BY DEF Machine
<1> QED BY <1>1, <1>3, <1>4, EndingGoes

\* A command without a process.
LEMMA NoPid ==
    ASSUME NEW st, NEW ag, NEW ps \in Seq(Processes), NEW fs, Fit(st, ag, ps, fs),
           ag.pc # "spawned", NEW a, st.cmds[a].pid = 0
    PROVE  NoneRuns(ps, a)
<1>1. \A p \in DOMAIN ps : ps[p].attempt = a => p = 0
  BY DEF Fit, PidsFit
<1>2. \A p \in DOMAIN ps : p # 0
  OBVIOUS
<1> QED BY <1>1, <1>2 DEF NoneRuns

\* A sweep announces artifacts, or none is due.
LEMMA WatchGoes ==
    ASSUME NEW w \in Workers, NEW st, NEW ag, NEW ps, NEW fs, Machine(st, ag, ps, fs),
           ag.pc = "alive", NEW changed \in SUBSET Files,
           NEW st2, st2 \in {st, AnnounceArtifacts(st, w, Head(ag.todo), changed)},
           NEW ag2 \in Agents, ag2.pc = "ingest", ag2.todo = Tail(ag.todo),
           ag2.up = ag.up, ag2.inbox = ag.inbox
    PROVE  Goes(st, ag, ps, fs, st2, ag2, ps, fs)
<1> DEFINE a == Head(ag.todo)
           body == [kind |-> "artifacts", attempt |-> a, files |-> changed]
<1>1. st \in Stores /\ ag \in Agents /\ ListFits(st, ag) /\ ag.todo # << >>
  BY DEF Machine, ListFits
<1>2. a \in AttemptIds
  BY <1>1, FirstListed
<1>3. body.kind # "attempt_finished"
  OBVIOUS
<1> HIDE DEF a
<1>4. /\ st2 \in Stores /\ st2.cmds = st.cmds
      /\ st2 = st \/ st2.outbox = Append(st.outbox, Message(st, w, body))
  BY <1>1, <1>2, AnnouncedIs DEF a
<1> HIDE DEF body
<1>5. TellsTruth(st, st2, fs)
  <2>1. CASE st2 = st
    BY <2>1 DEF TellsTruth
  <2>2. CASE st2.outbox = Append(st.outbox, Message(st, w, body))
    BY <1>1, <1>3, <1>4, <2>2, NotFinished, Appended
  <2> QED BY <1>4, <2>1, <2>2
<1>6. ListFits(st2, ag2)
  BY <1>1, <1>4, PassedOn DEF Reconciling
<1> QED BY <1>1, <1>4, <1>5, <1>6, Quietly

\* The end of an attempt is reported: no process of it runs, and exit code 0 is what
\* its status says.
LEMMA EndGoes ==
    ASSUME NEW w \in Workers, NEW st, NEW ag, NEW ps, NEW fs, Machine(st, ag, ps, fs),
           ag.pc \in {"finish", "unstarted"}, NEW ok \in BOOLEAN, NEW tail \in BOOLEAN,
           NEW sent \in SUBSET Files, ok => ag.pc = "finish" /\ ag.found = "ok",
           NEW st2, st2 = MarkFinished(st, w, Head(ag.todo), ok, tail, sent),
           NEW ag2 \in Agents, ag2.pc = (IF ag.pc = "finish" THEN "ingest" ELSE "launch"),
           ag2.todo = Tail(ag.todo), ag2.up = ag.up, ag2.inbox = ag.inbox
    PROVE  Goes(st, ag, ps, fs, st2, ag2, ps, fs)
<1> DEFINE a == Head(ag.todo)
           c == [st.cmds[a] EXCEPT !.state = "finished"]
           body == [kind |-> "attempt_finished", attempt |-> a, ok |-> ok,
                    tailFits |-> tail, files |-> sent]
<1>1. /\ st \in Stores /\ ag \in Agents /\ ListFits(st, ag) /\ ag.todo # << >>
      /\ ps \in Seq(Processes)
  BY DEF Machine, ListFits
<1>2. /\ a \in AttemptIds /\ a \in DOMAIN st.cmds /\ st.cmds[a].state = "running"
      /\ ag.pc = "unstarted" => st.cmds[a].pid = 0
  BY <1>1, FirstListed DEF Reconciling, Launching
<1>3. Told(st, w, a, c, body, st2)
  BY <1>1, <1>2, FinishedIs
<1>4. c.state = "finished" /\ c.pid = st.cmds[a].pid
  BY <1>1, <1>2, StoreShape DEF Commands
<1>5. body.kind = "attempt_finished" /\ body.attempt = a /\ body.ok = ok
  OBVIOUS
<1> HIDE DEF c, body
<1>6. /\ st2 \in Stores /\ DOMAIN st2.cmds = DOMAIN st.cmds /\ st2.cmds[a] = c
      /\ \A b \in DOMAIN st.cmds \ {a} : st2.cmds[b] = st.cmds[b]
      /\ st2.outbox = Append(st.outbox, Message(st, w, body))
  BY <1>3 DEF Told
<1>7. ListFits(st2, ag2)
  BY <1>1, <1>6, PassedOn DEF Reconciling, Launching
<1>8. ASSUME Fit(st, ag, ps, fs)
      PROVE  NoneRuns(ps, a) /\ TellsTruth(st, st2, fs)
  <2>1. NoneRuns(ps, a)
    <3>1. CASE ag.pc = "finish"
      BY <1>8, <3>1 DEF Fit, OutcomesFit
    <3>2. CASE ag.pc = "unstarted"
      <4> HIDE DEF a
      <4> QED BY <1>1, <1>2, <1>8, <3>2, NoPid
    <3> QED BY <3>1, <3>2
  <2>2. ok => fs[a].status = "ok"
    BY <1>8 DEF Fit, OutcomesFit
  <2>3. Truthful(st2, fs, Message(st, w, body))
    BY <1>2, <1>4, <1>5, <1>6, <2>2 DEF Truthful, Message, Over
  <2> QED BY <1>1, <1>6, <2>1, <2>3, Appended
<1>9. \A b \in DOMAIN st.cmds :
         /\ st2.cmds[b].pid = st.cmds[b].pid
         /\ st2.cmds[b].state = "pending" => st.cmds[b].state = "pending"
         /\ st.cmds[b].state = "finished" => st2.cmds[b].state = "finished"
         /\ st2.cmds[b].state = "finished" /\ st.cmds[b].state # "finished" => b = a
  BY <1>2, <1>4, <1>6
<1> HIDE DEF a
<1> QED BY <1>1, <1>6, <1>7, <1>8, <1>9, Quietly

LEMMA AcceptGoes ==
    ASSUME NEW w \in Workers, NEW st, NEW ag, NEW ps, NEW fs, Machine(st, ag, ps, fs),
           ag.pc = "accept", IsFiniteSet(ag.inbox.run),
           NEW st2, st2 = WithCommands(st, w, ag.inbox.run, ag.inbox.cancel),
           NEW ag2, ag2 = [ag EXCEPT !.pc = "ack"]
    PROVE  Goes(st, ag, ps, fs, st2, ag2, ps, fs)
<1> DEFINE run == ag.inbox.run
           cancel == ag.inbox.cancel
<1>1. st \in Stores /\ ag \in Agents /\ ListFits(st, ag) /\ ag.up
  BY DEF Machine, ListFits
<1>2. run \in SUBSET [attempt : AttemptIds, rev : Nat] /\ cancel \in SUBSET AttemptIds
  BY <1>1 DEF Agents, Replies
<1>3. ag2 \in Agents /\ ag2.pc = "ack" /\ ag2.inbox = ag.inbox /\ ag2.up
  BY <1>1 DEF Agents, Phases
<1>4. ListFits(st2, ag2)
  BY <1>3 DEF ListFits, Reconciling, Launching
<1> HIDE DEF run, cancel
<1>5. Accepts(st, run, cancel, st2)
  BY <1>1, <1>2, AcceptIs DEF run, cancel
<1>6. /\ st2 \in Stores
      /\ DOMAIN st2.cmds = DOMAIN st.cmds \cup {r.attempt : r \in run}
      /\ \A a \in DOMAIN st2.cmds \ DOMAIN st.cmds :
            st2.cmds[a].state = "pending" /\ st2.cmds[a].pid = 0
  BY <1>5 DEF Accepts
<1>7. ASSUME NEW a \in DOMAIN st.cmds
      PROVE  st2.cmds[a].state = st.cmds[a].state /\ st2.cmds[a].pid = st.cmds[a].pid
  <2>1. st.cmds[a] \in Commands
    BY <1>1, StoreShape
  <2>2. \/ st2.cmds[a] = st.cmds[a]
        \/ st2.cmds[a] = [st.cmds[a] EXCEPT !.cancel = "asked"]
    BY <1>5 DEF Accepts
  <2> QED BY <2>1, <2>2 DEF Commands
<1>8. TellsTruth(st, st2, fs)
  <2>1. st.outbox \in Seq(Messages) /\ st2.outbox \in Seq(Messages)
    BY <1>1, <1>6, StoreShape
  <2>2. ASSUME NEW i \in DOMAIN st2.outbox
        PROVE  \/ \E k \in DOMAIN st.outbox : st2.outbox[i] = st.outbox[k]
               \/ Truthful(st2, fs, st2.outbox[i])
    <3>1. CASE i <= Len(st.outbox)
      <4>1. i \in DOMAIN st.outbox
        BY <2>1, <3>1
      <4> QED BY <1>5, <3>1, <4>1 DEF Accepts
    <3>2. CASE ~(i <= Len(st.outbox))
      BY <1>5, <3>2 DEF Accepts, Truthful
    <3> QED BY <3>1, <3>2
  <2> QED BY <2>2 DEF TellsTruth
<1>9. ASSUME Fit(st, ag, ps, fs)
      PROVE  /\ Fit(st2, ag2, ps, fs)
             /\ \A a \in AttemptIds, ok \in BOOLEAN : Over(st, fs, a, ok) => Over(st2, fs, a, ok)
  <2>1. PidsFit(st2, ag2, ps)
    <3>1. PidsFit(st, ag, ps)
      BY <1>9 DEF Fit
    <3>2. \A a \in DOMAIN st2.cmds :
             /\ st2.cmds[a].state = "pending" => st2.cmds[a].pid = 0
             /\ st2.cmds[a].pid # 0 => /\ st2.cmds[a].pid \in DOMAIN ps
                                       /\ ps[st2.cmds[a].pid].attempt = a
      BY <1>6, <1>7, <3>1 DEF PidsFit
    <3>3. \A p \in DOMAIN ps : /\ ps[p].attempt \in DOMAIN st2.cmds
                               /\ st2.cmds[ps[p].attempt].pid = p
      BY <1>6, <1>7, <3>1 DEF PidsFit
    <3> QED BY <1>3, <3>2, <3>3 DEF PidsFit
  <2>2. OutcomesFit(st2, ag2, ps, fs)
    BY <1>3, <1>6, <1>7, <1>9 DEF Fit, OutcomesFit
  <2>3. \A a \in AttemptIds, ok \in BOOLEAN : Over(st, fs, a, ok) => Over(st2, fs, a, ok)
    BY <1>6, <1>7 DEF Over
  <2> QED BY <2>1, <2>2, <2>3 DEF Fit
<1>10. Machine(st2, ag2, ps, fs)
  BY <1>3, <1>4, <1>6 DEF Machine
<1> QED BY <1>3, <1>6, <1>8, <1>9, <1>10 DEF Goes, run

\* A part of a sequence.
LEMMA PartOf ==
    ASSUME NEW S, NEW es \in Seq(S), NEW m \in Nat \ {0}, NEW n \in Nat, n <= Len(es)
    PROVE  LET part == SubSeq(es, m, n)
           IN  /\ part \in Seq(S)
               /\ \A i \in DOMAIN part : /\ i \in Nat /\ m + i - 1 \in DOMAIN es
                                         /\ part[i] = es[m + i - 1]
<1> DEFINE part == SubSeq(es, m, n)
<1>1. \A i \in m .. n : i \in 1 .. Len(es)
  OBVIOUS
<1>2. \A i \in m .. n : es[i] \in S
  BY <1>1
<1>3. /\ part \in Seq(S) /\ Len(part) = IF m <= n THEN n - m + 1 ELSE 0
      /\ \A i \in 1 .. n - m + 1 : part[i] = es[m + i - 1]
  BY <1>2, SubSeqProperties
<1> HIDE DEF part
<1>4. DOMAIN part = 1 .. Len(part)
  BY <1>3
<1>5. ASSUME NEW i \in DOMAIN part
      PROVE  i \in Nat /\ i \in 1 .. n - m + 1 /\ m + i - 1 \in m .. n
  BY <1>3, <1>4
<1> QED BY <1>1, <1>3, <1>5 DEF part

\* What Acknowledge leaves was there.
LEMMA AfterIs ==
    ASSUME NEW es \in Seq(Messages), NEW through
    PROVE  /\ After(es, through) \in Seq(Messages)
           /\ \A i \in DOMAIN After(es, through) :
                 \E k \in DOMAIN es : After(es, through)[i] = es[k]
<1> DEFINE gone == {i \in DOMAIN es : es[i].seq <= through}
           n == 1 + Cardinality(gone)
           last == Len(es)
<1>1. Cardinality(gone) \in Nat
  <2>1. DOMAIN es = 1 .. Len(es) /\ Len(es) \in Int
    OBVIOUS
  <2>2. IsFiniteSet(1 .. Len(es))
    BY <2>1, FS_Interval
  <2>3. gone \subseteq 1 .. Len(es)
    BY <2>1
  <2> HIDE DEF gone
  <2> QED BY <2>2, <2>3, FS_Subset, FS_CardinalityType
<1>2. n \in Nat \ {0}
  BY <1>1
<1>3. last \in Nat /\ last <= Len(es)
  OBVIOUS
<1>4. After(es, through) = SubSeq(es, n, last)
  BY DEF After
<1> HIDE DEF n, last
<1>5. /\ SubSeq(es, n, last) \in Seq(Messages)
      /\ \A i \in DOMAIN SubSeq(es, n, last) : /\ n + i - 1 \in DOMAIN es
                                              /\ SubSeq(es, n, last)[i] = es[n + i - 1]
  BY <1>2, <1>3, PartOf
<1> QED BY <1>4, <1>5

LEMMA AckGoes ==
    ASSUME NEW st, NEW ag, NEW ps, NEW fs, Machine(st, ag, ps, fs), ag.pc = "ack",
           NEW st2, st2 = [st EXCEPT !.outbox = After(@, ag.inbox.through)],
           NEW list \in SetToSeqs(Pending(st)), NEW n \in Nat, n <= Len(list),
           NEW ag2, ag2 = [ag EXCEPT !.pc = "launch", !.inbox = NoReply,
                                     !.todo = SubSeq(list, 1, n)]
    PROVE  Goes(st, ag, ps, fs, st2, ag2, ps, fs)
<1> DEFINE todo == SubSeq(list, 1, n)
           rest == After(st.outbox, ag.inbox.through)
<1>1. st \in Stores /\ ag \in Agents /\ ListFits(st, ag) /\ ag.up
  BY DEF Machine, ListFits
<1>2. Pending(st) \in SUBSET AttemptIds
  BY <1>1, StoreShape DEF Pending
<1>3. list \in Seq(Pending(st)) /\ \A i, k \in DOMAIN list : list[i] = list[k] => i = k
  BY <1>2, SeqsListed
<1>4. /\ todo \in Seq(Pending(st))
      /\ \A i \in DOMAIN todo : /\ i \in Nat /\ 1 + i - 1 \in DOMAIN list
                                /\ todo[i] = list[1 + i - 1]
  <2>1. 1 \in Nat \ {0}
    OBVIOUS
  <2> QED BY <1>3, <2>1, PartOf
<1>5. rest \in Seq(Messages) /\ \A i \in DOMAIN rest : \E k \in DOMAIN st.outbox : rest[i] = st.outbox[k]
  <2>1. st.outbox \in Seq(Messages)
    BY <1>1, StoreShape
  <2> QED BY <2>1, AfterIs
<1> HIDE DEF todo, rest
<1>6. \A i, k \in DOMAIN todo : todo[i] = todo[k] => i = k
  <2> SUFFICES ASSUME NEW i \in DOMAIN todo, NEW k \in DOMAIN todo, todo[i] = todo[k]
               PROVE  i = k
    OBVIOUS
  <2>1. 1 + i - 1 = 1 + k - 1
    BY <1>3, <1>4
  <2> QED BY <1>4, <2>1
<1>7. \A i \in DOMAIN todo : todo[i] \in Pending(st)
  BY <1>4
<1>8. todo \in Seq(AttemptIds)
  BY <1>2, <1>4
<1>9. st2 \in Stores /\ st2.cmds = st.cmds /\ st2.outbox = rest
  BY <1>1, <1>5 DEF Stores, rest
<1>10. /\ ag2 \in Agents /\ ag2.pc = "launch" /\ ag2.todo = todo /\ ag2.up
       /\ ag2.inbox.run = {}
  <2>1. NoReply \in Replies /\ NoReply.run = {}
    BY DEF NoReply, Replies
  <2> QED BY <1>1, <1>8, <2>1 DEF Agents, Phases, todo
<1>11. ListFits(st2, ag2)
  BY <1>6, <1>7, <1>9, <1>10 DEF ListFits, Reconciling, Launching, Pending
<1>12. TellsTruth(st, st2, fs)
  BY <1>5, <1>9 DEF TellsTruth
<1> QED BY <1>9, <1>10, <1>11, <1>12, Quietly

\* launch, first step: a process more.
LEMMA StartGoes ==
    ASSUME NEW st, NEW ag, NEW ps, NEW fs, Machine(st, ag, ps, fs), ag.pc = "launch",
           ag.todo # << >>,
           NEW ps2, ps2 = Append(ps, [attempt |-> Head(ag.todo), st |-> "running"]),
           NEW ag2, ag2 = [ag EXCEPT !.pc = "spawned"]
    PROVE  Goes(st, ag, ps, fs, st, ag2, ps2, fs)
<1> DEFINE a == Head(ag.todo)
           new == [attempt |-> a, st |-> "running"]
<1>1. /\ st \in Stores /\ ag \in Agents /\ ListFits(st, ag) /\ ps \in Seq(Processes)
      /\ ag.up
  BY DEF Machine, ListFits
<1>2. a \in AttemptIds /\ a \in DOMAIN st.cmds /\ st.cmds[a].state = "pending"
  BY <1>1, FirstListed DEF Launching
<1>3. /\ ag2 \in Agents /\ ag2.pc = "spawned" /\ ag2.todo = ag.todo /\ ag2.up
      /\ ag2.inbox = ag.inbox
  BY <1>1 DEF Agents, Phases
<1>4. ListFits(st, ag2)
  BY <1>1, <1>3 DEF ListFits, Reconciling, Launching
<1>5. new \in Processes /\ new.attempt = a
  BY <1>2 DEF Processes
<1> HIDE DEF new
<1>6. /\ ps2 \in Seq(Processes) /\ Len(ps2) = Len(ps) + 1 /\ ps2[Len(ps2)] = new
      /\ Len(ps) \in Nat
      /\ \A p \in 1 .. Len(ps) : ps2[p] = ps[p]
  BY <1>1, <1>5 DEF new
<1>7. DOMAIN ps = 1 .. Len(ps) /\ DOMAIN ps2 = 1 .. Len(ps) + 1 /\ ps2 # << >>
  BY <1>1, <1>6
<1>8. /\ \A p \in DOMAIN ps : p \in DOMAIN ps2 /\ ps2[p] = ps[p]
      /\ \A p \in DOMAIN ps2 : p \in DOMAIN ps \/ p = Len(ps2)
  BY <1>6, <1>7
<1> HIDE DEF a
<1>9. ASSUME Fit(st, ag, ps, fs) PROVE Fit(st, ag2, ps2, fs)
  <2>1. PidsFit(st, ag2, ps2)
    <3>1. \A p \in DOMAIN ps : /\ ps[p].attempt \in DOMAIN st.cmds
                               /\ st.cmds[ps[p].attempt].pid = p
      BY <1>9 DEF Fit, PidsFit
    <3>2. \A b \in DOMAIN st.cmds :
             /\ st.cmds[b].state = "pending" => st.cmds[b].pid = 0
             /\ st.cmds[b].pid # 0 => /\ st.cmds[b].pid \in DOMAIN ps2
                                      /\ ps2[st.cmds[b].pid].attempt = b
      BY <1>8, <1>9 DEF Fit, PidsFit
    <3> QED BY <1>2, <1>3, <1>5, <1>6, <1>7, <1>8, <3>1, <3>2 DEF PidsFit, a
  <2>2. OutcomesFit(st, ag2, ps2, fs)
    <3>1. \A b \in AttemptIds :
             fs[b].status # "none" =>
                \E p \in DOMAIN ps2 : ps2[p].attempt = b /\ ps2[p].st # "running"
      BY <1>8, <1>9 DEF Fit, OutcomesFit
    <3>2. \A b \in DOMAIN st.cmds : st.cmds[b].state = "finished" => NoneRuns(ps2, b)
      BY <1>2, <1>5, <1>6, <1>8, <1>9 DEF Fit, OutcomesFit, NoneRuns
    <3> QED BY <1>3, <3>1, <3>2 DEF OutcomesFit
  <2> QED BY <2>1, <2>2 DEF Fit
<1>10. Machine(st, ag2, ps2, fs)
  BY <1>1, <1>3, <1>4, <1>6 DEF Machine
<1>11. TellsTruth(st, st, fs)
  BY DEF TellsTruth
<1> QED BY <1>3, <1>9, <1>10, <1>11 DEF Goes

\* launch, second step: its pid is recorded.
LEMMA RecordGoes ==
    ASSUME NEW w \in Workers, NEW st, NEW ag, NEW ps, NEW fs, Machine(st, ag, ps, fs),
           ag.pc = "spawned", NEW st2, st2 = MarkStarted(st, w, Head(ag.todo), Len(ps)),
           NEW ag2 \in Agents, ag2.pc = "launch", ag2.todo = Tail(ag.todo),
           ag2.up = ag.up, ag2.inbox = ag.inbox
    PROVE  Goes(st, ag, ps, fs, st2, ag2, ps, fs)
<1> DEFINE a == Head(ag.todo)
           pid == Len(ps)
           c == [st.cmds[a] EXCEPT !.state = "running", !.pid = pid]
           body == [kind |-> "attempt_started", attempt |-> a]
<1>1. /\ st \in Stores /\ ag \in Agents /\ ListFits(st, ag) /\ ag.todo # << >>
      /\ ps \in Seq(Processes) /\ pid \in Nat
  BY DEF Machine, ListFits
<1>2. a \in AttemptIds /\ a \in DOMAIN st.cmds /\ st.cmds[a].state = "pending"
  BY <1>1, FirstListed DEF Launching
<1>3. Told(st, w, a, c, body, st2)
  <2> HIDE DEF pid
  <2> QED BY <1>1, <1>2, StartedIs DEF pid
<1>4. c.state = "running" /\ c.pid = pid
  BY <1>1, <1>2, StoreShape DEF Commands
<1>5. body.kind # "attempt_finished"
  OBVIOUS
<1> HIDE DEF a, c, body
<1>6. /\ st2 \in Stores /\ DOMAIN st2.cmds = DOMAIN st.cmds /\ st2.cmds[a] = c
      /\ \A b \in DOMAIN st.cmds \ {a} : st2.cmds[b] = st.cmds[b]
      /\ st2.outbox = Append(st.outbox, Message(st, w, body))
  BY <1>3 DEF Told
<1>7. ListFits(st2, ag2)
  BY <1>1, <1>6, PassedOn DEF Launching, a
<1>8. TellsTruth(st, st2, fs)
  BY ZenonT(30), <1>1, <1>5, <1>6, NotFinished, Appended
<1>9. ASSUME Fit(st, ag, ps, fs) PROVE Fit(st2, ag2, ps, fs)
  <2>1. PidsFit(st2, ag2, ps)
    <3>1. pid \in DOMAIN ps /\ ps[pid].attempt = a
      BY <1>1, <1>9 DEF Fit, PidsFit, a
    <3>2. \A b \in DOMAIN st.cmds :
             /\ st2.cmds[b].state = "pending" => st2.cmds[b].pid = 0
             /\ st2.cmds[b].pid # 0 => /\ st2.cmds[b].pid \in DOMAIN ps
                                       /\ ps[st2.cmds[b].pid].attempt = b
      BY <1>2, <1>4, <1>6, <1>9, <3>1 DEF Fit, PidsFit
    <3>3. ASSUME NEW p \in DOMAIN ps
          PROVE  ps[p].attempt \in DOMAIN st.cmds /\ st2.cmds[ps[p].attempt].pid = p
      <4>1. /\ ps[p].attempt \in DOMAIN st.cmds
            /\ st.cmds[ps[p].attempt].pid = p \/ (p = pid /\ ps[p].attempt = a)
        BY <1>9 DEF Fit, PidsFit, a
      <4>2. st.cmds[a].pid = 0 /\ p # 0
        BY <1>1, <1>2, <1>9 DEF Fit, PidsFit
      <4> QED BY <1>2, <1>4, <1>6, <4>1, <4>2
    <3> QED BY <1>6, <3>2, <3>3 DEF PidsFit
  <2>2. OutcomesFit(st2, ag2, ps, fs)
    BY <1>2, <1>4, <1>6, <1>9 DEF Fit, OutcomesFit
  <2> QED BY <2>1, <2>2 DEF Fit
<1>10. \A b \in AttemptIds, ok \in BOOLEAN : Over(st, fs, b, ok) => Over(st2, fs, b, ok)
  BY <1>2, <1>6 DEF Over
<1>11. Machine(st2, ag2, ps, fs)
  BY <1>1, <1>6, <1>7 DEF Machine
<1> QED BY <1>6, <1>8, <1>9, <1>10, <1>11 DEF Goes

\* failBeforeLaunch, first transaction: started with no process.
LEMMA UnstartedGoes ==
    ASSUME NEW w \in Workers, NEW st, NEW ag, NEW ps, NEW fs, Machine(st, ag, ps, fs),
           ag.pc = "launch", ag.todo # << >>,
           NEW pid, pid = 0, NEW st2, st2 = MarkStarted(st, w, Head(ag.todo), pid),
           NEW ag2, ag2 = [ag EXCEPT !.pc = "unstarted"]
    PROVE  Goes(st, ag, ps, fs, st2, ag2, ps, fs)
<1> DEFINE a == Head(ag.todo)
           c == [st.cmds[a] EXCEPT !.state = "running", !.pid = pid]
           body == [kind |-> "attempt_started", attempt |-> a]
<1>1. st \in Stores /\ ag \in Agents /\ ListFits(st, ag) /\ ag.up
  BY DEF Machine, ListFits
<1>2. a \in AttemptIds /\ a \in DOMAIN st.cmds /\ st.cmds[a].state = "pending"
  BY <1>1, FirstListed DEF Launching
<1>3. Told(st, w, a, c, body, st2)
  BY <1>1, <1>2, StartedIs
<1>4. c.state = "running" /\ c.pid = 0
  BY <1>1, <1>2, StoreShape DEF Commands
<1>5. body.kind # "attempt_finished"
  OBVIOUS
<1>6. /\ ag2 \in Agents /\ ag2.pc = "unstarted" /\ ag2.todo = ag.todo /\ ag2.up
      /\ ag2.inbox = ag.inbox
  BY <1>1 DEF Agents, Phases
<1> HIDE DEF a, c, body
<1>7. /\ st2 \in Stores /\ DOMAIN st2.cmds = DOMAIN st.cmds /\ st2.cmds[a] = c
      /\ \A b \in DOMAIN st.cmds \ {a} : st2.cmds[b] = st.cmds[b]
      /\ st2.outbox = Append(st.outbox, Message(st, w, body))
  BY <1>3 DEF Told
<1>8. TellsTruth(st, st2, fs)
  BY <1>1, <1>5, <1>7, NotFinished, Appended
<1>9. ListFits(st2, ag2)
  <2>1. /\ ag.todo \in Seq(AttemptIds) /\ a = ag.todo[1] /\ 1 \in DOMAIN ag.todo
        /\ \A i, k \in DOMAIN ag.todo : ag.todo[i] = ag.todo[k] => i = k
        /\ \A i \in DOMAIN ag.todo : /\ ag.todo[i] \in DOMAIN st.cmds
                                     /\ st.cmds[ag.todo[i]].state = "pending"
    BY <1>1 DEF Agents, ListFits, Launching, a
  <2>2. ASSUME NEW i \in DOMAIN ag.todo, i # 1
        PROVE  st2.cmds[ag.todo[i]].state = "pending"
    BY <1>7, <2>1, <2>2
  <2> QED BY <1>4, <1>6, <1>7, <2>1, <2>2 DEF ListFits, Reconciling, Launching
<1>10. ASSUME Fit(st, ag, ps, fs)
       PROVE  \A b \in DOMAIN st.cmds :
                 /\ st2.cmds[b].pid = st.cmds[b].pid
                 /\ st2.cmds[b].state = "pending" => st.cmds[b].state = "pending"
                 /\ st.cmds[b].state = "finished" => st2.cmds[b].state = "finished"
                 /\ st2.cmds[b].state = "finished" => st.cmds[b].state = "finished"
  <2>1. st.cmds[a].pid = 0
    BY <1>2, <1>10 DEF Fit, PidsFit
  <2> QED BY <1>2, <1>4, <1>7, <2>1
<1> QED BY <1>6, <1>7, <1>8, <1>9, <1>10, Quietly

\* The grace period passes.
LEMMA GraceGoes ==
    ASSUME NEW st, NEW ag, NEW ps, NEW fs, Machine(st, ag, ps, fs),
           NEW a \in DOMAIN st.cmds,
           NEW st2, st2 = [st EXCEPT !.cmds[a].cancel = "overdue"]
    PROVE  Goes(st, ag, ps, fs, st2, ag, ps, fs)
<1> DEFINE c == [st.cmds[a] EXCEPT !.cancel = "overdue"]
           cmds == [st.cmds EXCEPT ![a] = c]
<1>1. st \in Stores /\ ag \in Agents /\ ListFits(st, ag)
  BY DEF Machine
<1>2. st.cmds \in [DOMAIN st.cmds -> Commands] /\ DOMAIN st.cmds \in SUBSET AttemptIds
  BY <1>1, StoreShape
<1>3. c \in Commands /\ c.state = st.cmds[a].state /\ c.pid = st.cmds[a].pid
  BY <1>2 DEF Commands
<1>4. st2 = [st EXCEPT !.cmds = cmds]
  BY <1>1 DEF Stores
<1> HIDE DEF c
<1>5. cmds \in CommandTables
  <2>1. cmds \in [DOMAIN st.cmds -> Commands]
    BY <1>2, <1>3
  <2> HIDE DEF cmds
  <2> QED BY <1>2, <2>1, TableShape
<1>6. DOMAIN cmds = DOMAIN st.cmds /\ \A b \in DOMAIN st.cmds :
         cmds[b].state = st.cmds[b].state /\ cmds[b].pid = st.cmds[b].pid
  BY <1>2, <1>3
<1> HIDE DEF cmds
<1>7. st2 \in Stores /\ st2.cmds = cmds /\ st2.outbox = st.outbox
  BY <1>1, <1>4, <1>5 DEF Stores
<1>8. ListFits(st2, ag)
  BY <1>1, <1>6, <1>7 DEF ListFits, Reconciling, Launching
<1>9. Fit(st, ag, ps, fs) => Fit(st2, ag, ps, fs)
  BY <1>6, <1>7 DEF Fit, PidsFit, OutcomesFit
<1>10. \A b \in AttemptIds, ok \in BOOLEAN : Over(st, fs, b, ok) => Over(st2, fs, b, ok)
  BY <1>6, <1>7 DEF Over
<1>11. TellsTruth(st, st2, fs)
  BY <1>7 DEF TellsTruth
<1>12. Machine(st2, ag, ps, fs)
  BY <1>1, <1>7, <1>8 DEF Machine
<1> QED BY <1>6, <1>7, <1>9, <1>10, <1>11, <1>12 DEF Goes

\* One file of an attempt is written.
FileChanges(fs, a, row, fs2) ==
    /\ fs2 \in [AttemptIds -> FileRows] /\ Sized(fs2) /\ fs2[a] = row
    /\ \A b \in AttemptIds \ {a} : fs2[b] = fs[b]

LEMMA FileIs ==
    ASSUME NEW fs \in [AttemptIds -> FileRows], Sized(fs), NEW a \in AttemptIds,
           NEW row \in FileRows, IsFiniteSet(row.outputs), Len(row.lines) <= MaxLines,
           NEW fs2, fs2 = [fs EXCEPT ![a] = row]
    PROVE  FileChanges(fs, a, row, fs2)
BY DEF FileChanges, Sized

\* The metrics file or an artifact.
LEMMA WrittenGoes ==
    ASSUME NEW st, NEW ag, NEW ps, NEW fs, Machine(st, ag, ps, fs), NEW a \in AttemptIds,
           NEW row \in FileRows, IsFiniteSet(row.outputs), Len(row.lines) <= MaxLines,
           row.status = fs[a].status, NEW fs2, fs2 = [fs EXCEPT ![a] = row]
    PROVE  Goes(st, ag, ps, fs, st, ag, ps, fs2)
<1>1. /\ ag \in Agents /\ ListFits(st, ag) /\ ps \in Seq(Processes)
      /\ fs \in [AttemptIds -> FileRows] /\ Sized(fs)
  BY DEF Machine
<1>2. FileChanges(fs, a, row, fs2)
  BY <1>1, FileIs
<1>3. /\ fs2 \in [AttemptIds -> FileRows] /\ Sized(fs2)
      /\ \A b \in AttemptIds : fs2[b].status = fs[b].status
  BY <1>2 DEF FileChanges
<1> QED BY <1>1, <1>3, EndingGoes

LEMMA LineWrittenGoes ==
    ASSUME NEW st, NEW ag, NEW ps, NEW fs, Machine(st, ag, ps, fs), NEW a \in AttemptIds,
           NEW line \in Lines, NEW tail \in LineTails, Len(fs[a].lines) < MaxLines,
           NEW fs2, fs2 = [fs EXCEPT ![a].lines = Append(@, line), ![a].tail = tail]
    PROVE  Goes(st, ag, ps, fs, st, ag, ps, fs2)
<1> DEFINE more == Append(fs[a].lines, line)
           row == [fs[a] EXCEPT !.lines = more, !.tail = tail]
<1>1. fs \in [AttemptIds -> FileRows] /\ Sized(fs)
  BY DEF Machine
<1>2. fs[a] \in FileRows /\ fs[a].lines \in Seq(Lines) /\ IsFiniteSet(fs[a].outputs)
  BY <1>1 DEF FileRows, Sized
<1>3. more \in Seq(Lines) /\ Len(more) <= MaxLines
  BY <1>2, AgentAssumption
<1>4. fs2 = [fs EXCEPT ![a] = row]
  BY <1>1 DEF FileRows
<1> HIDE DEF more
<1>5. /\ row \in FileRows /\ row.outputs = fs[a].outputs /\ row.lines = more
      /\ row.status = fs[a].status
  BY <1>2, <1>3 DEF FileRows
<1> HIDE DEF row
<1> QED BY <1>2, <1>3, <1>4, <1>5, WrittenGoes

LEMMA LineBegunGoes ==
    ASSUME NEW st, NEW ag, NEW ps, NEW fs, Machine(st, ag, ps, fs), NEW a \in AttemptIds,
           NEW fs2, fs2 = [fs EXCEPT ![a].tail = "open"]
    PROVE  Goes(st, ag, ps, fs, st, ag, ps, fs2)
<1> DEFINE row == [fs[a] EXCEPT !.tail = "open"]
<1>1. fs \in [AttemptIds -> FileRows] /\ Sized(fs)
  BY DEF Machine
<1>2. fs[a] \in FileRows /\ IsFiniteSet(fs[a].outputs) /\ Len(fs[a].lines) <= MaxLines
  BY <1>1 DEF Sized
<1>3. fs2 = [fs EXCEPT ![a] = row]
  BY <1>1 DEF FileRows
<1>4. /\ row \in FileRows /\ row.outputs = fs[a].outputs /\ row.lines = fs[a].lines
      /\ row.status = fs[a].status
  BY <1>2 DEF FileRows, LineTails
<1> HIDE DEF row
<1> QED BY <1>2, <1>3, <1>4, WrittenGoes

LEMMA SavedGoes ==
    ASSUME NEW st, NEW ag, NEW ps, NEW fs, Machine(st, ag, ps, fs), NEW a \in AttemptIds,
           NEW f \in Files, NEW fs2, fs2 = [fs EXCEPT ![a].outputs = @ \cup {f}]
    PROVE  Goes(st, ag, ps, fs, st, ag, ps, fs2)
<1> DEFINE more == fs[a].outputs \cup {f}
           row == [fs[a] EXCEPT !.outputs = more]
<1>1. fs \in [AttemptIds -> FileRows] /\ Sized(fs)
  BY DEF Machine
<1>2. /\ fs[a] \in FileRows /\ IsFiniteSet(fs[a].outputs) /\ Len(fs[a].lines) <= MaxLines
      /\ fs[a].outputs \in SUBSET Files
  BY <1>1 DEF Sized, FileRows
<1>3. IsFiniteSet(more) /\ more \in SUBSET Files
  BY <1>2, FS_AddElement
<1>4. fs2 = [fs EXCEPT ![a] = row]
  BY <1>1 DEF FileRows
<1> HIDE DEF more
<1>5. /\ row \in FileRows /\ row.outputs = more /\ row.lines = fs[a].lines
      /\ row.status = fs[a].status
  BY <1>2, <1>3 DEF FileRows
<1> HIDE DEF row
<1> QED BY <1>2, <1>3, <1>4, <1>5, WrittenGoes

\* A process moves on.
LEMMA ProcessIs ==
    ASSUME NEW ps \in Seq(Processes), NEW p \in DOMAIN ps, NEW s \in {"reported", "gone"},
           NEW ps2, ps2 = [ps EXCEPT ![p].st = s]
    PROVE  /\ ps2 \in Seq(Processes) /\ DOMAIN ps2 = DOMAIN ps /\ ps2[p].st = s
           /\ \A q \in DOMAIN ps : /\ ps2[q].attempt = ps[q].attempt
                                   /\ ps2[q].st = "running" => ps[q].st = "running"
<1>1. DOMAIN ps2 = DOMAIN ps
  OBVIOUS
<1>2. ASSUME NEW q \in DOMAIN ps
      PROVE  /\ ps2[q] \in Processes /\ ps2[q].attempt = ps[q].attempt
             /\ ps2[q].st = IF q = p THEN s ELSE ps[q].st
  <2>1. ps[q] \in Processes
    OBVIOUS
  <2>2. ps2[q] = IF q = p THEN [ps[q] EXCEPT !.st = s] ELSE ps[q]
    OBVIOUS
  <2> QED BY <2>1, <2>2 DEF Processes
<1>3. ps2 \in Seq(Processes)
  <2>1. DOMAIN ps = 1 .. Len(ps) /\ Len(ps) \in Nat
    OBVIOUS
  <2>2. ps2 \in [1 .. Len(ps) -> Processes]
    BY <1>2, <2>1
  <2> QED BY <2>1, <2>2, FunctionIsSeq
<1> QED BY <1>1, <1>2, <1>3

LEMMA ExitGoes ==
    ASSUME NEW st, NEW ag, NEW ps, NEW fs, Machine(st, ag, ps, fs), NEW p \in DOMAIN ps,
           NEW ps2, ps2 = [ps EXCEPT ![p].st = "gone"]
    PROVE  Goes(st, ag, ps, fs, st, ag, ps2, fs)
<1>1. /\ ag \in Agents /\ ListFits(st, ag) /\ ps \in Seq(Processes)
      /\ fs \in [AttemptIds -> FileRows] /\ Sized(fs)
  BY DEF Machine
<1>2. /\ ps2 \in Seq(Processes) /\ DOMAIN ps2 = DOMAIN ps
      /\ \A q \in DOMAIN ps : /\ ps2[q].attempt = ps[q].attempt
                              /\ ps2[q].st = "running" => ps[q].st = "running"
  <2> DEFINE s == "gone"
  <2>1. s \in {"reported", "gone"} /\ ps2 = [ps EXCEPT ![p].st = s]
    OBVIOUS
  <2> HIDE DEF s
  <2>2. /\ ps2 \in Seq(Processes) /\ DOMAIN ps2 = DOMAIN ps /\ ps2[p].st = s
        /\ \A q \in DOMAIN ps : /\ ps2[q].attempt = ps[q].attempt
                                /\ ps2[q].st = "running" => ps[q].st = "running"
    BY <1>1, <2>1, ProcessIs
  <2> QED BY <2>2
<1> QED BY <1>1, <1>2, EndingGoes

LEMMA ReportGoes ==
    ASSUME NEW st, NEW ag, NEW ps, NEW fs, Machine(st, ag, ps, fs), NEW p \in DOMAIN ps,
           ps[p].st = "running", NEW status \in {"ok", "bad"},
           NEW ps2, ps2 = [ps EXCEPT ![p].st = "reported"],
           NEW fs2, fs2 = [fs EXCEPT ![ps[p].attempt].status = status]
    PROVE  Goes(st, ag, ps, fs, st, ag, ps2, fs2)
<1> DEFINE a == ps[p].attempt
           row == [fs[a] EXCEPT !.status = status]
<1>1. /\ ag \in Agents /\ ListFits(st, ag) /\ ps \in Seq(Processes)
      /\ fs \in [AttemptIds -> FileRows] /\ Sized(fs)
  BY DEF Machine
<1>2. /\ ps2 \in Seq(Processes) /\ DOMAIN ps2 = DOMAIN ps /\ ps2[p].st = "reported"
      /\ \A q \in DOMAIN ps : /\ ps2[q].attempt = ps[q].attempt
                              /\ ps2[q].st = "running" => ps[q].st = "running"
  <2> DEFINE s == "reported"
  <2>1. s \in {"reported", "gone"} /\ ps2 = [ps EXCEPT ![p].st = s]
    OBVIOUS
  <2> HIDE DEF s
  <2>2. /\ ps2 \in Seq(Processes) /\ DOMAIN ps2 = DOMAIN ps /\ ps2[p].st = s
        /\ \A q \in DOMAIN ps : /\ ps2[q].attempt = ps[q].attempt
                                /\ ps2[q].st = "running" => ps[q].st = "running"
    BY <1>1, <2>1, ProcessIs
  <2> QED BY <2>2 DEF s
<1>3. a \in AttemptIds
  <2>1. ps[p] \in Processes
    BY <1>1
  <2> QED BY <2>1 DEF Processes
<1>4. fs[a] \in FileRows /\ IsFiniteSet(fs[a].outputs) /\ Len(fs[a].lines) <= MaxLines
  BY <1>1, <1>3 DEF Sized
<1>5. fs2 = [fs EXCEPT ![a] = row]
  BY <1>1 DEF FileRows
<1>6. /\ row \in FileRows /\ row.outputs = fs[a].outputs /\ row.lines = fs[a].lines
  BY <1>4 DEF FileRows
<1> HIDE DEF row
<1>7. FileChanges(fs, a, row, fs2)
  <2> HIDE DEF a
  <2> QED BY <1>1, <1>3, <1>4, <1>5, <1>6, FileIs
<1>8. /\ fs2 \in [AttemptIds -> FileRows] /\ Sized(fs2)
      /\ \A b \in AttemptIds : b = a \/ fs2[b].status = fs[b].status
  BY <1>7 DEF FileChanges
<1>9. \A b \in AttemptIds :
         \/ fs2[b].status = fs[b].status
         \/ \E q \in DOMAIN ps : /\ ps[q].attempt = b /\ ps[q].st = "running"
                                 /\ ps2[q].st # "running"
  BY <1>2, <1>8
<1> QED BY <1>1, <1>2, <1>8, <1>9, EndingGoes

\* A start draws a new session.
LEMMA BootGoes ==
    ASSUME NEW st, NEW ag, NEW ps, NEW fs, Machine(st, ag, ps, fs), ~ag.up,
           NEW ag2, ag2 = [Stopped(ag.session + 1) EXCEPT !.up = TRUE]
    PROVE  Goes(st, ag, ps, fs, st, ag2, ps, fs)
<1>1. ag \in Agents /\ ListFits(st, ag) /\ ag.pc = "reap" /\ ag.session \in Nat
  BY DEF Machine, ListFits, Agents
<1>2. Stopped(ag.session + 1) \in Agents
  BY <1>1, AgentAssumption DEF Stopped, Agents, NoReply, Replies, Phases
<1>3. ag2 \in Agents /\ ag2.pc = "reap" /\ ag2.inbox.run = {}
  BY <1>1, <1>2 DEF Stopped, NoReply, Agents
<1>4. ListFits(st, ag2)
  BY <1>3 DEF ListFits, Reconciling, Launching
<1> QED BY <1>1, <1>3, <1>4, AgentGoes

---------------------------------------------------------------------------
(* The steps on one machine *)

\* Only machine w changes.
Changes(w) ==
    /\ store' = [store EXCEPT ![w] = store'[w]]
    /\ agent' = [agent EXCEPT ![w] = agent'[w]]
    /\ procs' = [procs EXCEPT ![w] = procs'[w]]
    /\ files' = [files EXCEPT ![w] = files'[w]]

Works(w) ==
    Goes(store[w], agent[w], procs[w], files[w], store'[w], agent'[w], procs'[w], files'[w])

LEMMA MachineIs ==
    ASSUME MachinesTyped, NEW w \in Workers, ListFits(store[w], agent[w])
    PROVE  Machine(store[w], agent[w], procs[w], files[w])
BY DEF MachinesTyped, Machine

\* The parts of a machine that a step leaves alone.
LEMMA PartsKept ==
    ASSUME MachinesTyped, NEW w \in Workers
    PROVE  /\ UNCHANGED store => store' = [store EXCEPT ![w] = store'[w]] /\ store'[w] = store[w]
           /\ UNCHANGED agent => agent' = [agent EXCEPT ![w] = agent'[w]] /\ agent'[w] = agent[w]
           /\ UNCHANGED procs => procs' = [procs EXCEPT ![w] = procs'[w]] /\ procs'[w] = procs[w]
           /\ UNCHANGED files => files' = [files EXCEPT ![w] = files'[w]] /\ files'[w] = files[w]
BY DEF MachinesTyped

\* The parts that a step writes.
LEMMA PartsPut ==
    ASSUME MachinesTyped, NEW w \in Workers
    PROVE  /\ \A x : store' = [store EXCEPT ![w] = x] =>
                 store' = [store EXCEPT ![w] = store'[w]] /\ store'[w] = x
           /\ \A x : agent' = [agent EXCEPT ![w] = x] =>
                 agent' = [agent EXCEPT ![w] = agent'[w]] /\ agent'[w] = x
           /\ \A x : procs' = [procs EXCEPT ![w] = x] =>
                 procs' = [procs EXCEPT ![w] = procs'[w]] /\ procs'[w] = x
           /\ \A x : files' = [files EXCEPT ![w] = x] =>
                 files' = [files EXCEPT ![w] = files'[w]] /\ files'[w] = x
BY DEF MachinesTyped

LEMMA ReapWorks ==
    ASSUME MachinesTyped, NEW w \in Workers, ListFits(store[w], agent[w]), ReapWithdrawn(w)
    PROVE  Changes(w) /\ Works(w)
<1>1. PICK a \in Withdrawn(store[w]) :
          store' = [store EXCEPT ![w] = MarkFinished(@, w, a, FALSE, TRUE, {})]
  BY DEF ReapWithdrawn
<1>2. UNCHANGED <<agent, procs, files>> /\ agent[w].pc = "reap"
  BY DEF ReapWithdrawn, At
<1> DEFINE x == MarkFinished(store[w], w, a, FALSE, TRUE, {})
<1>3. store' = [store EXCEPT ![w] = x]
  BY <1>1
<1> HIDE DEF x
<1>4. Changes(w) /\ store'[w] = x
  BY <1>2, <1>3, PartsKept, PartsPut DEF Changes
<1>5. PICK st, ag, ps, fs, st2 : /\ st = store[w] /\ ag = agent[w] /\ ps = procs[w]
                                 /\ fs = files[w] /\ st2 = store'[w]
  OBVIOUS
<1>6. Machine(st, ag, ps, fs) /\ ag.pc = "reap" /\ a \in Withdrawn(st)
      /\ st2 = MarkFinished(st, w, a, FALSE, TRUE, {})
  BY <1>1, <1>2, <1>4, <1>5, MachineIs DEF x
<1>7. Goes(st, ag, ps, fs, st2, ag, ps, fs)
  BY <1>6, ReapGoes
<1> QED BY <1>2, <1>4, <1>5, <1>7 DEF Works

LEMMA ListWorks ==
    ASSUME MachinesTyped, NEW w \in Workers, ListFits(store[w], agent[w]), ListRunning(w)
    PROVE  Changes(w) /\ Works(w)
<1>1. PICK list \in SetToSeqs(Running(store[w])) :
          agent' = [agent EXCEPT ![w].pc = "ingest", ![w].todo = list]
  BY DEF ListRunning
<1>2. UNCHANGED <<store, procs, files>> /\ agent[w].pc = "reap" /\ agent[w].up
  BY DEF ListRunning, At
<1> DEFINE x == [agent[w] EXCEPT !.pc = "ingest", !.todo = list]
<1>3. agent' = [agent EXCEPT ![w] = x]
  BY <1>1
<1> HIDE DEF x
<1>4. Changes(w) /\ agent'[w] = x
  BY ZenonT(30), <1>2, <1>3, PartsKept, PartsPut DEF Changes
<1>5. PICK st, ag, ps, fs, ag2 : /\ st = store[w] /\ ag = agent[w] /\ ps = procs[w]
                                 /\ fs = files[w] /\ ag2 = agent'[w]
  OBVIOUS
<1>6. Machine(st, ag, ps, fs) /\ ag.pc = "reap" /\ ag.up /\ list \in SetToSeqs(Running(st))
      /\ ag2 = [ag EXCEPT !.pc = "ingest", !.todo = list]
  BY <1>1, <1>2, <1>4, <1>5, MachineIs DEF x
<1>7. Goes(st, ag, ps, fs, st, ag2, ps, fs)
  BY <1>6, ListRunningGoes
<1> QED BY <1>2, <1>4, <1>5, <1>7 DEF Works

\* The steps that only send the agent to a phase without a list.
LEMMA GotoWorks ==
    ASSUME MachinesTyped, NEW w \in Workers, ListFits(store[w], agent[w]),
           agent[w].up, agent[w].pc # "spawned",
           NEW phase \in {"reap", "send", "wait", "accept", "ack"}, Goto(w, phase),
           UNCHANGED <<store, procs, files>>
    PROVE  Changes(w) /\ Works(w)
<1> DEFINE x == [agent[w] EXCEPT !.pc = phase]
<1>1. agent' = [agent EXCEPT ![w] = x]
  BY DEF Goto
<1> HIDE DEF x
<1>2. Changes(w) /\ agent'[w] = x
  BY <1>1, PartsKept, PartsPut DEF Changes
<1>3. PICK st, ag, ps, fs, ag2 : /\ st = store[w] /\ ag = agent[w] /\ ps = procs[w]
                                 /\ fs = files[w] /\ ag2 = agent'[w]
  OBVIOUS
<1>4. /\ Machine(st, ag, ps, fs) /\ ag.pc # "spawned" /\ ag.up
      /\ ag2 = [ag EXCEPT !.pc = phase]
  BY <1>2, <1>3, MachineIs DEF x
<1>5. Goes(st, ag, ps, fs, st, ag2, ps, fs)
  BY <1>4, GotoGoes
<1> QED BY <1>2, <1>3, <1>5 DEF Works

LEMMA ErrorWorks ==
    ASSUME MachinesTyped, NEW w \in Workers, ListFits(store[w], agent[w]),
           agent[w].pc # "spawned", GotError(w), UNCHANGED <<store, procs, files>>
    PROVE  Changes(w) /\ Works(w)
<1> DEFINE x == [agent[w] EXCEPT !.pc = "reap", !.inbox = NoReply]
<1>1. agent' = [agent EXCEPT ![w] = x]
  BY DEF GotError
<1> HIDE DEF x
<1>2. Changes(w) /\ agent'[w] = x
  BY <1>1, PartsKept, PartsPut DEF Changes
<1>3. PICK st, ag, ps, fs, ag2 : /\ st = store[w] /\ ag = agent[w] /\ ps = procs[w]
                                 /\ fs = files[w] /\ ag2 = agent'[w]
  OBVIOUS
<1>4. /\ Machine(st, ag, ps, fs) /\ ag.pc # "spawned"
      /\ ag2 = [ag EXCEPT !.pc = "reap", !.inbox = NoReply]
  BY <1>2, <1>3, MachineIs DEF x
<1>5. Goes(st, ag, ps, fs, st, ag2, ps, fs)
  BY <1>4, ErrorGoes
<1> QED BY <1>2, <1>3, <1>5 DEF Works

LEMMA IngestWorks ==
    ASSUME MachinesTyped, NEW w \in Workers, ListFits(store[w], agent[w]), Ingest(w)
    PROVE  Changes(w) /\ Works(w)
<1> DEFINE lines == files[w][Now(w)].lines
           offset == store[w].cmds[Now(w)].offset
<1>1. /\ UNCHANGED <<procs, files>> /\ agent[w].pc = "ingest" /\ agent[w].up
      /\ agent[w].todo # << >>
  BY DEF Ingest, At
<1>2. PICK st, ag, ps, fs, st2, ag2 :
          /\ st = store[w] /\ ag = agent[w] /\ ps = procs[w] /\ fs = files[w]
          /\ st2 = store'[w] /\ ag2 = agent'[w]
  OBVIOUS
<1>3. /\ Machine(st, ag, ps, fs) /\ ag.pc = "ingest" /\ ag.up /\ ag.todo # << >>
      /\ st \in Stores /\ ag \in Agents /\ ListFits(st, ag)
      /\ fs \in [AttemptIds -> FileRows]
  BY <1>1, <1>2, MachineIs DEF Machine
<1>4. Head(ag.todo) \in AttemptIds /\ Head(ag.todo) \in DOMAIN st.cmds
  BY <1>3, FirstListed DEF Reconciling
<1>5. CASE offset < Len(lines) /\ lines[offset + 1] # TooLong /\ UNCHANGED agent
           /\ store' = [store EXCEPT ![w] = TakeLine(@, w, Now(w), lines[offset + 1])]
  <2> DEFINE line == lines[offset + 1]
             x == TakeLine(store[w], w, Now(w), line)
  <2>1. line \in Lines
    <3>1. lines \in Seq(Lines)
      BY <1>2, <1>3, <1>4 DEF FileRows, Now
    <3>2. offset \in Nat
      BY <1>2, <1>3, <1>4, StoreShape DEF Commands, Now
    <3> HIDE DEF lines, offset
    <3> QED BY <1>5, <3>1, <3>2
  <2>2. store' = [store EXCEPT ![w] = x] /\ UNCHANGED agent
    BY <1>5
  <2> HIDE DEF x
  <2>3. Changes(w) /\ store'[w] = x
    BY <1>1, <2>2, PartsKept, PartsPut DEF Changes
  <2>4. st2 = TakeLine(st, w, Head(ag.todo), line) /\ ag2 = ag
    BY <1>2, <1>5, <2>3 DEF x, Now
  <2> HIDE DEF line
  <2>5. Goes(st, ag, ps, fs, st2, ag, ps, fs)
    BY <1>3, <2>1, <2>4, LineGoes
  <2> QED BY <1>1, <1>2, <2>3, <2>4, <2>5 DEF Works
<1>6. CASE GotError(w) /\ UNCHANGED store
  BY <1>1, <1>6, ErrorWorks
<1>7. CASE Goto(w, "status") /\ UNCHANGED store
  <2> DEFINE x == [agent[w] EXCEPT !.pc = "status"]
  <2>1. agent' = [agent EXCEPT ![w] = x]
    BY <1>7 DEF Goto
  <2> HIDE DEF x
  <2>2. Changes(w) /\ agent'[w] = x
    BY <1>1, <1>7, <2>1, PartsKept, PartsPut DEF Changes
  <2>3. ag2 = [ag EXCEPT !.pc = "status"] /\ st2 = st
    BY <1>2, <1>7, <2>2 DEF x
  <2>4. Goes(st, ag, ps, fs, st, ag2, ps, fs)
    BY <1>3, <2>3, EndOfFileGoes
  <2> QED BY <1>1, <1>2, <2>2, <2>3, <2>4 DEF Works
<1> QED BY <1>5, <1>6, <1>7 DEF Ingest

LEMMA StatusWorks ==
    ASSUME MachinesTyped, NEW w \in Workers, ListFits(store[w], agent[w]), ReadRunStatus(w)
    PROVE  Changes(w) /\ Works(w)
<1> DEFINE found == files[w][Now(w)].status
           x == [agent[w] EXCEPT !.found = found,
                                 !.pc = IF found = "none" THEN "alive" ELSE "finish"]
<1>1. UNCHANGED <<store, procs, files>> /\ agent[w].pc = "status"
  BY DEF ReadRunStatus, At
<1>2. agent' = [agent EXCEPT ![w] = x]
  BY DEF ReadRunStatus
<1> HIDE DEF x
<1>3. Changes(w) /\ agent'[w] = x
  BY <1>1, <1>2, PartsKept, PartsPut DEF Changes
<1>4. PICK st, ag, ps, fs, ag2 : /\ st = store[w] /\ ag = agent[w] /\ ps = procs[w]
                                 /\ fs = files[w] /\ ag2 = agent'[w]
  OBVIOUS
<1>5. /\ Machine(st, ag, ps, fs) /\ ag.pc = "status" /\ found = fs[Head(ag.todo)].status
      /\ ag2 = [ag EXCEPT !.found = found,
                          !.pc = IF found = "none" THEN "alive" ELSE "finish"]
  BY <1>1, <1>3, <1>4, MachineIs DEF x, Now
<1> HIDE DEF found
<1>6. Goes(st, ag, ps, fs, st, ag2, ps, fs)
  BY <1>5, StatusGoes
<1> QED BY <1>1, <1>3, <1>4, <1>6 DEF Works

\* The files a sweep may announce.
LEMMA FilesListed ==
    ASSUME NEW fs \in [AttemptIds -> FileRows], Sized(fs), NEW a \in AttemptIds,
           NEW found, found = SetToSeq(fs[a].outputs), NEW seen
    PROVE  LET changed == IF found # << >> /\ Head(found) = seen THEN Tail(found) ELSE found
           IN  /\ found \in Seq(Files) /\ ToSet(changed) \in SUBSET Files
               /\ found # << >> => Last(found) \in Files
<1> DEFINE changed == IF found # << >> /\ Head(found) = seen THEN Tail(found) ELSE found
           outputs == fs[a].outputs
<1>1. IsFiniteSet(outputs) /\ outputs \in SUBSET Files
  BY DEF Sized, FileRows
<1>2. found \in Seq(outputs)
  <2> HIDE DEF outputs
  <2> QED BY <1>1, SetListed DEF outputs
<1>3. found \in Seq(Files)
  BY <1>1, <1>2
<1>4. changed \in Seq(Files)
  BY <1>3
<1> HIDE DEF changed
<1>5. ToSet(changed) \in SUBSET Files
  BY <1>4 DEF ToSet
<1>6. found # << >> => Last(found) \in Files
  BY <1>3 DEF Last
<1> QED BY <1>3, <1>5, <1>6 DEF changed

LEMMA WatchWorks ==
    ASSUME MachinesTyped, NEW w \in Workers, ListFits(store[w], agent[w]),
           agent[w].pc = "alive", WatchProgress(w), UNCHANGED <<procs, files>>
    PROVE  Changes(w) /\ Works(w)
<1> DEFINE a == Now(w)
           found == Listed(w, a)
           changed == ToSet(IF found # << >> /\ Head(found) = agent[w].seen[a]
                            THEN Tail(found) ELSE found)
           next == [agent[w] EXCEPT !.pc = "ingest", !.todo = Tail(@), !.sampling = @ \cup {a}]
           swept == [next EXCEPT !.swept[a] = @ + 1,
                                 !.seen[a] = IF found = << >> THEN @ ELSE Last(found)]
           x == AnnounceArtifacts(store[w], w, a, changed)
<1>1. /\ store[w] \in Stores /\ agent[w] \in Agents
      /\ files[w] \in [AttemptIds -> FileRows] /\ Sized(files[w])
      /\ agent[w].todo # << >>
  BY DEF MachinesTyped, ListFits
<1>2. a \in AttemptIds
  BY <1>1, FirstListed DEF Now
<1>3. changed \in SUBSET Files /\ (found # << >> => Last(found) \in Files)
  BY <1>1, <1>2, FilesListed DEF Listed
<1>4. /\ next \in Agents /\ next.pc = "ingest" /\ next.todo = Tail(agent[w].todo)
      /\ next.up = agent[w].up /\ next.inbox = agent[w].inbox
      /\ next.swept = agent[w].swept /\ next.seen = agent[w].seen
  <2>1. Tail(agent[w].todo) \in Seq(AttemptIds)
    BY <1>1 DEF Agents
  <2> HIDE DEF a
  <2> QED BY <1>1, <1>2, <2>1 DEF Agents, Phases
<1>5. ASSUME agent[w].swept[a] < MaxSweeps
      PROVE  /\ swept \in Agents /\ swept.pc = "ingest" /\ swept.todo = Tail(agent[w].todo)
             /\ swept.up = agent[w].up /\ swept.inbox = agent[w].inbox
  <2> DEFINE last == IF found = << >> THEN next.seen[a] ELSE Last(found)
  <2>1. last \in Files \cup {NoFile}
    BY <1>2, <1>3, <1>4 DEF Agents
  <2>2. swept = [next EXCEPT !.swept[a] = @ + 1, !.seen[a] = last]
    BY <1>4 DEF Agents
  <2>3. next.swept[a] + 1 \in 0 .. MaxSweeps
    <3>1. next.swept[a] = agent[w].swept[a]
      BY <1>4
    <3>2. agent[w].swept[a] \in 0 .. MaxSweeps
      <4> HIDE DEF a, next
      <4> QED BY <1>1, <1>2 DEF Agents
    <3> HIDE DEF a, next
    <3> QED BY <1>5, <3>1, <3>2, AgentAssumption
  <2> HIDE DEF last, next, swept, a
  <2>4. /\ swept \in Agents /\ swept.pc = next.pc /\ swept.todo = next.todo
        /\ swept.up = next.up /\ swept.inbox = next.inbox
    BY <1>2, <1>4, <2>1, <2>2, <2>3 DEF Agents
  <2> QED BY <1>4, <2>4
<1>6. \/ /\ agent[w].swept[a] < MaxSweeps /\ store' = [store EXCEPT ![w] = x]
         /\ agent' = [agent EXCEPT ![w] = swept]
      \/ agent' = [agent EXCEPT ![w] = next] /\ UNCHANGED store
  BY DEF WatchProgress
<1> HIDE DEF x, next, swept, changed, a, found
<1>7. PICK st, ag, ps, fs, st2, ag2 :
          /\ st = store[w] /\ ag = agent[w] /\ ps = procs[w] /\ fs = files[w]
          /\ st2 = store'[w] /\ ag2 = agent'[w]
  OBVIOUS
<1>8. /\ Changes(w) /\ store'[w] \in {store[w], x}
      /\ agent'[w] = next \/ (agent'[w] = swept /\ agent[w].swept[a] < MaxSweeps)
  BY <1>6, PartsKept, PartsPut DEF Changes
<1>9. /\ st2 \in {st, AnnounceArtifacts(st, w, Head(ag.todo), changed)}
      /\ Machine(st, ag, ps, fs) /\ ag.pc = "alive"
  BY <1>7, <1>8, MachineIs DEF x, a, Now
<1>10. /\ ag2 \in Agents /\ ag2.pc = "ingest" /\ ag2.todo = Tail(ag.todo)
       /\ ag2.up = ag.up /\ ag2.inbox = ag.inbox
  BY <1>4, <1>5, <1>7, <1>8
<1>11. Goes(st, ag, ps, fs, st2, ag2, ps, fs)
  BY <1>3, <1>9, <1>10, WatchGoes
<1> QED BY <1>7, <1>8, <1>11 DEF Works

LEMMA AliveWorks ==
    ASSUME MachinesTyped, NEW w \in Workers, ListFits(store[w], agent[w]), CheckAlive(w)
    PROVE  Changes(w) /\ Works(w)
<1> DEFINE c == store[w].cmds[Now(w)]
<1>1. UNCHANGED files /\ agent[w].pc = "alive"
  BY DEF CheckAlive, At
<1>2. PICK st, ag, ps, fs, ag2, ps2 :
          /\ st = store[w] /\ ag = agent[w] /\ ps = procs[w] /\ fs = files[w]
          /\ ag2 = agent'[w] /\ ps2 = procs'[w]
  OBVIOUS
<1>3. Machine(st, ag, ps, fs) /\ ag.pc = "alive" /\ c = st.cmds[Head(ag.todo)]
  BY <1>1, <1>2, MachineIs DEF Now
<1>4. CASE ~ProcessAlive(w, c.pid) /\ Goto(w, "finish") /\ UNCHANGED <<store, procs>>
  <2> DEFINE x == [agent[w] EXCEPT !.pc = "finish"]
  <2>1. agent' = [agent EXCEPT ![w] = x]
    BY <1>4 DEF Goto
  <2> HIDE DEF x
  <2>2. Changes(w) /\ agent'[w] = x
    BY <1>1, <1>4, <2>1, PartsKept, PartsPut DEF Changes
  <2>3. ag2 = [ag EXCEPT !.pc = "finish"] /\ (c.pid > 0 => ps[c.pid].st = "gone")
    BY <1>2, <1>4, <2>2 DEF x, ProcessAlive
  <2>4. Goes(st, ag, ps, fs, st, ag2, ps, fs)
    BY <1>3, <2>3, DeadGoes
  <2> QED BY <1>1, <1>2, <1>4, <2>2, <2>4 DEF Works
<1>5. CASE SignalCancel(w, c)
  <2> DEFINE x == [agent[w] EXCEPT !.pc = "ingest", !.todo = Tail(@)]
             y == IF c.cancel = "overdue" THEN [ps EXCEPT ![c.pid].st = "gone"] ELSE ps
  <2>1. agent' = [agent EXCEPT ![w] = x]
    BY <1>5 DEF SignalCancel, NextOf
  <2>2. procs' = [procs EXCEPT ![w] = y]
    BY <1>2, <1>5, PartsKept DEF SignalCancel, MachinesTyped
  <2>3. UNCHANGED store
    BY <1>5 DEF SignalCancel
  <2> HIDE DEF x, y
  <2>4. Changes(w) /\ agent'[w] = x /\ procs'[w] = y
    BY <1>1, <2>1, <2>2, <2>3, PartsKept, PartsPut DEF Changes
  <2>5. /\ ag2 = [ag EXCEPT !.pc = "ingest", !.todo = Tail(@)]
        /\ ps2 = ps \/ ps2 = [ps EXCEPT ![c.pid].st = "gone"]
    BY <1>2, <2>4 DEF x, y
  <2>6. Goes(st, ag, ps, fs, st, ag2, ps2, fs)
    <3>1. CASE ps2 = ps
      BY <1>3, <2>5, <3>1, NextGoes
    <3>2. CASE ps2 = [ps EXCEPT ![c.pid].st = "gone"]
      BY <1>3, <2>5, <3>2, KillGoes
    <3> QED BY <2>5, <3>1, <3>2
  <2> QED BY <1>1, <1>2, <2>3, <2>4, <2>6 DEF Works
<1>6. CASE WatchProgress(w) /\ UNCHANGED procs
  BY <1>1, <1>6, WatchWorks
<1> QED BY <1>4, <1>5, <1>6 DEF CheckAlive

LEMMA FinishWorks ==
    ASSUME MachinesTyped, NEW w \in Workers, ListFits(store[w], agent[w]), Finish(w)
    PROVE  Changes(w) /\ Works(w)
<1>1. UNCHANGED <<procs, files>> /\ agent[w].pc = "finish"
  BY DEF Finish, At
<1>2. PICK tail \in Tails, collected \in Collects, sent \in {{}, files[w][Now(w)].outputs} :
          store' = [store EXCEPT ![w] =
                      MarkFinished(@, w, Now(w), ExitedZero(w, collected), tail, sent)]
  BY DEF Finish
<1> DEFINE ok == ExitedZero(w, collected)
           x == MarkFinished(store[w], w, Now(w), ok, tail, sent)
           y == [agent[w] EXCEPT !.pc = "ingest", !.todo = Tail(@),
                                 !.sampling = @ \ {Now(w)}]
<1>3. store' = [store EXCEPT ![w] = x] /\ agent' = [agent EXCEPT ![w] = y]
  BY <1>2 DEF Finish
<1> HIDE DEF x, y
<1>4. Changes(w) /\ store'[w] = x /\ agent'[w] = y
  BY <1>1, <1>3, PartsKept, PartsPut DEF Changes
<1>5. PICK st, ag, ps, fs, st2, ag2 :
          /\ st = store[w] /\ ag = agent[w] /\ ps = procs[w] /\ fs = files[w]
          /\ st2 = store'[w] /\ ag2 = agent'[w]
  OBVIOUS
<1>6. /\ Machine(st, ag, ps, fs) /\ ag.pc \in {"finish", "unstarted"} /\ ag.pc = "finish"
      /\ st2 = MarkFinished(st, w, Head(ag.todo), ok, tail, sent)
      /\ ag2 = [ag EXCEPT !.pc = "ingest", !.todo = Tail(@), !.sampling = @ \ {Now(w)}]
      /\ ag \in Agents /\ ag.todo # << >> /\ ListFits(st, ag)
      /\ fs \in [AttemptIds -> FileRows]
  BY <1>1, <1>4, <1>5, MachineIs DEF x, y, Now, Machine, ListFits
<1>7. ok \in BOOLEAN /\ tail \in BOOLEAN /\ (ok => ag.found = "ok")
  BY <1>5, AgentAssumption DEF ExitedZero
<1>8. sent \in SUBSET Files
  <2>1. Head(ag.todo) \in AttemptIds
    BY <1>6, FirstListed
  <2> QED BY <1>2, <1>5, <1>6, <2>1 DEF FileRows, Now
<1>9. /\ ag2 \in Agents /\ ag2.pc = "ingest" /\ ag2.todo = Tail(ag.todo)
      /\ ag2.up = ag.up /\ ag2.inbox = ag.inbox
  <2>1. Tail(ag.todo) \in Seq(AttemptIds)
    BY <1>6 DEF Agents
  <2> QED BY <1>6, <2>1 DEF Agents, Phases
<1> HIDE DEF ok
<1>10. Goes(st, ag, ps, fs, st2, ag2, ps, fs)
  BY <1>6, <1>7, <1>8, <1>9, EndGoes
<1> QED BY <1>1, <1>4, <1>5, <1>10 DEF Works

LEMMA AcceptWorks ==
    ASSUME MachinesTyped, NEW w \in Workers, ListFits(store[w], agent[w]),
           IsFiniteSet(agent[w].inbox.run), AcceptCommands(w)
    PROVE  Changes(w) /\ Works(w)
<1> DEFINE x == WithCommands(store[w], w, agent[w].inbox.run, agent[w].inbox.cancel)
           y == [agent[w] EXCEPT !.pc = "ack"]
<1>1. UNCHANGED <<procs, files>> /\ agent[w].pc = "accept"
  BY DEF AcceptCommands, At
<1>2. CASE GotError(w) /\ UNCHANGED store
  BY <1>1, <1>2, ErrorWorks
<1>3. CASE ~(GotError(w) /\ UNCHANGED store)
  <2>1. store' = [store EXCEPT ![w] = x] /\ agent' = [agent EXCEPT ![w] = y]
    BY <1>3 DEF AcceptCommands, Goto
  <2> HIDE DEF x, y
  <2>2. Changes(w) /\ store'[w] = x /\ agent'[w] = y
    BY <1>1, <2>1, PartsKept, PartsPut DEF Changes
  <2>3. PICK st, ag, ps, fs, st2, ag2 :
            /\ st = store[w] /\ ag = agent[w] /\ ps = procs[w] /\ fs = files[w]
            /\ st2 = store'[w] /\ ag2 = agent'[w]
    OBVIOUS
  <2>4. /\ Machine(st, ag, ps, fs) /\ ag.pc = "accept" /\ IsFiniteSet(ag.inbox.run)
        /\ st2 = WithCommands(st, w, ag.inbox.run, ag.inbox.cancel)
        /\ ag2 = [ag EXCEPT !.pc = "ack"]
    BY <1>1, <2>2, <2>3, MachineIs DEF x, y
  <2>5. Goes(st, ag, ps, fs, st2, ag2, ps, fs)
    BY <2>4, AcceptGoes
  <2> QED BY <1>1, <2>2, <2>3, <2>5 DEF Works
<1> QED BY <1>2, <1>3

LEMMA AckWorks ==
    ASSUME MachinesTyped, NEW w \in Workers, ListFits(store[w], agent[w]), Acknowledge(w)
    PROVE  Changes(w) /\ Works(w)
<1> DEFINE limit == WithDefaults(Capacity[w]).maxParallel
           x == [store[w] EXCEPT !.outbox = After(@, agent[w].inbox.through)]
<1>1. /\ UNCHANGED <<procs, files>> /\ agent[w].pc = "ack"
      /\ store' = [store EXCEPT ![w] = x]
  BY DEF Acknowledge, At
<1>2. PICK list \in SetToSeqs(Pending(store[w])) :
          agent' = [agent EXCEPT
             ![w].pc = "launch", ![w].inbox = NoReply,
             ![w].todo = SubSeq(list, 1, IF Len(list) < limit THEN Len(list) ELSE limit)]
  BY DEF Acknowledge, ListPending
<1> DEFINE n == IF Len(list) < limit THEN Len(list) ELSE limit
           y == [agent[w] EXCEPT !.pc = "launch", !.inbox = NoReply,
                                 !.todo = SubSeq(list, 1, n)]
<1>3. agent' = [agent EXCEPT ![w] = y]
  BY <1>2
<1>4. n \in Nat /\ n <= Len(list)
  <2>1. limit \in Nat
    BY ResourcesAssumption DEF WithDefaults
  <2>2. Pending(store[w]) \in SUBSET AttemptIds
    BY StoreShape DEF Pending, MachinesTyped
  <2>3. Len(list) \in Nat
    BY <2>2, SeqsListed
  <2> HIDE DEF limit
  <2> QED BY <2>1, <2>3
<1> HIDE DEF x, y, n
<1>5. Changes(w) /\ store'[w] = x /\ agent'[w] = y
  BY <1>1, <1>3, PartsKept, PartsPut DEF Changes
<1>6. PICK st, ag, ps, fs, st2, ag2 :
          /\ st = store[w] /\ ag = agent[w] /\ ps = procs[w] /\ fs = files[w]
          /\ st2 = store'[w] /\ ag2 = agent'[w]
  OBVIOUS
<1>7. /\ Machine(st, ag, ps, fs) /\ ag.pc = "ack" /\ list \in SetToSeqs(Pending(st))
      /\ st2 = [st EXCEPT !.outbox = After(@, ag.inbox.through)]
      /\ ag2 = [ag EXCEPT !.pc = "launch", !.inbox = NoReply, !.todo = SubSeq(list, 1, n)]
  BY <1>1, <1>5, <1>6, MachineIs DEF x, y
<1>8. Goes(st, ag, ps, fs, st2, ag2, ps, fs)
  BY <1>4, <1>7, AckGoes
<1> QED BY <1>1, <1>5, <1>6, <1>8 DEF Works

LEMMA StartWorks ==
    ASSUME MachinesTyped, NEW w \in Workers, ListFits(store[w], agent[w]), StartProcess(w)
    PROVE  Changes(w) /\ Works(w)
<1> DEFINE x == Append(procs[w], [attempt |-> Now(w), st |-> "running"])
           y == [agent[w] EXCEPT !.pc = "spawned"]
<1>1. /\ UNCHANGED <<store, files>> /\ agent[w].pc = "launch" /\ agent[w].todo # << >>
      /\ procs' = [procs EXCEPT ![w] = x] /\ agent' = [agent EXCEPT ![w] = y]
  BY DEF StartProcess, At, Goto
<1> HIDE DEF x, y
<1>2. Changes(w) /\ procs'[w] = x /\ agent'[w] = y
  BY <1>1, PartsKept, PartsPut DEF Changes
<1>3. PICK st, ag, ps, fs, ps2, ag2 :
          /\ st = store[w] /\ ag = agent[w] /\ ps = procs[w] /\ fs = files[w]
          /\ ps2 = procs'[w] /\ ag2 = agent'[w]
  OBVIOUS
<1>4. /\ Machine(st, ag, ps, fs) /\ ag.pc = "launch" /\ ag.todo # << >>
      /\ ps2 = Append(ps, [attempt |-> Head(ag.todo), st |-> "running"])
      /\ ag2 = [ag EXCEPT !.pc = "spawned"]
  BY <1>1, <1>2, <1>3, MachineIs DEF x, y, Now
<1>5. Goes(st, ag, ps, fs, st, ag2, ps2, fs)
  BY <1>4, StartGoes
<1> QED BY <1>1, <1>2, <1>3, <1>5 DEF Works

LEMMA RecordWorks ==
    ASSUME MachinesTyped, NEW w \in Workers, ListFits(store[w], agent[w]), RecordStarted(w)
    PROVE  Changes(w) /\ Works(w)
<1> DEFINE x == MarkStarted(store[w], w, Now(w), Len(procs[w]))
           y == [agent[w] EXCEPT !.pc = "launch", !.todo = Tail(@)]
<1>1. /\ UNCHANGED <<procs, files>> /\ agent[w].pc = "spawned"
      /\ store' = [store EXCEPT ![w] = x] /\ agent' = [agent EXCEPT ![w] = y]
  BY DEF RecordStarted, At, NextOf
<1> HIDE DEF x, y
<1>2. Changes(w) /\ store'[w] = x /\ agent'[w] = y
  BY <1>1, PartsKept, PartsPut DEF Changes
<1>3. PICK st, ag, ps, fs, st2, ag2 :
          /\ st = store[w] /\ ag = agent[w] /\ ps = procs[w] /\ fs = files[w]
          /\ st2 = store'[w] /\ ag2 = agent'[w]
  OBVIOUS
<1>4. /\ Machine(st, ag, ps, fs) /\ ag.pc = "spawned"
      /\ st2 = MarkStarted(st, w, Head(ag.todo), Len(ps))
      /\ ag2 = [ag EXCEPT !.pc = "launch", !.todo = Tail(@)]
      /\ ag \in Agents /\ ag.todo # << >>
  BY <1>1, <1>2, <1>3, MachineIs DEF x, y, Now, Machine, ListFits
<1>5. /\ ag2 \in Agents /\ ag2.pc = "launch" /\ ag2.todo = Tail(ag.todo)
      /\ ag2.up = ag.up /\ ag2.inbox = ag.inbox
  <2>1. Tail(ag.todo) \in Seq(AttemptIds)
    BY <1>4 DEF Agents
  <2> QED BY <1>4, <2>1 DEF Agents, Phases
<1>6. Goes(st, ag, ps, fs, st2, ag2, ps, fs)
  BY <1>4, <1>5, RecordGoes
<1> QED BY <1>1, <1>2, <1>3, <1>6 DEF Works

LEMMA FailWorks ==
    ASSUME MachinesTyped, NEW w \in Workers, ListFits(store[w], agent[w]),
           FailBeforeLaunch(w)
    PROVE  Changes(w) /\ Works(w)
<1> DEFINE pid == 0
           x == MarkStarted(store[w], w, Now(w), pid)
           y == [agent[w] EXCEPT !.pc = "unstarted"]
<1>1. /\ UNCHANGED <<procs, files>> /\ agent[w].pc = "launch" /\ agent[w].todo # << >>
      /\ store' = [store EXCEPT ![w] = x] /\ agent' = [agent EXCEPT ![w] = y]
  BY DEF FailBeforeLaunch, At, Goto
<1>2. pid = 0
  OBVIOUS
<1> HIDE DEF x, y, pid
<1>3. Changes(w) /\ store'[w] = x /\ agent'[w] = y
  BY <1>1, PartsKept, PartsPut DEF Changes
<1>4. PICK st, ag, ps, fs, st2, ag2 :
          /\ st = store[w] /\ ag = agent[w] /\ ps = procs[w] /\ fs = files[w]
          /\ st2 = store'[w] /\ ag2 = agent'[w]
  OBVIOUS
<1>5. /\ Machine(st, ag, ps, fs) /\ ag.pc = "launch" /\ ag.todo # << >>
      /\ st2 = MarkStarted(st, w, Head(ag.todo), pid)
      /\ ag2 = [ag EXCEPT !.pc = "unstarted"]
  BY <1>1, <1>3, <1>4, MachineIs DEF x, y, Now
<1>6. Goes(st, ag, ps, fs, st2, ag2, ps, fs)
  BY <1>2, <1>5, UnstartedGoes
<1> QED BY <1>1, <1>3, <1>4, <1>6 DEF Works

LEMMA FinishUnstartedWorks ==
    ASSUME MachinesTyped, NEW w \in Workers, ListFits(store[w], agent[w]),
           FinishUnstarted(w)
    PROVE  Changes(w) /\ Works(w)
<1> DEFINE ok == FALSE
           tail == TRUE
           none == {}
           x == MarkFinished(store[w], w, Now(w), ok, tail, none)
           y == [agent[w] EXCEPT !.pc = "launch", !.todo = Tail(@)]
<1>1. /\ UNCHANGED <<procs, files>> /\ agent[w].pc = "unstarted"
      /\ store' = [store EXCEPT ![w] = x] /\ agent' = [agent EXCEPT ![w] = y]
  BY DEF FinishUnstarted, At, NextOf
<1>2. ok \in BOOLEAN /\ ~ok /\ tail \in BOOLEAN /\ none \in SUBSET Files
  OBVIOUS
<1> HIDE DEF x, y, ok, tail, none
<1>3. Changes(w) /\ store'[w] = x /\ agent'[w] = y
  BY <1>1, PartsKept, PartsPut DEF Changes
<1>4. PICK st, ag, ps, fs, st2, ag2 :
          /\ st = store[w] /\ ag = agent[w] /\ ps = procs[w] /\ fs = files[w]
          /\ st2 = store'[w] /\ ag2 = agent'[w]
  OBVIOUS
<1>5. /\ Machine(st, ag, ps, fs) /\ ag.pc \in {"finish", "unstarted"} /\ ag.pc = "unstarted"
      /\ st2 = MarkFinished(st, w, Head(ag.todo), ok, tail, none)
      /\ ag2 = [ag EXCEPT !.pc = "launch", !.todo = Tail(@)]
      /\ ag \in Agents /\ ag.todo # << >>
  BY <1>1, <1>3, <1>4, MachineIs DEF x, y, Now, Machine, ListFits
<1>6. /\ ag2 \in Agents /\ ag2.pc = "launch" /\ ag2.todo = Tail(ag.todo)
      /\ ag2.up = ag.up /\ ag2.inbox = ag.inbox
  <2>1. Tail(ag.todo) \in Seq(AttemptIds)
    BY <1>5 DEF Agents
  <2> QED BY <1>5, <2>1 DEF Agents, Phases
<1>7. Goes(st, ag, ps, fs, st2, ag2, ps, fs)
  BY <1>2, <1>5, <1>6, EndGoes
<1> QED BY <1>1, <1>3, <1>4, <1>7 DEF Works

\* Every step the agent takes by itself.
LEMMA AgentWorks ==
    ASSUME MachinesTyped, NEW w \in Workers, ListFits(store[w], agent[w]),
           IsFiniteSet(agent[w].inbox.run), AgentStep(w)
    PROVE  Changes(w) /\ Works(w)
<1>1. CASE AllReconciled(w)
  <2> DEFINE phase == "send"
  <2>1. /\ phase \in {"reap", "send", "wait", "accept", "ack"} /\ Goto(w, phase)
        /\ UNCHANGED <<store, procs, files>> /\ agent[w].up /\ agent[w].pc # "spawned"
    BY <1>1 DEF AllReconciled, At
  <2> HIDE DEF phase
  <2> QED BY <2>1, GotoWorks
<1>2. CASE Launched(w)
  <2> DEFINE phase == "reap"
  <2>1. /\ phase \in {"reap", "send", "wait", "accept", "ack"} /\ Goto(w, phase)
        /\ UNCHANGED <<store, procs, files>> /\ agent[w].up /\ agent[w].pc # "spawned"
    BY <1>2 DEF Launched, At
  <2> HIDE DEF phase
  <2> QED BY <2>1, GotoWorks
<1> QED BY <1>1, <1>2, ReapWorks, ListWorks, IngestWorks, StatusWorks, AliveWorks,
           FinishWorks, AcceptWorks, AckWorks, StartWorks, RecordWorks, FailWorks,
           FinishUnstartedWorks DEF AgentStep

\* A step on the files alone.
LEMMA LineWorks ==
    ASSUME MachinesTyped, NEW w \in Workers, ListFits(store[w], agent[w]),
           NEW a \in AttemptIds, NEW line \in Lines, NEW tail \in LineTails,
           AppendLine(w, a, line, tail)
    PROVE  Changes(w) /\ Works(w)
<1> DEFINE x == [files[w] EXCEPT ![a].lines = Append(@, line), ![a].tail = tail]
<1>1. /\ UNCHANGED <<store, agent, procs>> /\ Len(files[w][a].lines) < MaxLines
      /\ files' = [files EXCEPT ![w] = x]
  BY DEF AppendLine
<1> HIDE DEF x
<1>2. Changes(w) /\ files'[w] = x
  BY ZenonT(30), <1>1, PartsKept, PartsPut DEF Changes
<1>3. PICK st, ag, ps, fs, fs2 : /\ st = store[w] /\ ag = agent[w] /\ ps = procs[w]
                                 /\ fs = files[w] /\ fs2 = files'[w]
  OBVIOUS
<1>4. /\ Machine(st, ag, ps, fs) /\ Len(fs[a].lines) < MaxLines
      /\ fs2 = [fs EXCEPT ![a].lines = Append(@, line), ![a].tail = tail]
  BY <1>1, <1>2, <1>3, MachineIs DEF x
<1>5. Goes(st, ag, ps, fs, st, ag, ps, fs2)
  BY <1>4, LineWrittenGoes
<1> QED BY <1>1, <1>2, <1>3, <1>5 DEF Works

\* Jobs, supervisors, the sampler and the passing of time.
LEMMA JobWorks ==
    ASSUME MachinesTyped, NEW w \in Workers, ListFits(store[w], agent[w]), JobStep(w)
    PROVE  Changes(w) /\ Works(w)
<1>1. PICK st, ag, ps, fs, st2, ps2, fs2 :
          /\ st = store[w] /\ ag = agent[w] /\ ps = procs[w] /\ fs = files[w]
          /\ st2 = store'[w] /\ ps2 = procs'[w] /\ fs2 = files'[w]
  OBVIOUS
<1>2. /\ Machine(st, ag, ps, fs) /\ ag \in Agents /\ ps \in Seq(Processes)
      /\ fs \in [AttemptIds -> FileRows]
  BY <1>1, MachineIs DEF Machine
<1>3. \A p \in DOMAIN procs[w] : procs[w][p].attempt \in AttemptIds
  <2>1. \A p \in DOMAIN ps : ps[p] \in Processes
    BY <1>2
  <2> QED BY <1>1, <2>1 DEF Processes
<1>4. ASSUME NEW p \in DOMAIN procs[w], NEW line \in Lines, JobWrites(w, p, line)
      PROVE  Changes(w) /\ Works(w)
  <2> DEFINE tail == "none"
             a == procs[w][p].attempt
  <2>1. tail \in LineTails /\ AppendLine(w, a, line, tail) /\ a \in AttemptIds
    BY <1>3, <1>4 DEF JobWrites, LineTails
  <2> HIDE DEF tail, a
  <2> QED BY <2>1, LineWorks
<1>5. ASSUME NEW p \in DOMAIN procs[w], JobBeginsLine(w, p) PROVE Changes(w) /\ Works(w)
  <2> DEFINE a == procs[w][p].attempt
             x == [files[w] EXCEPT ![a].tail = "open"]
  <2>1. UNCHANGED <<store, agent, procs>> /\ files' = [files EXCEPT ![w] = x]
    BY <1>5 DEF JobBeginsLine
  <2>2. a \in AttemptIds
    BY <1>3
  <2> HIDE DEF x, a
  <2>3. Changes(w) /\ files'[w] = x
    BY ZenonT(30), <2>1, PartsKept, PartsPut DEF Changes
  <2>4. fs2 = [fs EXCEPT ![a].tail = "open"]
    BY <1>1, <2>3 DEF x
  <2>5. Goes(st, ag, ps, fs, st, ag, ps, fs2)
    BY <1>2, <2>2, <2>4, LineBegunGoes
  <2> QED BY <1>1, <2>1, <2>3, <2>5 DEF Works
<1>6. ASSUME NEW p \in DOMAIN procs[w], NEW f \in Files, JobSaves(w, p, f)
      PROVE  Changes(w) /\ Works(w)
  <2> DEFINE a == procs[w][p].attempt
             x == [files[w] EXCEPT ![a].outputs = @ \cup {f}]
  <2>1. UNCHANGED <<store, agent, procs>> /\ files' = [files EXCEPT ![w] = x]
    BY <1>6 DEF JobSaves
  <2>2. a \in AttemptIds
    BY <1>3
  <2> HIDE DEF x, a
  <2>3. Changes(w) /\ files'[w] = x
    BY ZenonT(30), <2>1, PartsKept, PartsPut DEF Changes
  <2>4. fs2 = [fs EXCEPT ![a].outputs = @ \cup {f}]
    BY <1>1, <2>3 DEF x
  <2>5. Goes(st, ag, ps, fs, st, ag, ps, fs2)
    BY <1>2, <2>2, <2>4, SavedGoes
  <2> QED BY <1>1, <2>1, <2>3, <2>5 DEF Works
<1>7. ASSUME NEW p \in DOMAIN procs[w], NEW status \in {"ok", "bad"},
             ReportStatus(w, p, status)
      PROVE  Changes(w) /\ Works(w)
  <2> DEFINE x == [procs[w] EXCEPT ![p].st = "reported"]
             y == [files[w] EXCEPT ![procs[w][p].attempt].status = status]
  <2>1. /\ UNCHANGED <<store, agent>> /\ procs' = [procs EXCEPT ![w] = x]
        /\ files' = [files EXCEPT ![w] = y] /\ procs[w][p].st = "running"
    BY <1>7 DEF ReportStatus
  <2> HIDE DEF x, y
  <2>2. Changes(w) /\ procs'[w] = x /\ files'[w] = y
    BY ZenonT(30), <2>1, PartsKept, PartsPut DEF Changes
  <2>3. /\ ps2 = [ps EXCEPT ![p].st = "reported"] /\ p \in DOMAIN ps
        /\ fs2 = [fs EXCEPT ![ps[p].attempt].status = status] /\ ps[p].st = "running"
    BY <1>1, <2>1, <2>2 DEF x, y
  <2>4. Goes(st, ag, ps, fs, st, ag, ps2, fs2)
    BY <1>2, <2>3, ReportGoes
  <2> QED BY <1>1, <2>1, <2>2, <2>4 DEF Works
<1>8. ASSUME NEW p \in DOMAIN procs[w], SupervisorExits(w, p) PROVE Changes(w) /\ Works(w)
  <2> DEFINE x == [procs[w] EXCEPT ![p].st = "gone"]
  <2>1. UNCHANGED <<store, agent, files>> /\ procs' = [procs EXCEPT ![w] = x]
    BY <1>8 DEF SupervisorExits
  <2> HIDE DEF x
  <2>2. Changes(w) /\ procs'[w] = x
    BY ZenonT(30), <2>1, PartsKept, PartsPut DEF Changes
  <2>3. ps2 = [ps EXCEPT ![p].st = "gone"] /\ p \in DOMAIN ps
    BY <1>1, <2>2 DEF x
  <2>4. Goes(st, ag, ps, fs, st, ag, ps2, fs)
    BY <1>2, <2>3, ExitGoes
  <2> QED BY <1>1, <2>1, <2>2, <2>4 DEF Works
<1>9. ASSUME NEW a \in AttemptIds, Sample(w, a) PROVE Changes(w) /\ Works(w)
  <2>1. PICK line \in Lines, tail \in LineTails : AppendLine(w, a, line, tail)
    <3>1. files[w][a].tail \in LineTails
      BY <1>1, <1>2 DEF FileRows
    <3>2. Unreadable \in Lines /\ SystemSample \in Lines /\ "torn" \in LineTails
      BY <1>9 DEF Sample, Lines, LineTails
    <3> QED BY <1>9, <3>1, <3>2 DEF Sample
  <2> QED BY <2>1, LineWorks
<1>10. ASSUME NEW a \in DOMAIN store[w].cmds, GracePasses(w, a) PROVE Changes(w) /\ Works(w)
  <2> DEFINE x == [store[w] EXCEPT !.cmds[a].cancel = "overdue"]
  <2>1. UNCHANGED <<agent, procs, files>> /\ store' = [store EXCEPT ![w] = x]
    BY <1>10 DEF GracePasses
  <2> HIDE DEF x
  <2>2. Changes(w) /\ store'[w] = x
    BY <2>1, PartsKept, PartsPut DEF Changes
  <2>3. st2 = [st EXCEPT !.cmds[a].cancel = "overdue"] /\ a \in DOMAIN st.cmds
    BY <1>1, <2>2 DEF x
  <2>4. Goes(st, ag, ps, fs, st2, ag, ps, fs)
    BY <1>2, <2>3, GraceGoes
  <2> QED BY <1>1, <2>1, <2>2, <2>4 DEF Works
<1> QED BY <1>4, <1>5, <1>6, <1>7, <1>8, <1>9, <1>10 DEF JobStep

LEMMA BootWorks ==
    ASSUME MachinesTyped, NEW w \in Workers, ListFits(store[w], agent[w]), StartAgent(w)
    PROVE  Changes(w) /\ Works(w)
<1> DEFINE x == [Stopped(agent[w].session + 1) EXCEPT !.up = TRUE]
<1>1. /\ UNCHANGED <<store, procs, files>> /\ ~agent[w].up
      /\ agent' = [agent EXCEPT ![w] = x]
  BY DEF StartAgent
<1> HIDE DEF x
<1>2. Changes(w) /\ agent'[w] = x
  BY <1>1, PartsKept, PartsPut DEF Changes
<1>3. PICK st, ag, ps, fs, ag2 : /\ st = store[w] /\ ag = agent[w] /\ ps = procs[w]
                                 /\ fs = files[w] /\ ag2 = agent'[w]
  OBVIOUS
<1>4. /\ Machine(st, ag, ps, fs) /\ ~ag.up
      /\ ag2 = [Stopped(ag.session + 1) EXCEPT !.up = TRUE]
  BY <1>1, <1>2, <1>3, MachineIs DEF x
<1>5. Goes(st, ag, ps, fs, st, ag2, ps, fs)
  BY <1>4, BootGoes
<1> QED BY <1>1, <1>2, <1>3, <1>5 DEF Works

---------------------------------------------------------------------------
(* The machines *)

AllFit == \A w \in Workers : Fit(store[w], agent[w], procs[w], files[w])

\* One machine changes and stays what it should be.
LEMMA MachinesGo ==
    ASSUME MachinesTyped, \A v \in Workers : ListFits(store[v], agent[v]),
           NEW w \in Workers, Changes(w),
           Machine(store'[w], agent'[w], procs'[w], files'[w])
    PROVE  /\ MachinesTyped'
           /\ \A v \in Workers : ListFits(store'[v], agent'[v])
           /\ \A v \in Workers \ {w} : /\ store'[v] = store[v] /\ agent'[v] = agent[v]
                                       /\ procs'[v] = procs[v] /\ files'[v] = files[v]
<1>1. /\ store'[w] \in Stores /\ agent'[w] \in Agents /\ procs'[w] \in Seq(Processes)
      /\ files'[w] \in [AttemptIds -> FileRows] /\ Sized(files'[w])
      /\ ListFits(store'[w], agent'[w])
  BY DEF Machine
<1>2. \A v \in Workers \ {w} : /\ store'[v] = store[v] /\ agent'[v] = agent[v]
                               /\ procs'[v] = procs[v] /\ files'[v] = files[v]
  BY DEF MachinesTyped, Changes
<1>3. /\ store' \in [Workers -> Stores] /\ agent' \in [Workers -> Agents]
      /\ procs' \in [Workers -> Seq(Processes)]
      /\ files' \in [Workers -> [AttemptIds -> FileRows]]
  BY <1>1 DEF MachinesTyped, Changes
<1>4. \A v \in Workers : Sized(files'[v]) /\ ListFits(store'[v], agent'[v])
  BY <1>1, <1>2 DEF MachinesTyped
<1>5. \A v \in Workers : Sized(files'[v])
  BY <1>4
<1> QED BY <1>2, <1>3, <1>4 DEF MachinesTyped

LEMMA StoppedIs ==
    ASSUME NEW session \in Nat, NEW st
    PROVE  LET ag == Stopped(session)
           IN  ag \in Agents /\ ListFits(st, ag) /\ ~ag.up /\ ag.pc = "reap"
<1> DEFINE ag == Stopped(session)
<1>1. ag \in Agents /\ ag.pc = "reap" /\ ~ag.up
  BY AgentAssumption DEF Stopped, Agents, NoReply, Replies, Phases
<1> HIDE DEF ag
<1>2. ListFits(st, ag)
  BY <1>1 DEF ListFits, Reconciling, Launching
<1> QED BY <1>1, <1>2 DEF ag

\* A crash or a reboot.
LEMMA StopsWork ==
    ASSUME MachinesTyped, NEW w \in Workers, ListFits(store[w], agent[w]),
           Crash(w) \/ Reboot(w)
    PROVE  Changes(w) /\ Machine(store'[w], agent'[w], procs'[w], files'[w])
<1> DEFINE x == Stopped(agent[w].session)
           y == [p \in DOMAIN procs[w] |-> [procs[w][p] EXCEPT !.st = "gone"]]
<1>1. agent[w] \in Agents /\ agent[w].session \in Nat /\ procs[w] \in Seq(Processes)
  BY DEF MachinesTyped, Agents
<1>2. x \in Agents /\ ListFits(store[w], x)
  BY <1>1, StoppedIs
<1>3. y \in Seq(Processes)
  <2>1. ASSUME NEW p \in 1 .. Len(procs[w])
        PROVE  [procs[w][p] EXCEPT !.st = "gone"] \in Processes
    <3>1. procs[w][p] \in Processes
      BY <1>1
    <3> QED BY <3>1 DEF Processes
  <2>2. DOMAIN procs[w] = 1 .. Len(procs[w]) /\ Len(procs[w]) \in Nat
    BY <1>1
  <2> QED BY <2>1, <2>2, IsASeq
<1>4. /\ UNCHANGED <<store, files>> /\ agent' = [agent EXCEPT ![w] = x]
      /\ UNCHANGED procs \/ procs' = [procs EXCEPT ![w] = y]
  BY DEF Crash, Reboot
<1> HIDE DEF x, y
<1>5. /\ Changes(w) /\ agent'[w] = x /\ (procs'[w] = procs[w] \/ procs'[w] = y)
      /\ store'[w] = store[w] /\ files'[w] = files[w]
  BY <1>4, PartsKept, PartsPut DEF Changes
<1> QED BY <1>1, <1>2, <1>3, <1>5 DEF Machine, MachinesTyped

\* The answer arrives.
LEMMA ReplyWorks ==
    ASSUME MachinesTyped, NEW w \in Workers, ListFits(store[w], agent[w]),
           At(w, "wait"), NEW reply \in Replies, GotReply(w, reply),
           UNCHANGED <<store, procs, files>>
    PROVE  /\ Changes(w) /\ Machine(store'[w], agent'[w], procs'[w], files'[w])
           /\ agent'[w].inbox = reply /\ agent'[w].pc = "accept"
           /\ Fit(store[w], agent[w], procs[w], files[w]) =>
                 Fit(store'[w], agent'[w], procs'[w], files'[w])
<1> DEFINE x == [agent[w] EXCEPT !.pc = "accept", !.inbox = reply]
<1>1. agent' = [agent EXCEPT ![w] = x] /\ agent[w].pc = "wait" /\ agent[w].up
  BY DEF GotReply, At
<1>2. x \in Agents /\ x.pc = "accept" /\ x.inbox = reply /\ x.up = agent[w].up
  <2>1. agent[w] \in Agents
    BY DEF MachinesTyped
  <2> QED BY <2>1 DEF Agents, Phases
<1> HIDE DEF x
<1>3. Changes(w) /\ agent'[w] = x
  BY ZenonT(30), <1>1, PartsKept, PartsPut DEF Changes
<1>4. PICK st, ag, ps, fs, ag2 : /\ st = store[w] /\ ag = agent[w] /\ ps = procs[w]
                                 /\ fs = files[w] /\ ag2 = agent'[w]
  OBVIOUS
<1>5. /\ Machine(st, ag, ps, fs) /\ ag.pc = "wait" /\ ag.up /\ ag2 \in Agents
      /\ ag2.pc = "accept" /\ ag2.up
  BY <1>1, <1>2, <1>3, <1>4, MachineIs
<1>6. ListFits(st, ag2)
  BY <1>5 DEF ListFits, Reconciling, Launching
<1>7. Machine(st, ag2, ps, fs)
  BY <1>5, <1>6 DEF Machine
<1>8. Fit(st, ag, ps, fs) => Fit(st, ag2, ps, fs)
  BY <1>5 DEF Fit, PidsFit, OutcomesFit
<1> QED BY <1>2, <1>3, <1>4, <1>7, <1>8

---------------------------------------------------------------------------
(* The control plane's tables and the network *)

LEMMA TableRow ==
    ASSUME NEW d \in Tables, NEW j \in Jobs, NEW row \in JobRows
    PROVE  [d EXCEPT !.job[j] = row] \in Tables
BY DEF Tables

\* recordWorkerEvent keeps the tables well formed.
LEMMA RecordedTable ==
    ASSUME NEW d \in Tables, NEW w \in Workers, NEW s \in Nat, NEW e \in Messages,
           CanRecord(d, w, s, e)
    PROVE  Recorded(d, w, s, e) \in Tables
<1>1. CASE ~Fresh(d, w, s, e)
  BY <1>1 DEF Recorded
<1>2. CASE Fresh(d, w, s, e)
  <2>1. CanApply(d, w, e.body)
    BY <1>2 DEF CanRecord, Fresh, Replayed, SameKey
  <2>2. e.body \in EventBodies
    BY DEF Messages
  <2>3. Applied(d, e.body) \in JobRows
    BY <2>1, <2>2, AppliedType DEF Tables
  <2>4. e.body.attempt \in AttemptIds /\ e.body.kind \in EventKinds
    BY <2>2 DEF EventBodies, EventKinds
  <2>5. e.body.attempt[1] \in Jobs
    BY <2>4 DEF AttemptIds
  <2>6. EventRow(w, s, e) \in Recordings
    BY <2>4 DEF EventRow, Recordings, Messages
  <2> DEFINE inserted == [d EXCEPT !.events = @ \cup {EventRow(w, s, e)}]
  <2>7. inserted \in Tables
    BY <2>6 DEF Tables
  <2>8. Recorded(d, w, s, e)
          = [inserted EXCEPT !.job[e.body.attempt[1]] = Applied(d, e.body)]
    BY <1>2 DEF Recorded, Tables
  <2> HIDE DEF inserted
  <2> QED BY <2>3, <2>5, <2>7, <2>8, TableRow
<1> QED BY <1>1, <1>2

LEMMA OperateTypes ==
    ASSUME PlaneTyped, Operate
    PROVE  PlaneTyped'
<1>0. db \in Tables /\ wire \subseteq Posted /\ call \in [live : BOOLEAN, rest : Seq(Messages)]
      /\ UNCHANGED <<wire, call>> /\ req \in {Idle} \cup Served
  BY DEF PlaneTyped, Operate, netVars
<1>1. ASSUME NEW w \in Workers, CreateWorker(w) PROVE PlaneTyped'
  <2>1. [db EXCEPT !.worker[w] = "offline"] \in Tables
    BY <1>0 DEF Tables
  <2> QED BY <1>0, <1>1, <2>1 DEF CreateWorker, Do, PlaneTyped
<1>2. ASSUME NEW t \in Targets, CreateWebhookTarget(t) PROVE PlaneTyped'
  <2>1. [db EXCEPT !.targets = @ \cup {t}] \in Tables
    BY <1>0 DEF Tables
  <2> QED BY <1>0, <1>2, <2>1 DEF CreateWebhookTarget, Do, PlaneTyped
<1>3. ASSUME NEW k \in Keys, NEW j \in Jobs, NEW rank \in Ranks, CreateJob(k, j, rank)
      PROVE  PlaneTyped'
  <2>1. Submitted(rank) \in JobRows
    BY SubmittedType DEF Ranks
  <2> DEFINE d == [db EXCEPT !.job[j] = Submitted(rank)]
             new == [db EXCEPT !.job[j] = Submitted(rank), !.keys = @ \cup {<<k, j>>}]
  <2>2. d \in Tables
    BY <1>0, <2>1, TableRow
  <2>3. new = [d EXCEPT !.keys = @ \cup {<<k, j>>}]
    BY <1>0 DEF Tables
  <2> HIDE DEF d
  <2>4. [d EXCEPT !.keys = @ \cup {<<k, j>>}] \in Tables
    BY <2>2 DEF Tables
  <2>5. db' = new /\ tx' = new /\ UNCHANGED req
    BY <1>3 DEF CreateJob, Do
  <2> HIDE DEF new
  <2> QED BY <1>0, <2>3, <2>4, <2>5 DEF PlaneTyped
<1>4. ASSUME NEW j \in Jobs, CancelJob(j) PROVE PlaneTyped'
  <2>1. db.job[j] \in JobRows
    BY <1>0 DEF Tables
  <2>2. [db EXCEPT !.job[j] = Canceled(db.job[j])] \in Tables
    BY <1>0, <2>1, CanceledType, TableRow
  <2> QED BY <1>0, <1>4, <2>2 DEF CancelJob, Do, PlaneTyped
<1> QED BY <1>1, <1>2, <1>3, <1>4 DEF Operate

LEMMA ServeTypes ==
    ASSUME PlaneTyped, NEW r \in wire, Serve(r)
    PROVE  PlaneTyped'
<1>1. r \in Posted /\ db \in Tables
  BY DEF PlaneTyped
<1>2. /\ db' = db /\ tx' = [db EXCEPT !.worker[r.worker] = "online"]
      /\ req' = [phase |-> "events", worker |-> r.worker, session |-> r.session,
                 scan |-> {}]
      /\ wire' = wire \ {r} /\ call' = [live |-> r.live, rest |-> r.events]
  BY DEF Serve, BeginSync
<1>3. tx' \in Tables
  BY <1>1, <1>2 DEF Tables, Posted
<1>4. req' \in Served /\ call' \in [live : BOOLEAN, rest : Seq(Messages)]
  BY <1>1, <1>2 DEF Served, Posted
<1> QED BY <1>1, <1>2, <1>3, <1>4 DEF PlaneTyped

LEMMA RecordTypes ==
    ASSUME PlaneTyped, RecordNext
    PROVE  PlaneTyped'
<1>1. /\ UNCHANGED <<db, req, wire>> /\ call.rest # << >> /\ req.phase = "events"
      /\ CanRecord(tx, req.worker, req.session, Head(call.rest))
      /\ tx' = Recorded(tx, req.worker, req.session, Head(call.rest))
      /\ call' = [call EXCEPT !.rest = Tail(@)]
  BY DEF RecordNext, RecordEvent
<1>2. req \in Served
  BY <1>1 DEF PlaneTyped, Idle
<1>3. req.worker \in Workers /\ req.session \in Nat
  BY <1>2 DEF Served
<1>4. Head(call.rest) \in Messages /\ Tail(call.rest) \in Seq(Messages)
  BY <1>1 DEF PlaneTyped
<1>5. tx' \in Tables
  BY <1>1, <1>3, <1>4, RecordedTable DEF PlaneTyped
<1>6. call' \in [live : BOOLEAN, rest : Seq(Messages)]
  BY <1>1, <1>4 DEF PlaneTyped
<1> QED BY <1>1, <1>5, <1>6 DEF PlaneTyped

LEMMA OffersTypes ==
    ASSUME PlaneTyped, StartOffers \/ \E j \in Jobs : Offer(j)
    PROVE  PlaneTyped'
<1>1. UNCHANGED <<db, wire, call>>
  BY DEF StartOffers, BeginOffers, Offer, OfferNext, netVars
<1>2. req \in Served
  BY DEF StartOffers, BeginOffers, Offer, OfferNext, PlaneTyped, Idle
<1>3. CASE StartOffers
  <2>1. /\ req' = [req EXCEPT !.phase = "offers",
                          !.scan = IF Slack(tx, req.worker) THEN Candidates(tx) ELSE {}]
        /\ UNCHANGED tx
    BY <1>3 DEF StartOffers, BeginOffers
  <2>2. Candidates(tx) \subseteq Jobs
    BY DEF Candidates
  <2>3. req' \in Served
    BY <1>2, <2>1, <2>2 DEF Served
  <2> QED BY <1>1, <2>1, <2>3 DEF PlaneTyped
<1>4. ASSUME NEW j \in Jobs, Offer(j) PROVE PlaneTyped'
  <2>1. req' = [req EXCEPT !.scan = @ \ {j}]
    BY <1>4 DEF Offer, OfferNext
  <2>2. req' \in Served /\ req.worker \in Workers
    BY <1>2, <2>1 DEF Served
  <2>3. tx \in Tables /\ tx.job[j] \in JobRows
    BY DEF PlaneTyped, Tables
  <2>4. [tx EXCEPT !.job[j] = Offered(tx.job[j], req.worker)] \in Tables
    BY <2>2, <2>3, OfferedType, TableRow
  <2>5. tx' \in Tables
    BY <1>4, <2>3, <2>4 DEF Offer, OfferNext
  <2> QED BY <1>1, <2>2, <2>5 DEF PlaneTyped
<1> QED BY <1>3, <1>4

LEMMA FailTypes ==
    ASSUME PlaneTyped, Fail
    PROVE  PlaneTyped'
<1>1. NoCall \in [live : BOOLEAN, rest : Seq(Messages)]
  BY DEF NoCall
<1> QED BY <1>1 DEF Fail, Rollback, PlaneTyped

LEMMA ReplyTypes ==
    ASSUME PlaneTyped, Reply
    PROVE  PlaneTyped'
<1>1. NoCall \in [live : BOOLEAN, rest : Seq(Messages)]
  BY DEF NoCall
<1> QED BY <1>1 DEF Reply, Commit, PlaneTyped

\* What a worker posts is a request.
LEMMA PostTypes ==
    ASSUME MachinesTyped, PlaneTyped, NEW w \in Workers, Post(w)
    PROVE  PlaneTyped'
<1> DEFINE r == [worker |-> w, session |-> agent[w].session, events |-> Batch(w),
                 live |-> TRUE]
           es == store[w].outbox
           l == IF Len(es) < MaxBatch THEN Len(es) ELSE MaxBatch
<1>1. /\ UNCHANGED <<db, tx, req, call>> /\ wire' = wire \cup {r}
  BY DEF Post, Aside, PostSync
<1>2. es \in Seq(Messages) /\ agent[w].session \in Nat
  BY DEF MachinesTyped, Stores, Agents
<1>3. Batch(w) = SubSeq(es, 1, l)
  BY DEF Batch
<1>4. l \in Nat /\ l <= Len(es)
  BY <1>2, AgentAssumption
<1>5. Batch(w) \in Seq(Messages)
  <2> HIDE DEF es, l
  <2>1. \A i \in 1 .. l : es[i] \in Messages
    BY <1>2, <1>4
  <2> QED BY <1>2, <1>3, <1>4, <2>1, SubSeqProperties
<1>6. r \in Posted
  BY <1>2, <1>5 DEF Posted
<1> HIDE DEF r
<1> QED BY <1>1, <1>6 DEF PlaneTyped

LEMMA AbandonTypes ==
    ASSUME PlaneTyped, NEW w \in Workers, Abandon(w), UNCHANGED <<db, tx, req, call>>
    PROVE  PlaneTyped'
<1>1. ASSUME NEW r \in wire PROVE r \in Posted /\ [r EXCEPT !.live = FALSE] \in Posted
  BY DEF PlaneTyped, Posted
<1>2. \A r \in wire' : r \in wire \/ \E q \in wire : r = [q EXCEPT !.live = FALSE]
  BY DEF Abandon
<1> QED BY <1>1, <1>2 DEF PlaneTyped

---------------------------------------------------------------------------
(* Who waits for what *)

\* A step that makes nobody stop waiting.
LEMMA StillAwaited ==
    ASSUME PlaneTyped, Awaited, wire' \subseteq wire, UNCHANGED <<req, call>>,
           \A v \in Workers : At(v, "wait") => At(v, "wait")'
    PROVE  Awaited'
<1>1. \A r \in wire : r.worker \in Workers
  BY DEF PlaneTyped, Posted
<1>2. req # Idle => req.worker \in Workers
  BY DEF PlaneTyped, Served
<1>3. \A r \in wire' : r.live => At(r.worker, "wait")'
  BY <1>1 DEF Awaited
<1>4. call.live => req # Idle /\ At(req.worker, "wait")'
  BY <1>2 DEF Awaited
<1> QED BY <1>3, <1>4 DEF Awaited

LEMMA StepKeepsWaiting ==
    ASSUME MachinesTyped, NEW w \in Workers, Changes(w),
           UNCHANGED agent \/ ~At(w, "wait")
    PROVE  \A v \in Workers : At(v, "wait") => At(v, "wait")'
BY DEF MachinesTyped, Changes, At

LEMMA AgentStepFree ==
    ASSUME NEW w \in Workers, AgentStep(w)
    PROVE  ~At(w, "wait")
BY DEF AgentStep, At, ReapWithdrawn, ListRunning, Ingest, AllReconciled, ReadRunStatus,
       CheckAlive, Finish, AcceptCommands, Acknowledge, Launched, StartProcess,
       RecordStarted, FailBeforeLaunch, FinishUnstarted

LEMMA JobStepKeepsAgent ==
    ASSUME NEW w \in Workers, JobStep(w)
    PROVE  UNCHANGED agent
BY DEF JobStep, JobWrites, JobBeginsLine, JobSaves, ReportStatus, SupervisorExits, Sample,
       GracePasses, AppendLine

\* A worker that posts waited for nothing.
LEMMA PostAwaited ==
    ASSUME MachinesTyped, PlaneTyped, Awaited, NEW w \in Workers, Post(w)
    PROVE  Awaited'
<1> DEFINE new == [worker |-> w, session |-> agent[w].session, events |-> Batch(w),
                   live |-> TRUE]
<1>1. /\ UNCHANGED <<req, call>> /\ wire' = wire \cup {new} /\ Goto(w, "wait")
      /\ At(w, "send") /\ req = Idle
  BY DEF Post, Aside, PostSync
<1>2. \A v \in Workers : At(v, "wait") => At(v, "wait")'
  BY <1>1 DEF MachinesTyped, Agents, Goto, At
<1>3. At(w, "wait")'
  BY <1>1 DEF MachinesTyped, Agents, Goto, At
<1>4. ~call.live /\ \A r \in wire : r.live => r.worker # w
  BY <1>1 DEF Awaited, At
<1>5. new.worker = w /\ new.live = TRUE
  OBVIOUS
<1> HIDE DEF new
<1>6. \A r \in wire : r.worker \in Workers
  BY DEF PlaneTyped, Posted
<1>7. \A r \in wire' : r.live => At(r.worker, "wait")'
  BY <1>1, <1>2, <1>3, <1>5, <1>6 DEF Awaited
<1>8. \A r, q \in wire' : r.live /\ q.live /\ r.worker = q.worker => r = q
  BY <1>1, <1>4, <1>5 DEF Awaited
<1> QED BY <1>1, <1>4, <1>7, <1>8 DEF Awaited

\* A worker that gives up waits for nothing, and nobody else stops waiting.
LEMMA AbandonAwaited ==
    ASSUME MachinesTyped, PlaneTyped, Awaited, NEW w \in Workers, Abandon(w), Changes(w),
           req = Idle, UNCHANGED <<req, call>>
    PROVE  Awaited'
<1>1. ~call.live
  BY DEF Awaited
<1>2. ASSUME NEW r \in wire', r.live PROVE r \in wire /\ r.worker # w
  <2>1. \A q \in wire : q \in Posted
    BY DEF PlaneTyped
  <2>2. \A q \in wire : [q EXCEPT !.live = FALSE].live = FALSE
    BY <2>1 DEF Posted
  <2>3. r \in (wire \ {q \in wire : q.worker = w}) \cup {[q EXCEPT !.live = FALSE] : q \in wire}
    BY DEF Abandon
  <2> QED BY <1>2, <2>2, <2>3
<1>3. \A v \in Workers \ {w} : agent'[v] = agent[v]
  BY DEF MachinesTyped, Changes
<1>4. \A r \in wire : r.worker \in Workers
  BY DEF PlaneTyped, Posted
<1>5. \A r \in wire' : r.live => At(r.worker, "wait")'
  BY <1>2, <1>3, <1>4 DEF Awaited, At
<1> QED BY <1>1, <1>2, <1>5 DEF Awaited

LEMMA ServeAwaited ==
    ASSUME PlaneTyped, Awaited, NEW r \in wire, Serve(r)
    PROVE  Awaited'
<1>1. /\ UNCHANGED agent /\ wire' = wire \ {r} /\ req'.worker = r.worker
      /\ req' # Idle /\ call'.live = r.live
  BY DEF Serve, BeginSync, agentVars, Idle
<1> QED BY <1>1 DEF Awaited, At

\* The server is done: nobody waits for the request any more.
LEMMA DoneAwaited ==
    ASSUME MachinesTyped, PlaneTyped, Awaited, req # Idle, call' = NoCall, UNCHANGED wire,
           \/ UNCHANGED agent
           \/ call.live /\ Changes(req.worker)
    PROVE  Awaited'
<1>1. ~call'.live
  BY DEF NoCall
<1>2. \A r \in wire : r.worker \in Workers
  BY DEF PlaneTyped, Posted
<1>3. req.worker \in Workers
  BY DEF PlaneTyped, Served
<1>4. ASSUME NEW r \in wire, r.live PROVE agent'[r.worker] = agent[r.worker]
  BY <1>2, <1>3, <1>4 DEF Awaited, MachinesTyped, Changes
<1>5. \A r \in wire : r.live => At(r.worker, "wait")'
  BY <1>4 DEF Awaited, At
<1> QED BY <1>1, <1>5 DEF Awaited

---------------------------------------------------------------------------
(* The invariant of every behaviour *)

LEMMA AnswerTyped ==
    ASSUME NEW d \in Tables, Gapless(d), NEW w \in Workers, NEW s
    PROVE  Answer(d, w, s) \in Replies
<1> DEFINE offered == {a \in LiveOn(d, w) : d.job[a[1]].attempts[a[2]].state = "offered"}
           run == {[attempt |-> a, rev |-> d.job[a[1]].rev] : a \in offered}
           cancel == {a \in LiveOn(d, w) : d.job[a[1]].state \in {"canceling", "canceled"}}
           m == Max({0} \cup {r.seq : r \in {q \in d.events : q.worker = w /\ q.session = s}})
<1>1. Answer(d, w, s) = [run |-> run, cancel |-> cancel, through |-> m]
  BY DEF Answer
<1>2. offered \subseteq AttemptIds /\ cancel \subseteq AttemptIds
  BY DEF LiveOn
<1>3. \A a \in AttemptIds : a[1] \in Jobs
  BY DEF AttemptIds
<1>4. \A j \in Jobs : d.job[j] \in JobRows
  BY DEF Tables
<1>5. \A j \in Jobs : d.job[j].rev \in Nat
  BY <1>4 DEF JobRows
<1>6. run \subseteq [attempt : AttemptIds, rev : Nat]
  <2> HIDE DEF offered
  <2> QED BY <1>2, <1>3, <1>5
<1>7. m \in Nat
  <2>1. Answer(d, w, s).through \in 0 .. Top(d, w) /\ Top(d, w) \in Nat
    BY AnswerFits DEF Gapless
  <2>2. Answer(d, w, s).through = m
    BY <1>1
  <2> HIDE DEF m
  <2> QED BY <2>1, <2>2
<1> HIDE DEF run, cancel, m
<1> QED BY <1>1, <1>2, <1>6, <1>7 DEF Replies

\* The worker that waits for the open sync hears its answer.
Hears(w) ==
    /\ call.live /\ req # Idle /\ w = req.worker
    /\ UNCHANGED <<store, procs, files>> /\ db' = tx
    /\ agent'[w].inbox = Answer(tx, w, req.session)
    /\ Machine(store'[w], agent'[w], procs'[w], files'[w])
    /\ Fit(store[w], agent[w], procs[w], files[w]) =>
          Fit(store'[w], agent'[w], procs'[w], files'[w])

\* The agent dies, alone or with its machine.
Stops(w) ==
    /\ Fault("crash") \/ Fault("reboot")
    /\ Machine(store'[w], agent'[w], procs'[w], files'[w])

\* What a step does to the machines.
Proceeds ==
    \/ UNCHANGED agentVars
    \/ \E w \in Workers : Changes(w) /\ (Works(w) \/ Hears(w) \/ Stops(w))

LEMMA MovesKeep ==
    ASSUME WorkInv, Proceeds, PlaneTyped', Awaited'
    PROVE  WorkInv'
<1>1. /\ MachinesTyped /\ \A v \in Workers : ListFits(store[v], agent[v])
  BY DEF WorkInv
<1>2. CASE UNCHANGED agentVars
  BY <1>1, <1>2 DEF agentVars, WorkInv, MachinesTyped
<1>3. ASSUME NEW w \in Workers, Changes(w), Works(w) \/ Hears(w) \/ Stops(w)
      PROVE  WorkInv'
  <2>1. Machine(store'[w], agent'[w], procs'[w], files'[w])
    BY <1>3 DEF Works, Goes, Hears, Stops
  <2>2. MachinesTyped' /\ \A v \in Workers : ListFits(store'[v], agent'[v])
    BY <1>1, <1>3, <2>1, MachinesGo
  <2> QED BY <2>2 DEF WorkInv
<1> QED BY <1>2, <1>3 DEF Proceeds

LEMMA LocalMoves ==
    ASSUME WorkInv, ChainInv, NEW w \in Workers,
           AgentAlone(w) \/ JobAlone(w) \/ Post(w) \/ Start(w) \/ Faults(w)
    PROVE  Proceeds /\ PlaneTyped' /\ Awaited'
<1>1. /\ MachinesTyped /\ PlaneTyped /\ Awaited /\ ListFits(store[w], agent[w])
      /\ IsFiniteSet(agent[w].inbox.run)
  BY DEF WorkInv, ChainInv, Heard
<1>2. CASE AgentAlone(w) \/ JobAlone(w)
  <2>1. /\ AgentStep(w) \/ JobStep(w)
        /\ UNCHANGED <<db, tx, req, wire, call>>
    BY <1>2 DEF AgentAlone, JobAlone, Aside, netVars
  <2>2. Changes(w) /\ Works(w)
    BY <1>1, <2>1, AgentWorks, JobWorks
  <2>3. UNCHANGED agent \/ ~At(w, "wait")
    BY <2>1, AgentStepFree, JobStepKeepsAgent
  <2>4. Awaited'
    BY <1>1, <2>1, <2>2, <2>3, StepKeepsWaiting, StillAwaited
  <2>5. PlaneTyped'
    BY <1>1, <2>1 DEF PlaneTyped
  <2> QED BY <2>2, <2>4, <2>5 DEF Proceeds
<1>3. CASE Post(w)
  <2> DEFINE phase == "wait"
  <2>1. /\ phase \in {"reap", "send", "wait", "accept", "ack"} /\ Goto(w, phase)
        /\ UNCHANGED <<store, procs, files>> /\ agent[w].up /\ agent[w].pc # "spawned"
    BY <1>3 DEF Post, PostSync, At
  <2> HIDE DEF phase
  <2>2. Changes(w) /\ Works(w)
    BY <1>1, <2>1, GotoWorks
  <2> QED BY <1>1, <1>3, <2>2, PostTypes, PostAwaited DEF Proceeds
<1>4. CASE Start(w)
  <2>1. StartAgent(w) /\ UNCHANGED <<db, tx, req, wire, call>> /\ ~At(w, "wait")
    BY <1>4 DEF Start, Aside, netVars, StartAgent, At
  <2>2. Changes(w) /\ Works(w)
    BY <1>1, <2>1, BootWorks
  <2>3. Awaited'
    BY <1>1, <2>1, <2>2, StepKeepsWaiting, StillAwaited
  <2>4. PlaneTyped'
    BY <1>1, <2>1 DEF PlaneTyped
  <2> QED BY <2>2, <2>3, <2>4 DEF Proceeds
<1>5. CASE Faults(w)
  <2>1. Abandon(w) /\ req = Idle /\ UNCHANGED <<db, tx, req, call>>
    BY <1>5 DEF Faults, Aside, TimeOut
  <2>2. Changes(w) /\ (Works(w) \/ Stops(w))
    <3>1. CASE TimeOut(w)
      <4>1. /\ GotError(w) /\ UNCHANGED <<store, procs, files>>
            /\ agent[w].pc # "spawned"
        BY <3>1 DEF TimeOut, At
      <4> QED BY <1>1, <4>1, ErrorWorks
    <3>2. CASE ~TimeOut(w)
      <4>1. (Crash(w) \/ Reboot(w)) /\ (Fault("crash") \/ Fault("reboot"))
        BY <1>5, <3>2 DEF Faults
      <4> QED BY <1>1, <4>1, StopsWork DEF Stops
    <3> QED BY <3>1, <3>2
  <2>3. PlaneTyped' /\ Awaited'
    BY <1>1, <2>1, <2>2, AbandonTypes, AbandonAwaited
  <2> QED BY <2>2, <2>3 DEF Proceeds
<1> QED BY <1>2, <1>3, <1>4, <1>5

LEMMA FailMoves ==
    ASSUME WorkInv, Fail
    PROVE  Proceeds /\ PlaneTyped' /\ Awaited'
<1>1. /\ MachinesTyped /\ PlaneTyped /\ Awaited
      /\ \A v \in Workers : ListFits(store[v], agent[v])
  BY DEF WorkInv
<1>2. /\ req # Idle /\ call' = NoCall /\ UNCHANGED <<store, procs, files, wire>>
      /\ (call.live /\ GotError(req.worker)) \/ (~call.live /\ UNCHANGED agent)
  BY DEF Fail, Rollback
<1>3. PlaneTyped'
  BY <1>1, FailTypes
<1>4. CASE call.live
  <2>1. PICK w \in Workers : w = req.worker
    BY <1>1, <1>2 DEF PlaneTyped, Served
  <2>2. GotError(w) /\ At(w, "wait")
    BY <1>1, <1>2, <1>4, <2>1 DEF Awaited
  <2>3. agent[w].pc # "spawned"
    BY <2>2 DEF At
  <2>4. Changes(w) /\ Works(w)
    BY <1>1, <1>2, <2>2, <2>3, ErrorWorks
  <2>5. Awaited'
    BY <1>1, <1>2, <1>4, <2>1, <2>4, DoneAwaited
  <2> QED BY <1>3, <2>4, <2>5 DEF Proceeds
<1>5. CASE ~call.live
  BY <1>1, <1>2, <1>3, <1>5, DoneAwaited DEF Proceeds, agentVars
<1> QED BY <1>4, <1>5

LEMMA ReplyMoves ==
    ASSUME WorkInv, ChainInv, Reply
    PROVE  Proceeds /\ PlaneTyped' /\ Awaited'
<1>1. /\ MachinesTyped /\ PlaneTyped /\ Awaited /\ Gapless(tx)
      /\ \A v \in Workers : ListFits(store[v], agent[v])
  BY DEF WorkInv, ChainInv
<1>2. /\ req # Idle /\ call' = NoCall /\ UNCHANGED <<store, procs, files, wire>> /\ db' = tx
      /\ \/ call.live /\ GotReply(req.worker, Answer(tx, req.worker, req.session))
         \/ ~call.live /\ UNCHANGED agent
  BY DEF Reply, Commit, OffersDone, Idle
<1>3. PlaneTyped'
  BY <1>1, ReplyTypes
<1>4. CASE call.live
  <2>1. PICK w \in Workers : w = req.worker
    BY <1>1, <1>2 DEF PlaneTyped, Served
  <2>2. PICK reply : reply = Answer(tx, w, req.session)
    OBVIOUS
  <2>3. GotReply(w, reply) /\ At(w, "wait") /\ reply \in Replies
    BY <1>1, <1>2, <1>4, <2>1, <2>2, AnswerTyped DEF Awaited, PlaneTyped
  <2>4. /\ Changes(w) /\ Machine(store'[w], agent'[w], procs'[w], files'[w])
        /\ agent'[w].inbox = reply
        /\ Fit(store[w], agent[w], procs[w], files[w]) =>
              Fit(store'[w], agent'[w], procs'[w], files'[w])
    BY <1>1, <1>2, <2>3, ReplyWorks
  <2>5. Hears(w)
    BY <1>2, <1>4, <2>1, <2>2, <2>4 DEF Hears
  <2>6. Awaited'
    BY <1>1, <1>2, <1>4, <2>1, <2>4, DoneAwaited
  <2> QED BY <1>3, <2>4, <2>5, <2>6 DEF Proceeds
<1>5. CASE ~call.live
  BY <1>1, <1>2, <1>3, <1>5, DoneAwaited DEF Proceeds, agentVars
<1> QED BY <1>4, <1>5

\* A step of the control plane that no worker sees yet.
LEMMA PlaneMoves ==
    ASSUME WorkInv,
           \/ Operate \/ (\E r \in wire : Serve(r)) \/ RecordNext
           \/ StartOffers \/ (\E j \in Jobs : Offer(j)) \/ UNCHANGED sysVars
    PROVE  Proceeds /\ PlaneTyped' /\ Awaited'
<1>1. PlaneTyped /\ Awaited
  BY DEF WorkInv
<1>2. UNCHANGED agentVars
  BY DEF Operate, Serve, RecordNext, StartOffers, Offer, sysVars, agentVars
<1>3. PlaneTyped'
  <2>1. CASE UNCHANGED sysVars
    BY <1>1, <2>1 DEF sysVars, PlaneTyped
  <2> QED BY <1>1, <2>1, OperateTypes, ServeTypes, RecordTypes, OffersTypes
<1>4. \A v \in Workers : At(v, "wait") => At(v, "wait")'
  BY <1>2 DEF agentVars, At
<1>5. CASE Operate \/ UNCHANGED sysVars
  <2>1. UNCHANGED <<wire, call, req>>
    BY <1>5 DEF Operate, CreateWorker, CreateWebhookTarget, CreateJob, CancelJob, Do,
                netVars, sysVars
  <2> QED BY <1>1, <1>2, <1>3, <1>4, <2>1, StillAwaited DEF Proceeds
<1>6. CASE \E r \in wire : Serve(r)
  BY <1>1, <1>2, <1>3, <1>6, ServeAwaited DEF Proceeds
<1>7. CASE RecordNext \/ StartOffers \/ \E j \in Jobs : Offer(j)
  <2>1. /\ UNCHANGED <<wire, agent>> /\ req # Idle /\ req' # Idle
        /\ req'.worker = req.worker /\ call'.live = call.live
    <3>1. CASE RecordNext
      BY <1>1, <3>1 DEF RecordNext, RecordEvent, agentVars, PlaneTyped, Idle
    <3>2. CASE StartOffers \/ \E j \in Jobs : Offer(j)
      <4>1. req \in Served
        BY <1>1, <3>2 DEF StartOffers, BeginOffers, Offer, OfferNext, PlaneTyped, Idle
      <4>2. req'.phase = "offers" /\ req'.worker = req.worker
        <5>1. CASE StartOffers
          BY <4>1, <5>1 DEF StartOffers, BeginOffers, Served
        <5>2. CASE \E j \in Jobs : Offer(j)
          BY <4>1, <5>2 DEF Offer, OfferNext, Served
        <5> QED BY <3>2, <5>1, <5>2
      <4>3. UNCHANGED <<wire, agent, call>>
        BY <3>2 DEF StartOffers, Offer, agentVars, netVars
      <4> QED BY <4>1, <4>2, <4>3 DEF Served, Idle
    <3> QED BY <1>7, <3>1, <3>2
  <2>2. Awaited'
    BY <1>1, <2>1 DEF Awaited, At
  <2> QED BY <1>2, <1>3, <2>2 DEF Proceeds
<1> QED BY <1>5, <1>6, <1>7

LEMMA WorkNext ==
    ASSUME WorkInv, ChainInv, [SyncNext]_sysVars
    PROVE  Proceeds /\ WorkInv'
<1>1. Proceeds /\ PlaneTyped' /\ Awaited'
  BY LocalMoves, FailMoves, ReplyMoves, PlaneMoves
     DEF SyncNext, Server, RefuseNext, ServerFault
<1> QED BY <1>1, MovesKeep

LEMMA WorkInit == SyncInit => WorkInv
<1> SUFFICES ASSUME SyncInit PROVE WorkInv
  OBVIOUS
<1>1. ASSUME NEW w \in Workers
      PROVE  /\ store[w] \in Stores /\ agent[w] \in Agents /\ procs[w] \in Seq(Processes)
             /\ files[w] \in [AttemptIds -> FileRows] /\ Sized(files[w])
             /\ ListFits(store[w], agent[w])
  <2>1. store[w] = [cmds |-> << >>, outbox |-> << >>, next |-> 1] /\ procs[w] = << >>
        /\ agent[w] = Stopped(0)
        /\ files[w] = [a \in AttemptIds |-> [status |-> "none", lines |-> << >>,
                                             tail |-> "none", outputs |-> {}]]
    BY DEF SyncInit, AgentInit
  <2> DEFINE none == << >>
  <2>2. none \in CommandTables
    <3>1. none \in [{} -> Commands]
      OBVIOUS
    <3>2. {} \in SUBSET AttemptIds
      OBVIOUS
    <3> DEFINE known == {}
    <3> HIDE DEF none, known
    <3> QED BY <3>1, <3>2, TableShape DEF known
  <2>3. store[w] \in Stores
    BY <2>1, <2>2 DEF Stores
  <2>4. agent[w] \in Agents /\ ListFits(store[w], agent[w])
    <3> DEFINE zero == 0
    <3>1. zero \in Nat /\ agent[w] = Stopped(zero)
      BY <2>1
    <3> HIDE DEF zero
    <3> QED BY <3>1, StoppedIs
  <2>5. files[w] \in [AttemptIds -> FileRows]
    BY <2>1 DEF FileRows, LineTails
  <2>6. Sized(files[w])
    <3>1. \A a \in AttemptIds : files[w][a].outputs = {} /\ Len(files[w][a].lines) = 0
      BY <2>1
    <3>2. IsFiniteSet({}) /\ 0 <= MaxLines
      BY FS_EmptySet, AgentAssumption
    <3> QED BY <3>1, <3>2 DEF Sized
  <2> QED BY <2>1, <2>3, <2>4, <2>5, <2>6
<1>2. MachinesTyped
  <2>1. DOMAIN store = Workers /\ store = [w \in Workers |-> store[w]]
        /\ agent = [w \in Workers |-> agent[w]] /\ procs = [w \in Workers |-> procs[w]]
        /\ files = [w \in Workers |-> files[w]]
    BY DEF SyncInit, AgentInit
  <2> QED BY <1>1, <2>1 DEF MachinesTyped
<1>3. PlaneTyped
  <2>1. NoJobRow \in JobRows
    BY DEF NoJobRow, JobRows, JobStates
  <2>2. EmptyDatabase \in Tables
    BY <2>1 DEF EmptyDatabase, Tables
  <2> QED BY <2>2 DEF SyncInit, Init, PlaneTyped, NoCall
<1>4. Awaited
  BY DEF SyncInit, Awaited, NoCall
<1> QED BY <1>1, <1>2, <1>3, <1>4 DEF WorkInv

LEMMA Working == SyncSpec => [](WorkInv /\ ChainInv)
<1>1. SyncInit => WorkInv /\ ChainInv
  BY WorkInit, ChainInit
<1>2. (WorkInv /\ ChainInv) /\ [SyncNext]_sysVars => (WorkInv /\ ChainInv)'
  BY WorkNext, ChainNext
<1> QED BY <1>1, <1>2, PTL DEF SyncSpec

\* Numbers, ids and sessions are not bounded: the sets an instance for TLC cuts off.
Unbounded == Nat \subseteq Seqs /\ (Workers \X Nat) \subseteq EventIds /\ Nat \subseteq Sessions

\* Every table, file, list, request and answer keeps its type in every behaviour,
\* restarts, lost answers and rollbacks included.
THEOREM SystemTypeCorrect == Unbounded => (SyncSpec => []SyncTypeOK)
<1> SUFFICES ASSUME Unbounded PROVE SyncSpec => []SyncTypeOK
  OBVIOUS
<1>1. WorkInv => SyncTypeOK
  <2> SUFFICES ASSUME WorkInv PROVE SyncTypeOK
    OBVIOUS
  <2> USE DEF WorkInv, PlaneTyped, MachinesTyped
  <2>1. Messages \subseteq Events
    BY DEF Messages, Events, Unbounded
  <2>2. Tables \subseteq Databases
    <3>1. Recordings \subseteq EventRows
      BY DEF Recordings, EventRows, Unbounded
    <3> QED BY <3>1 DEF Tables, Databases
  <2>3. TypeOK
    <3>1. Served \subseteq Requests
      BY DEF Served, Requests, Unbounded
    <3> QED BY <2>2, <3>1 DEF TypeOK
  <2>4. AgentTypeOK
    <3> SUFFICES ASSUME NEW w \in Workers
                 PROVE  AgentTypeOK!(w)
      BY DEF AgentTypeOK
    <3>1. store[w] \in Stores /\ agent[w] \in Agents /\ procs[w] \in Seq(Processes)
          /\ files[w] \in [AttemptIds -> FileRows] /\ Sized(files[w])
      OBVIOUS
    <3>2. DOMAIN store[w].cmds \subseteq AttemptIds
          /\ \A a \in DOMAIN store[w].cmds : store[w].cmds[a] \in Commands
      BY <3>1 DEF Stores, CommandTables
    <3>3. store[w].next \in Nat
          /\ \A i \in DOMAIN store[w].outbox : store[w].outbox[i] \in Events
      BY <2>1, <3>1 DEF Stores
    <3>4. \A p \in DOMAIN procs[w] : procs[w][p] \in Processes
      BY <3>1
    <3>5. \A a \in AttemptIds : files[w][a] \in FileRows /\ Len(files[w][a].lines) <= MaxLines
      BY <3>1 DEF Sized
    <3> QED BY <3>1, <3>2, <3>3, <3>4, <3>5 DEF Agents, FileRows, Processes
  <2>5. \A r \in wire : /\ r.worker \in Workers /\ r.session \in Sessions
                       /\ \A i \in DOMAIN r.events : r.events[i] \in Events
    <3> SUFFICES ASSUME NEW r \in wire
                 PROVE  /\ r.worker \in Workers /\ r.session \in Sessions
                        /\ \A i \in DOMAIN r.events : r.events[i] \in Events
      OBVIOUS
    <3>1. r.worker \in Workers /\ r.session \in Nat /\ r.events \in Seq(Messages)
      BY DEF Posted
    <3> QED BY <2>1, <3>1 DEF Unbounded
  <2> QED BY <2>3, <2>4, <2>5 DEF SyncTypeOK
<1> QED BY <1>1, Working, PTL

---------------------------------------------------------------------------
(* One execution *)

\* No agent was ever restarted.
Unbroken ==
    /\ spent \in [DOMAIN Budget -> Nat]
    /\ spent["crash"] = 0 /\ spent["reboot"] = 0

ExecInv == WorkInv /\ ChainInv /\ Unbroken /\ AllFit

LEMMA SpentCases ==
    ASSUME [SyncNext]_sysVars
    PROVE  UNCHANGED spent \/ \E f \in {"timeout", "server", "crash", "reboot"} : Fault(f)
<1>1. CASE Operate
  BY <1>1 DEF Operate, netVars
<1>2. CASE \E w \in Workers : AgentAlone(w) \/ JobAlone(w) \/ Post(w) \/ Start(w) \/ Faults(w)
  BY <1>2 DEF AgentAlone, JobAlone, Post, PostSync, Start, Faults, TimeOut, netVars
<1>3. CASE Server
  BY <1>3 DEF Server, Serve, RecordNext, RefuseNext, StartOffers, Offer, Reply, netVars
<1>4. CASE ServerFault
  BY <1>4 DEF ServerFault
<1>5. CASE UNCHANGED sysVars
  BY <1>5 DEF sysVars
<1> QED BY <1>1, <1>2, <1>3, <1>4, <1>5 DEF SyncNext

LEMMA StaysUnbroken ==
    ASSUME NoRestarts, Unbroken, [SyncNext]_sysVars
    PROVE  Unbroken' /\ ~Fault("crash") /\ ~Fault("reboot")
<1>1. ~Fault("crash") /\ ~Fault("reboot")
  BY DEF NoRestarts, Unbroken, Fault
<1>2. CASE UNCHANGED spent
  BY <1>1, <1>2 DEF Unbroken
<1>3. ASSUME NEW f \in {"timeout", "server"}, Fault(f) PROVE Unbroken'
  <2>1. /\ spent \in [DOMAIN Budget -> Nat] /\ spent' = [spent EXCEPT ![f] = @ + 1]
        /\ f # "crash" /\ f # "reboot" /\ spent["crash"] = 0 /\ spent["reboot"] = 0
    BY <1>3 DEF Unbroken, Fault
  <2>2. spent' \in [DOMAIN Budget -> Nat]
    <3>1. ASSUME NEW g \in DOMAIN Budget PROVE spent'[g] \in Nat
      BY <2>1
    <3>2. spent' = [g \in DOMAIN Budget |-> spent'[g]]
      BY <2>1
    <3> QED BY <3>1, <3>2
  <2>3. spent'["crash"] = 0 /\ spent'["reboot"] = 0
    BY <2>1 DEF NoRestarts
  <2> QED BY <2>2, <2>3 DEF Unbroken
<1> QED BY <1>1, <1>2, <1>3, SpentCases

LEMMA ExecNext ==
    ASSUME NoRestarts, ExecInv, [SyncNext]_sysVars
    PROVE  ExecInv' /\ Unbroken'
<1>1. WorkInv /\ ChainInv /\ Unbroken /\ AllFit
  BY DEF ExecInv
<1>2. Proceeds /\ WorkInv' /\ ChainInv' /\ Unbroken' /\ ~Fault("crash") /\ ~Fault("reboot")
  BY <1>1, WorkNext, ChainNext, StaysUnbroken
<1>3. AllFit'
  <2>1. CASE UNCHANGED agentVars
    BY <1>1, <2>1 DEF AllFit, agentVars
  <2>2. ASSUME NEW w \in Workers, Changes(w), Works(w) \/ Hears(w) PROVE AllFit'
    <3>1. Fit(store'[w], agent'[w], procs'[w], files'[w])
      BY <1>1, <2>2 DEF Works, Goes, Hears, AllFit
    <3>2. \A v \in Workers \ {w} : /\ store'[v] = store[v] /\ agent'[v] = agent[v]
                                   /\ procs'[v] = procs[v] /\ files'[v] = files[v]
      BY <1>1, <2>2 DEF Changes, WorkInv, MachinesTyped
    <3> QED BY <1>1, <3>1, <3>2 DEF AllFit
  <2> QED BY <1>2, <2>1, <2>2 DEF Proceeds, Stops
<1> QED BY <1>1, <1>2, <1>3 DEF ExecInv

LEMMA ExecInit == NoRestarts /\ SyncInit => ExecInv
<1> SUFFICES ASSUME NoRestarts, SyncInit PROVE ExecInv
  OBVIOUS
<1>1. Unbroken
  BY DEF SyncInit, NoRestarts, Unbroken
<1>2. ASSUME NEW w \in Workers PROVE Fit(store[w], agent[w], procs[w], files[w])
  <2>1. /\ DOMAIN store[w].cmds = {} /\ DOMAIN procs[w] = {} /\ agent[w].pc = "reap"
        /\ \A a \in AttemptIds : files[w][a].status = "none"
    BY DEF SyncInit, AgentInit, Stopped
  <2> QED BY <2>1 DEF Fit, PidsFit, OutcomesFit
<1> QED BY <1>1, <1>2, WorkInit, ChainInit DEF ExecInv, AllFit

\* Syncs that are lost, repeated or fail, and servers that stop, never make an agent
\* start an attempt a second time, as long as no agent is restarted (launchPending
\* starts a process and records it in two steps, and lists what is pending in
\* between only when the second has happened).
THEOREM OneExecutionEach == NoRestarts => (SyncSpec => []OneExecution)
<1>1. ASSUME ExecInv PROVE OneExecution
  <2> SUFFICES ASSUME NEW w \in Workers
               PROVE  \A p, q \in DOMAIN procs[w] :
                         procs[w][p].attempt = procs[w][q].attempt => p = q
    BY DEF OneExecution
  <2>1. PICK st, ag, ps : st = store[w] /\ ag = agent[w] /\ ps = procs[w]
    OBVIOUS
  <2>2. ag \in Agents /\ ps \in Seq(Processes) /\ ListFits(st, ag) /\ PidsFit(st, ag, ps)
    BY <1>1, <2>1 DEF ExecInv, WorkInv, MachinesTyped, AllFit, Fit
  <2>3. ag.pc = "spawned" => /\ Head(ag.todo) \in DOMAIN st.cmds
                             /\ st.cmds[Head(ag.todo)].state = "pending"
    BY <2>2, SpawnedPending
  <2>4. \A p, q \in DOMAIN ps : ps[p].attempt = ps[q].attempt => p = q
    BY <2>2, <2>3, OneProcess
  <2> QED BY <2>1, <2>4
<1> SUFFICES ASSUME NoRestarts PROVE SyncSpec => []OneExecution
  OBVIOUS
<1>2. SyncInit => ExecInv
  BY ExecInit
<1>3. ExecInv /\ [SyncNext]_sysVars => ExecInv'
  BY ExecNext
<1> QED BY <1>1, <1>2, <1>3, PTL DEF SyncSpec

---------------------------------------------------------------------------
(* What the tables say about attempts *)

RowOf(d, a)   == d.job[a[1]].attempts[a[2]]
InTable(d, a) == a[2] \in DOMAIN d.job[a[1]].attempts

\* A job that was not submitted has no attempts and no samples.
Blank(d) ==
    \A j \in Jobs : d.job[j].state = "absent" =>
        d.job[j].attempts = << >> /\ d.job[j].samples = << >>

\* What d shows as ended is over on its worker.
RowsTrue(d, st, fs) ==
    \A a \in AttemptIds : InTable(d, a) /\ RowOf(d, a).state \in Ended =>
        LET w == RowOf(d, a).worker IN Over(st[w], fs[w], a, RowOf(d, a).state = "succeeded")

\* Attempts stay with their workers, and at most attempt m ends, by succeeding only
\* if ok.
RowAdvances(old, new, m, ok) ==
    /\ new.state = "absent" =>
          old.state = "absent" /\ new.attempts = << >> /\ new.samples = << >>
    /\ \A n \in DOMAIN old.attempts :
          n \in DOMAIN new.attempts /\ new.attempts[n].worker = old.attempts[n].worker
    /\ \A n \in DOMAIN new.attempts : new.attempts[n].state \in Ended =>
          /\ n \in DOMAIN old.attempts
          /\ \/ new.attempts[n].state = old.attempts[n].state
             \/ n = m /\ (new.attempts[n].state = "succeeded" => ok)

Advances(d, d2, a, ok) ==
    /\ \A j \in Jobs : d2.job[j].state = "absent" => d.job[j].state = "absent"
    /\ Blank(d2)
    /\ \A b \in AttemptIds : InTable(d, b) =>
          InTable(d2, b) /\ RowOf(d2, b).worker = RowOf(d, b).worker
    /\ \A b \in AttemptIds : InTable(d2, b) /\ RowOf(d2, b).state \in Ended =>
          /\ InTable(d, b)
          /\ \/ RowOf(d2, b).state = RowOf(d, b).state
             \/ b = a /\ (RowOf(d2, b).state = "succeeded" => ok)

LEMMA IdIs ==
    ASSUME NEW a \in AttemptIds
    PROVE  a[1] \in Jobs /\ a = <<a[1], a[2]>> /\ a[2] \in Nat \ {0}
<1>1. PICK j \in Jobs : a \in {j} \X (1 .. MaxAttempts(j))
  BY DEF AttemptIds
<1> QED BY <1>1

\* One row is written.
LEMMA TableAdvances ==
    ASSUME NEW d, d.job \in [Jobs -> JobRows], Blank(d), NEW j \in Jobs, NEW row,
           NEW m, NEW ok, RowAdvances(d.job[j], row, m, ok),
           NEW d2, d2.job = [d.job EXCEPT ![j] = row]
    PROVE  Advances(d, d2, <<j, m>>, ok)
<1>1. /\ d2.job[j] = row
      /\ \A i \in Jobs \ {j} : d2.job[i] = d.job[i]
  OBVIOUS
<1>2. \A i \in Jobs : d2.job[i].state = "absent" => d.job[i].state = "absent"
  BY <1>1 DEF RowAdvances
<1>3. Blank(d2)
  BY <1>1 DEF RowAdvances, Blank
<1>5. ASSUME NEW b \in AttemptIds, InTable(d, b)
      PROVE  InTable(d2, b) /\ RowOf(d2, b).worker = RowOf(d, b).worker
  BY <1>1, <1>5, IdIs DEF RowAdvances, InTable, RowOf
<1>6. ASSUME NEW b \in AttemptIds, InTable(d2, b), RowOf(d2, b).state \in Ended
      PROVE  /\ InTable(d, b)
             /\ \/ RowOf(d2, b).state = RowOf(d, b).state
                \/ b = <<j, m>> /\ (RowOf(d2, b).state = "succeeded" => ok)
  <2>1. CASE b[1] # j
    BY <1>1, <1>6, <2>1, IdIs DEF InTable, RowOf
  <2>2. CASE b[1] = j
    BY <1>1, <1>6, <2>2, IdIs DEF InTable, RowOf, RowAdvances
  <2> QED BY <2>1, <2>2
<1> QED BY <1>2, <1>3, <1>5, <1>6 DEF Advances

\* No attempt changes.
LEMMA TableStays ==
    ASSUME NEW d, Blank(d), NEW d2, d2.job = d.job, NEW a, NEW ok
    PROVE  Advances(d, d2, a, ok)
BY DEF Advances, Blank, InTable, RowOf

\* What is true stays true when what ends is over.
LEMMA AdvancesTrue ==
    ASSUME NEW d, NEW d2, NEW st, NEW fs, NEW a, NEW ok, RowsTrue(d, st, fs),
           Advances(d, d2, a, ok),
           a \in AttemptIds /\ InTable(d, a) =>
              Over(st[RowOf(d, a).worker], fs[RowOf(d, a).worker], a, ok)
    PROVE  RowsTrue(d2, st, fs)
<1> SUFFICES ASSUME NEW b \in AttemptIds, InTable(d2, b), RowOf(d2, b).state \in Ended
             PROVE  Over(st[RowOf(d2, b).worker], fs[RowOf(d2, b).worker], b,
                         RowOf(d2, b).state = "succeeded")
  BY DEF RowsTrue
<1>1. /\ InTable(d, b) /\ RowOf(d2, b).worker = RowOf(d, b).worker
      /\ \/ RowOf(d2, b).state = RowOf(d, b).state
         \/ b = a /\ (RowOf(d2, b).state = "succeeded" => ok)
  BY DEF Advances
<1>2. CASE RowOf(d2, b).state = RowOf(d, b).state
  BY <1>1, <1>2 DEF RowsTrue
<1>3. CASE b = a /\ (RowOf(d2, b).state = "succeeded" => ok)
  BY <1>1, <1>3 DEF Over
<1> QED BY <1>1, <1>2, <1>3

---------------------------------------------------------------------------
(* The rows that operations write *)

LEMMA CanceledAdvances ==
    ASSUME NEW row \in JobRows, NEW m, NEW ok
    PROVE  RowAdvances(row, Canceled(row), m, ok)
<1>1. Canceled(row).attempts = row.attempts /\ Canceled(row).state # "absent"
  BY CanceledFields
<1> QED BY <1>1 DEF RowAdvances

LEMMA SubmittedAdvances ==
    ASSUME NEW row, row.attempts = << >>, NEW rank, NEW m, NEW ok
    PROVE  RowAdvances(row, Submitted(rank), m, ok)
BY DEF RowAdvances, Submitted

LEMMA OfferedAdvances ==
    ASSUME NEW row \in JobRows, row.state # "absent", NEW w \in Workers, NEW m, NEW ok
    PROVE  RowAdvances(row, Offered(row, w), m, ok)
<1> DEFINE new == Offered(row, w)
           k == Len(row.attempts) + 1
           x == [worker |-> w, state |-> "offered", files |-> {}, fired |-> {}]
<1>1. /\ new.state = row.state
      /\ DOMAIN new.attempts = DOMAIN row.attempts \cup {k}
      /\ \A n \in DOMAIN row.attempts : new.attempts[n] = row.attempts[n]
      /\ new.attempts[k] = x
  BY OfferedFields
<1>2. x.state \notin Ended
  BY DEF Ended
<1> HIDE DEF new, k, x
<1>3. RowAdvances(row, new, m, ok)
  BY <1>1, <1>2 DEF RowAdvances
<1> QED BY <1>3 DEF new

\* An attempt is replaced by one that has not ended, or has ended before, or now.
LEMMA ReplacedAdvances ==
    ASSUME NEW row, NEW new, NEW n \in DOMAIN row.attempts, NEW x, NEW m, NEW ok,
           Replaces(row, new, n, x), row.state # "absent", new.state # "absent",
           x.worker = row.attempts[n].worker,
           \/ x.state \notin Ended \/ x.state = row.attempts[n].state
           \/ m = n /\ (x.state = "succeeded" => ok)
    PROVE  RowAdvances(row, new, m, ok)
BY DEF RowAdvances, Replaces

LEMMA EventAdvances ==
    ASSUME NEW row \in JobRows, row.state # "absent", NEW n \in DOMAIN row.attempts,
           NEW j \in Jobs, NEW body, NEW fires \in SUBSET Nat, NEW new,
           EventWrites(row, n, j, body, fires, new),
           NEW m, NEW ok, body.kind = "attempt_finished" => m = n /\ ok = body.ok
    PROVE  RowAdvances(row, new, m, ok)
<1>0. row.attempts[n] \in Attempts
  BY DEF JobRows
<1>1. CASE body.kind = "attempt_accepted" /\ new = Accepted(row, n)
  <2> DEFINE x == [row.attempts[n] EXCEPT !.state = "accepted"]
  <2>1. Replaces(row, new, n, x) /\ new.state = row.state
    BY <1>1, AcceptedFields
  <2>2. x.state = "accepted" /\ x.worker = row.attempts[n].worker
    BY <1>0 DEF Attempts
  <2>3. x.state \notin Ended
    BY <2>2 DEF Ended
  <2> HIDE DEF x
  <2> QED BY <2>1, <2>2, <2>3, ReplacedAdvances
<1>2. CASE body.kind = "attempt_started" /\ new = Started(row, n)
  <2> DEFINE x == [row.attempts[n] EXCEPT !.state = "running"]
  <2>1. Replaces(row, new, n, x) /\ new.state # "absent"
    BY <1>2, StartedFields
  <2>2. x.state = "running" /\ x.worker = row.attempts[n].worker
    BY <1>0 DEF Attempts
  <2>3. x.state \notin Ended
    BY <2>2 DEF Ended
  <2> HIDE DEF x
  <2> QED BY <2>1, <2>2, <2>3, ReplacedAdvances
<1>3. CASE /\ body.kind = "attempt_finished" /\ new = Finished(row, n, j, body, fires)
           /\ body.ok \in BOOLEAN /\ body.files \in SUBSET Files
  <2> DEFINE x == FinishedAttempt(row.attempts[n], AttemptVerdict(row, body.ok),
                                  body.files, fires)
  <2>1. /\ Replaces(row, new, n, x) /\ x.state = AttemptVerdict(row, body.ok)
        /\ x.worker = row.attempts[n].worker
        /\ new.state = JobVerdict(row, n, MaxAttempts(j), body.ok)
    BY <1>3, FinishedFields
  <2>2. new.state # "absent"
    BY <2>1 DEF JobVerdict
  <2>3. m = n /\ (x.state = "succeeded" => ok)
    BY <1>3, <2>1 DEF AttemptVerdict
  <2> HIDE DEF x
  <2> QED BY <2>1, <2>2, <2>3, ReplacedAdvances
<1>4. CASE body.kind = "artifacts" /\ body.files \in SUBSET Files
           /\ new = FilesRecorded(row, n, body.files)
  <2> DEFINE x == [row.attempts[n] EXCEPT !.files = @ \cup body.files]
  <2>1. Replaces(row, new, n, x) /\ new.state = row.state
    BY <1>4, FilesRecordedFields
  <2>2. x.state = row.attempts[n].state /\ x.worker = row.attempts[n].worker
    BY <1>0 DEF Attempts
  <2> HIDE DEF x
  <2> QED BY <2>1, <2>2, ReplacedAdvances
<1>5. CASE body.kind = "metric_sample" /\ body.point \in Points
           /\ new = Sampled(row, n, body.point)
  <2>1. new.state = row.state /\ new.attempts = row.attempts
    BY <1>5, SampledFields
  <2> QED BY <2>1 DEF RowAdvances
<1> QED BY <1>1, <1>2, <1>3, <1>4, <1>5 DEF EventWrites

\* recordWorkerEvent ends at most the attempt of a finished event.
LEMMA RecordedAdvances ==
    ASSUME NEW d \in Tables, Blank(d), NEW w \in Workers, NEW s \in Nat, NEW e \in Messages,
           CanRecord(d, w, s, e), NEW st, NEW fs, RowsTrue(d, st, fs),
           Truthful(st[w], fs[w], e)
    PROVE  \E a, ok : /\ Advances(d, Recorded(d, w, s, e), a, ok)
                      /\ RowsTrue(Recorded(d, w, s, e), st, fs)
<1> DEFINE new == Recorded(d, w, s, e)
<1>1. CASE ~Fresh(d, w, s, e)
  <2>1. new = d
    BY <1>1 DEF Recorded
  <2>2. Advances(d, d, 0, FALSE)
    BY TableStays
  <2> QED BY <2>1, <2>2
<1>2. CASE Fresh(d, w, s, e)
  <2>1. CanApply(d, w, e.body) /\ e.body \in EventBodies /\ d.job \in [Jobs -> JobRows]
    BY <1>2 DEF CanRecord, Fresh, Replayed, SameKey, Messages, Tables
  <2>2. PICK j, n, row, body : /\ body = e.body /\ j = body.attempt[1]
                               /\ n = body.attempt[2] /\ row = d.job[j]
    OBVIOUS
  <2>3. PICK fires, rec : fires = FiresOnFinish(d, j, row.attempts[n]) /\ rec = Applied(d, body)
    OBVIOUS
  <2>4. /\ j \in Jobs /\ row \in JobRows /\ n \in DOMAIN row.attempts
        /\ row.attempts[n].worker = w /\ body.attempt = <<j, n>>
        /\ fires \in SUBSET Nat
        /\ EventWrites(row, n, j, body, fires, rec)
    <3> DEFINE jj == e.body.attempt[1]
               nn == e.body.attempt[2]
               ff == FiresOnFinish(d, jj, d.job[jj].attempts[nn])
    <3>1. /\ jj \in Jobs /\ d.job[jj] \in JobRows /\ nn \in DOMAIN d.job[jj].attempts
          /\ d.job[jj].attempts[nn].worker = w /\ e.body.attempt = <<jj, nn>>
          /\ ff \in SUBSET Nat
          /\ EventWrites(d.job[jj], nn, jj, e.body, ff, Applied(d, e.body))
      <4>1. AppliesWell(d, w, e.body)
        BY <2>1, AppliedCases
      <4> QED BY <4>1 DEF AppliesWell
    <3>2. j = jj /\ n = nn /\ row = d.job[jj] /\ body = e.body /\ fires = ff
          /\ rec = Applied(d, e.body)
      BY <2>2, <2>3
    <3> HIDE DEF jj, nn, ff
    <3> QED BY <3>1, <3>2
  <2>5. row.state # "absent"
    <3>1. row.attempts # << >>
      BY <2>4
    <3>2. d.job[j].state = "absent" => d.job[j].attempts = << >>
      BY <2>4 DEF Blank
    <3> QED BY <2>2, <3>1, <3>2
  <2>6. new.job = [d.job EXCEPT ![j] = rec]
    BY <1>2, <2>2, <2>3 DEF Recorded, Tables
  <2> HIDE DEF new
  <2>7. PICK m, ok : IF body.kind = "attempt_finished" THEN m = n /\ ok = body.ok ELSE m = 0
    OBVIOUS
  <2>8. RowAdvances(row, rec, m, ok)
    BY <2>4, <2>5, <2>7, EventAdvances
  <2>9. Advances(d, new, <<j, m>>, ok)
    BY <2>1, <2>2, <2>4, <2>6, <2>8, TableAdvances
  <2>10. ASSUME <<j, m>> \in AttemptIds
         PROVE  Over(st[RowOf(d, <<j, m>>).worker], fs[RowOf(d, <<j, m>>).worker], <<j, m>>, ok)
    <3>1. m # 0
      BY <2>10, IdIs
    <3>2. body.kind = "attempt_finished" /\ m = n /\ ok = body.ok
      BY <2>7, <3>1
    <3>3. Over(st[w], fs[w], body.attempt, ok)
      BY <2>2, <3>2 DEF Truthful
    <3>4. RowOf(d, <<j, m>>).worker = w
      BY <2>2, <2>4, <3>2 DEF RowOf
    <3> QED BY <2>4, <3>2, <3>3, <3>4
  <2>11. RowsTrue(new, st, fs)
    BY <2>9, <2>10, AdvancesTrue
  <2> QED BY <2>9, <2>11 DEF new
<1> QED BY <1>1, <1>2

---------------------------------------------------------------------------
(* Nothing false is said *)

AllTrue(es, st, fs) == \A i \in DOMAIN es : Truthful(st, fs, es[i])

\* The later table has the attempts of the earlier one, with their workers.
Follows(d, d2) ==
    \A a \in AttemptIds : InTable(d, a) =>
        InTable(d2, a) /\ RowOf(d2, a).worker = RowOf(d, a).worker

\* A sync offers jobs that were submitted.
ScanKnown == req # Idle => \A j \in req.scan : tx.job[j].state # "absent"

TablesTrue ==
    /\ Blank(db) /\ Blank(tx) /\ Follows(db, tx) /\ ScanKnown
    /\ RowsTrue(db, store, files) /\ RowsTrue(tx, store, files)

MessagesTrue ==
    /\ \A r \in wire : AllTrue(r.events, store[r.worker], files[r.worker])
    /\ req # Idle => AllTrue(call.rest, store[req.worker], files[req.worker])

\* What w was told to run is assigned to it.
Owned(w) ==
    \A a \in DOMAIN store[w].cmds \cup {r.attempt : r \in agent[w].inbox.run} :
        InTable(db, a) /\ RowOf(db, a).worker = w

TruthInv ==
    /\ TablesTrue /\ MessagesTrue
    /\ \A w \in Workers : AllTrue(store[w].outbox, store[w], files[w]) /\ Owned(w)

\* What the control plane knows after a step is true of the machines before it.
TablesStayTrue ==
    /\ Blank(db') /\ Blank(tx') /\ Follows(db', tx') /\ Follows(db, db') /\ ScanKnown'
    /\ RowsTrue(db', store, files) /\ RowsTrue(tx', store, files)

LEMMA FollowsItself == \A d : Follows(d, d)
BY DEF Follows

LEMMA AdvancesFollows ==
    ASSUME NEW d, NEW d2, NEW a, NEW ok, Advances(d, d2, a, ok)
    PROVE  Blank(d2) /\ Follows(d, d2)
BY DEF Advances, Follows

LEMMA FollowsOn ==
    ASSUME NEW d, NEW d2, NEW d3, Follows(d, d2), Follows(d2, d3)
    PROVE  Follows(d, d3)
BY DEF Follows

\* A row is written and no attempt ends.
LEMMA RowWrittenTrue ==
    ASSUME NEW d, d.job \in [Jobs -> JobRows], Blank(d), NEW j \in Jobs, NEW row,
           RowAdvances(d.job[j], row, 0, FALSE), NEW d2, d2.job = [d.job EXCEPT ![j] = row],
           NEW st, NEW fs, RowsTrue(d, st, fs)
    PROVE  /\ Advances(d, d2, <<j, 0>>, FALSE) /\ RowsTrue(d2, st, fs)
<1>1. PICK m, ok : m = 0 /\ ok = FALSE
  OBVIOUS
<1>2. Advances(d, d2, <<j, m>>, ok)
  BY <1>1, TableAdvances
<1>3. PICK a : a = <<j, m>>
  OBVIOUS
<1>4. a \notin AttemptIds
  BY <1>1, <1>3, IdIs
<1>5. Advances(d, d2, a, ok)
  BY <1>2, <1>3
<1>6. RowsTrue(d2, st, fs)
  BY <1>4, <1>5, AdvancesTrue
<1> QED BY <1>1, <1>2, <1>6

LEMMA SameTablesTrue ==
    ASSUME NEW d, Blank(d), NEW d2, d2.job = d.job, NEW st, NEW fs, RowsTrue(d, st, fs)
    PROVE  Blank(d2) /\ Follows(d, d2) /\ RowsTrue(d2, st, fs)
BY DEF Blank, Follows, RowsTrue, InTable, RowOf

LEMMA OperateTrue ==
    ASSUME WorkInv, TablesTrue, Operate
    PROVE  TablesStayTrue
<1>1. PICK d, d2 : d = db /\ d2 = db'
  OBVIOUS
<1>2. PICK st, fs : st = store /\ fs = files
  OBVIOUS
<1>3. /\ d \in Tables /\ d.job \in [Jobs -> JobRows] /\ Blank(d) /\ RowsTrue(d, st, fs)
  BY <1>1, <1>2 DEF WorkInv, PlaneTyped, TablesTrue, Tables
<1>4. tx' = db' /\ req = Idle /\ req' = Idle
  BY DEF Operate, CreateWorker, CreateWebhookTarget, CreateJob, CancelJob, Do
<1>5. Blank(d2) /\ Follows(d, d2) /\ RowsTrue(d2, st, fs)
  <2>1. CASE \E w \in Workers : CreateWorker(w)
    <3>1. d2.job = d.job
      BY <1>1, <1>3, <2>1 DEF CreateWorker, Do, Tables
    <3> QED BY <1>3, <3>1, SameTablesTrue
  <2>2. CASE \E t \in Targets : CreateWebhookTarget(t)
    <3>1. d2.job = d.job
      BY <1>1, <1>3, <2>2 DEF CreateWebhookTarget, Do, Tables
    <3> QED BY <1>3, <3>1, SameTablesTrue
  <2>3. ASSUME NEW k \in Keys, NEW j \in Jobs, NEW rank \in Ranks, CreateJob(k, j, rank)
        PROVE  Blank(d2) /\ Follows(d, d2) /\ RowsTrue(d2, st, fs)
    <3>1. PICK row : row = Submitted(rank)
      OBVIOUS
    <3>2. d.job[j].state = "absent" /\ d2 = [d EXCEPT !.job[j] = row, !.keys = @ \cup {<<k, j>>}]
      BY <1>1, <2>3, <3>1 DEF CreateJob, Do
    <3>3. d2.job = [d.job EXCEPT ![j] = row]
      BY <1>3, <3>2 DEF Tables
    <3>4. RowAdvances(d.job[j], row, 0, FALSE)
      BY <1>3, <3>1, <3>2, SubmittedAdvances DEF Blank
    <3>5. Advances(d, d2, <<j, 0>>, FALSE) /\ RowsTrue(d2, st, fs)
      BY <1>3, <3>3, <3>4, RowWrittenTrue
    <3> QED BY <3>5, AdvancesFollows
  <2>4. ASSUME NEW j \in Jobs, CancelJob(j)
        PROVE  Blank(d2) /\ Follows(d, d2) /\ RowsTrue(d2, st, fs)
    <3>1. PICK row : row = Canceled(d.job[j])
      OBVIOUS
    <3>2. d2 = [d EXCEPT !.job[j] = row]
      BY <1>1, <2>4, <3>1 DEF CancelJob, Do
    <3>3. d2.job = [d.job EXCEPT ![j] = row] /\ d.job[j] \in JobRows
      BY <1>3, <3>2 DEF Tables
    <3>4. RowAdvances(d.job[j], row, 0, FALSE)
      BY <3>1, <3>3, CanceledAdvances
    <3>5. Advances(d, d2, <<j, 0>>, FALSE) /\ RowsTrue(d2, st, fs)
      BY <1>3, <3>3, <3>4, RowWrittenTrue
    <3> QED BY <3>5, AdvancesFollows
  <2> QED BY <2>1, <2>2, <2>3, <2>4 DEF Operate
<1> QED BY <1>1, <1>2, <1>4, <1>5, FollowsItself DEF TablesStayTrue, ScanKnown

\* The transaction goes on, nothing is committed.
LEMMA OpenTrue ==
    ASSUME TablesTrue, UNCHANGED db, Blank(tx'), Follows(db, tx'), ScanKnown',
           RowsTrue(tx', store, files)
    PROVE  TablesStayTrue
BY FollowsItself DEF TablesTrue, TablesStayTrue

LEMMA ServeTrue ==
    ASSUME WorkInv, TablesTrue, NEW r \in wire, Serve(r)
    PROVE  TablesStayTrue
<1>1. /\ UNCHANGED db /\ tx' = [db EXCEPT !.worker[r.worker] = "online"]
      /\ req'.scan = {}
  BY DEF Serve, BeginSync
<1>2. tx'.job = db.job
  BY <1>1 DEF WorkInv, PlaneTyped, Tables
<1>3. Blank(tx') /\ Follows(db, tx') /\ RowsTrue(tx', store, files)
  <2>1. PICK d, d2, st, fs : d = db /\ d2 = tx' /\ st = store /\ fs = files
    OBVIOUS
  <2>2. Blank(d) /\ d2.job = d.job /\ RowsTrue(d, st, fs)
    BY <1>2, <2>1 DEF TablesTrue
  <2>3. Blank(d2) /\ Follows(d, d2) /\ RowsTrue(d2, st, fs)
    BY <2>2, SameTablesTrue
  <2> QED BY <2>1, <2>3
<1> QED BY <1>1, <1>3, OpenTrue DEF ScanKnown

LEMMA RecordTrue ==
    ASSUME WorkInv, TablesTrue, MessagesTrue, RecordNext
    PROVE  TablesStayTrue
<1>1. /\ UNCHANGED <<db, req>> /\ call.rest # << >> /\ req.phase = "events"
      /\ CanRecord(tx, req.worker, req.session, Head(call.rest))
      /\ tx' = Recorded(tx, req.worker, req.session, Head(call.rest))
  BY DEF RecordNext, RecordEvent
<1>2. req \in Served /\ req # Idle /\ call.rest \in Seq(Messages)
  BY <1>1 DEF WorkInv, PlaneTyped, Idle
<1>3. PICK w \in Workers, s \in Nat : w = req.worker /\ s = req.session
  BY <1>2 DEF Served
<1>4. PICK d, d2, st, fs, e : /\ d = tx /\ d2 = tx' /\ st = store /\ fs = files
                              /\ e = Head(call.rest)
  OBVIOUS
<1>5. e \in Messages /\ Truthful(st[w], fs[w], e)
  <2>1. e = call.rest[1] /\ 1 \in DOMAIN call.rest /\ e \in Messages
    BY <1>1, <1>2, <1>4
  <2> QED BY <1>2, <1>3, <1>4, <2>1 DEF MessagesTrue, AllTrue
<1>6. d \in Tables /\ Blank(d) /\ RowsTrue(d, st, fs) /\ CanRecord(d, w, s, e)
      /\ d2 = Recorded(d, w, s, e)
  BY <1>1, <1>3, <1>4 DEF WorkInv, PlaneTyped, TablesTrue
<1>7. PICK a, ok : Advances(d, Recorded(d, w, s, e), a, ok)
                   /\ RowsTrue(Recorded(d, w, s, e), st, fs)
  BY <1>5, <1>6, RecordedAdvances
<1>8. Advances(d, d2, a, ok) /\ RowsTrue(d2, st, fs)
  BY <1>6, <1>7
<1>9. Blank(d2) /\ Follows(d, d2)
  BY <1>8, AdvancesFollows
<1>10. Follows(db, tx')
  BY <1>4, <1>9, FollowsOn DEF TablesTrue
<1>11. ScanKnown'
  <2>1. \A j \in Jobs : d2.job[j].state = "absent" => d.job[j].state = "absent"
    BY <1>8 DEF Advances
  <2>2. req.scan \subseteq Jobs
    BY <1>2 DEF Served
  <2> QED BY <1>1, <1>2, <1>4, <2>1, <2>2 DEF TablesTrue, ScanKnown
<1> QED BY <1>1, <1>4, <1>8, <1>9, <1>10, <1>11, OpenTrue

LEMMA OffersTrue ==
    ASSUME WorkInv, TablesTrue, StartOffers \/ \E j \in Jobs : Offer(j)
    PROVE  TablesStayTrue
<1>1. req \in Served /\ req # Idle /\ UNCHANGED db
  BY DEF WorkInv, PlaneTyped, StartOffers, BeginOffers, Offer, OfferNext, Idle
<1>2. CASE StartOffers
  <2>1. UNCHANGED tx /\ req'.scan \subseteq Candidates(tx)
    BY <1>1, <1>2 DEF StartOffers, BeginOffers, Served
  <2>2. \A j \in Candidates(tx) : tx.job[j].state # "absent"
    BY DEF Candidates, Schedulable
  <2>3. ScanKnown'
    BY <2>1, <2>2 DEF ScanKnown
  <2> QED BY <1>1, <2>1, <2>3, OpenTrue DEF TablesTrue
<1>3. ASSUME NEW j \in Jobs, Offer(j) PROVE TablesStayTrue
  <2>1. /\ j \in req.scan /\ req' = [req EXCEPT !.scan = @ \ {j}]
        /\ \/ UNCHANGED tx
           \/ tx' = [tx EXCEPT !.job[j] = Offered(@, req.worker)]
    BY <1>3 DEF Offer, OfferNext
  <2>2. req'.scan = req.scan \ {j} /\ req.scan \subseteq Jobs
    BY <1>1, <2>1 DEF Served
  <2>3. CASE UNCHANGED tx
    <3>1. ScanKnown'
      BY <1>1, <2>2, <2>3 DEF ScanKnown, TablesTrue
    <3> QED BY <1>1, <2>3, <3>1, OpenTrue DEF TablesTrue
  <2>4. CASE tx' = [tx EXCEPT !.job[j] = Offered(@, req.worker)]
    <3>1. PICK w \in Workers : w = req.worker
      BY <1>1 DEF Served
    <3>2. PICK d, d2, st, fs : d = tx /\ d2 = tx' /\ st = store /\ fs = files
      OBVIOUS
    <3>3. PICK row : row = Offered(d.job[j], w)
      OBVIOUS
    <3>4. /\ d \in Tables /\ d.job \in [Jobs -> JobRows] /\ Blank(d) /\ RowsTrue(d, st, fs)
          /\ d.job[j] \in JobRows /\ d.job[j].state # "absent"
      BY <1>1, <2>1, <3>2 DEF WorkInv, PlaneTyped, TablesTrue, Tables, ScanKnown
    <3>5. d2.job = [d.job EXCEPT ![j] = row]
      BY <2>4, <3>1, <3>2, <3>3, <3>4 DEF Tables
    <3>6. RowAdvances(d.job[j], row, 0, FALSE)
      BY <3>3, <3>4, OfferedAdvances
    <3>7. Advances(d, d2, <<j, 0>>, FALSE) /\ RowsTrue(d2, st, fs)
      BY <3>4, <3>5, <3>6, RowWrittenTrue
    <3>8. Blank(d2) /\ Follows(d, d2)
      BY <3>7, AdvancesFollows
    <3>9. Follows(db, tx')
      BY <3>2, <3>8, FollowsOn DEF TablesTrue
    <3>10. ScanKnown'
      <4>1. \A i \in Jobs : d2.job[i].state = "absent" => d.job[i].state = "absent"
        BY <3>7 DEF Advances
      <4> QED BY <1>1, <2>2, <3>2, <4>1 DEF ScanKnown, TablesTrue
    <3> QED BY <1>1, <3>2, <3>7, <3>8, <3>9, <3>10, OpenTrue
  <2> QED BY <2>1, <2>3, <2>4
<1> QED BY <1>2, <1>3

LEMMA TablesGo ==
    ASSUME WorkInv, TruthInv, [SyncNext]_sysVars
    PROVE  TablesStayTrue
<1>1. TablesTrue /\ MessagesTrue
  BY DEF TruthInv
<1>2. CASE UNCHANGED <<db, tx, req>>
  BY <1>1, <1>2, FollowsItself DEF TablesTrue, TablesStayTrue, ScanKnown
<1>3. CASE Fail
  BY <1>1, <1>3, FollowsItself DEF Fail, Rollback, TablesTrue, TablesStayTrue, ScanKnown
<1>4. CASE Reply
  BY <1>1, <1>4, FollowsItself DEF Reply, Commit, TablesTrue, TablesStayTrue, ScanKnown
<1>5. CASE \E w \in Workers : AgentAlone(w) \/ JobAlone(w) \/ Post(w) \/ Start(w) \/ Faults(w)
  BY <1>2, <1>5 DEF AgentAlone, JobAlone, Post, Start, Faults, Aside
<1>6. CASE UNCHANGED sysVars
  BY <1>2, <1>6 DEF sysVars
<1> QED BY <1>1, <1>3, <1>4, <1>5, <1>6, OperateTrue, ServeTrue, RecordTrue, OffersTrue
       DEF SyncNext, Server, RefuseNext, ServerFault

\* What is under way after a step is true of the machines before it.
MessagesStayTrue ==
    /\ \A r \in wire' : AllTrue(r.events, store[r.worker], files[r.worker])
    /\ req' # Idle => AllTrue(call'.rest, store[req'.worker], files[req'.worker])

LEMMA MessagesGo ==
    ASSUME WorkInv, TruthInv, [SyncNext]_sysVars
    PROVE  MessagesStayTrue
<1>1. /\ MessagesTrue /\ wire \subseteq Posted /\ PlaneTyped
      /\ call \in [live : BOOLEAN, rest : Seq(Messages)]
  BY DEF TruthInv, WorkInv, PlaneTyped
<1>2. CASE UNCHANGED <<wire, call, req>>
  BY <1>1, <1>2 DEF MessagesTrue, MessagesStayTrue
<1>3. CASE Operate \/ UNCHANGED sysVars
  BY <1>2, <1>3 DEF Operate, CreateWorker, CreateWebhookTarget, CreateJob, CancelJob, Do,
                    netVars, sysVars
<1>4. CASE \E w \in Workers : AgentAlone(w) \/ JobAlone(w) \/ Start(w)
  BY <1>2, <1>4 DEF AgentAlone, JobAlone, Start, Aside, netVars
<1>5. ASSUME NEW w \in Workers, Post(w) PROVE MessagesStayTrue
  <2>1. PICK es, r : /\ es = Batch(w)
                     /\ r = [worker |-> w, session |-> agent[w].session, events |-> es,
                             live |-> TRUE]
    OBVIOUS
  <2>2. req = Idle /\ UNCHANGED <<req, call>> /\ wire' = wire \cup {r}
    BY <1>5, <2>1 DEF Post, Aside, PostSync
  <2>3. r.worker = w /\ r.events = es
    BY <2>1
  <2>4. AllTrue(es, store[w], files[w])
    <3>1. PICK st, out, l : /\ st = store[w] /\ out = st.outbox
                            /\ l = IF Len(out) < MaxBatch THEN Len(out) ELSE MaxBatch
      OBVIOUS
    <3>2. out \in Seq(Messages) /\ es = SubSeq(out, 1, l)
      BY <2>1, <3>1 DEF Batch, WorkInv, MachinesTyped, Stores
    <3>3. l \in Nat /\ l <= Len(out)
      BY <3>1, <3>2, AgentAssumption
    <3>4. ASSUME NEW i \in DOMAIN es PROVE i \in DOMAIN out /\ es[i] = out[i]
      <4>1. \A k \in 1 .. l : out[k] \in Messages
        BY <3>2, <3>3
      <4>2. /\ es \in Seq(Messages)
            /\ Len(es) = IF 1 <= l THEN l - 1 + 1 ELSE 0
            /\ \A k \in 1 .. l - 1 + 1 : es[k] = out[1 + k - 1]
        BY <3>2, <3>3, <4>1, SubSeqProperties
      <4>3. DOMAIN es = 1 .. l
        BY <3>3, <4>2
      <4>4. i \in 1 .. l - 1 + 1 /\ 1 + i - 1 = i /\ i \in 1 .. Len(out)
        BY <3>2, <3>3, <4>3
      <4> QED BY <3>2, <4>2, <4>4
    <3>5. AllTrue(out, store[w], files[w])
      BY <3>1 DEF TruthInv
    <3> QED BY <3>4, <3>5 DEF AllTrue
  <2> QED BY <1>1, <2>2, <2>3, <2>4 DEF MessagesTrue, MessagesStayTrue
<1>6. ASSUME NEW w \in Workers, Faults(w) PROVE MessagesStayTrue
  <2>1. Abandon(w) /\ UNCHANGED <<req, call>>
    BY <1>6 DEF Faults, Aside, TimeOut
  <2>2. \A r \in wire' : r \in wire \/ \E q \in wire : r = [q EXCEPT !.live = FALSE]
    BY <2>1 DEF Abandon
  <2>3. \A q \in wire : /\ [q EXCEPT !.live = FALSE].worker = q.worker
                        /\ [q EXCEPT !.live = FALSE].events = q.events
    BY <1>1 DEF Posted
  <2>4. ASSUME NEW r \in wire' PROVE AllTrue(r.events, store[r.worker], files[r.worker])
    <3>1. PICK q \in wire : r.worker = q.worker /\ r.events = q.events
      BY <2>2, <2>3
    <3>2. AllTrue(q.events, store[q.worker], files[q.worker])
      BY <1>1 DEF MessagesTrue
    <3> QED BY <3>1, <3>2
  <2> QED BY <1>1, <2>1, <2>4 DEF MessagesTrue, MessagesStayTrue
<1>7. ASSUME NEW r \in wire, Serve(r) PROVE MessagesStayTrue
  <2>1. wire' \subseteq wire /\ req'.worker = r.worker /\ call'.rest = r.events
    BY <1>7 DEF Serve, BeginSync
  <2> QED BY <1>1, <2>1 DEF MessagesTrue, MessagesStayTrue
<1>8. CASE RecordNext
  <2>1. UNCHANGED <<wire, req>> /\ call.rest # << >> /\ call' = [call EXCEPT !.rest = Tail(@)]
    BY <1>8 DEF RecordNext, RecordEvent
  <2>2. PICK es, rest : es = call.rest /\ rest = call'.rest
    OBVIOUS
  <2>3. es \in Seq(Messages) /\ es # << >> /\ rest = Tail(es)
    BY <1>1, <2>1, <2>2
  <2>4. ASSUME NEW i \in DOMAIN rest PROVE i + 1 \in DOMAIN es /\ rest[i] = es[i + 1]
    BY <2>3
  <2>5. ASSUME req # Idle PROVE AllTrue(rest, store[req.worker], files[req.worker])
    BY <1>1, <2>2, <2>4, <2>5 DEF MessagesTrue, AllTrue
  <2> QED BY <1>1, <2>1, <2>2, <2>5 DEF MessagesTrue, MessagesStayTrue
<1>9. CASE StartOffers \/ \E j \in Jobs : Offer(j)
  <2>1. UNCHANGED <<wire, call>> /\ req \in Served /\ req # Idle
    BY <1>1, <1>9 DEF PlaneTyped, StartOffers, BeginOffers, Offer, OfferNext, Idle, netVars
  <2>2. req'.worker = req.worker
    BY <1>9, <2>1 DEF StartOffers, BeginOffers, Offer, OfferNext, Served
  <2> QED BY <1>1, <2>1, <2>2 DEF MessagesTrue, MessagesStayTrue
<1>10. CASE Fail \/ Reply
  <2>1. UNCHANGED wire /\ req' = Idle
    BY <1>10 DEF Fail, Rollback, Reply, Commit
  <2> QED BY <1>1, <2>1 DEF MessagesTrue, MessagesStayTrue
<1> QED BY <1>3, <1>4, <1>5, <1>6, <1>7, <1>8, <1>9, <1>10
       DEF SyncNext, Server, RefuseNext, ServerFault

\* What is over stays over.
OverStays ==
    \A w \in Workers, a \in AttemptIds, ok \in BOOLEAN :
        Over(store[w], files[w], a, ok) => Over(store'[w], files'[w], a, ok)

LEMMA TrueStays ==
    ASSUME OverStays, NEW w \in Workers, NEW es \in Seq(Messages),
           AllTrue(es, store[w], files[w])
    PROVE  AllTrue(es, store'[w], files'[w])
<1> SUFFICES ASSUME NEW i \in DOMAIN es, es[i].body.kind = "attempt_finished"
             PROVE  Over(store'[w], files'[w], es[i].body.attempt, es[i].body.ok)
  BY DEF AllTrue, Truthful
<1>1. es[i] \in Messages
  OBVIOUS
<1>2. es[i].body \in EventBodies
  BY <1>1 DEF Messages
<1>3. es[i].body.attempt \in AttemptIds /\ es[i].body.ok \in BOOLEAN
  BY <1>2 DEF EventBodies
<1>4. Over(store[w], files[w], es[i].body.attempt, es[i].body.ok)
  BY DEF AllTrue, Truthful
<1> QED BY <1>3, <1>4 DEF OverStays

LEMMA RowsStayTrue ==
    ASSUME OverStays, NEW d \in Tables, RowsTrue(d, store, files)
    PROVE  RowsTrue(d, store', files')
<1> SUFFICES ASSUME NEW a \in AttemptIds, InTable(d, a), RowOf(d, a).state \in Ended
             PROVE  Over(store'[RowOf(d, a).worker], files'[RowOf(d, a).worker], a,
                         RowOf(d, a).state = "succeeded")
  BY DEF RowsTrue
<1>1. d.job[a[1]] \in JobRows
  BY IdIs DEF Tables
<1>2. RowOf(d, a) \in Attempts
  BY <1>1 DEF RowOf, InTable, JobRows
<1>3. RowOf(d, a).worker \in Workers
  BY <1>2 DEF Attempts
<1>4. PICK w \in Workers, ok \in BOOLEAN : /\ w = RowOf(d, a).worker
                                           /\ ok = (RowOf(d, a).state = "succeeded")
  BY <1>3
<1>5. Over(store[w], files[w], a, ok)
  BY <1>4 DEF RowsTrue
<1>6. Over(store'[w], files'[w], a, ok)
  BY <1>5 DEF OverStays
<1> QED BY <1>4, <1>6

\* The machines' part of a step.
LEMMA OutboxesGo ==
    ASSUME NoRestarts, ExecInv, TruthInv, [SyncNext]_sysVars
    PROVE  /\ OverStays
           /\ \A w \in Workers : AllTrue(store'[w].outbox, store'[w], files'[w])
<1>1. WorkInv /\ ChainInv /\ Unbroken /\ AllFit /\ MachinesTyped
  BY DEF ExecInv, WorkInv
<1>2. Proceeds /\ ~Fault("crash") /\ ~Fault("reboot")
  BY <1>1, WorkNext, StaysUnbroken
<1>3. CASE UNCHANGED <<store, files>>
  BY <1>3 DEF OverStays, TruthInv
<1>4. ASSUME NEW w \in Workers, Changes(w), Works(w)
      PROVE  /\ OverStays
             /\ \A v \in Workers : AllTrue(store'[v].outbox, store'[v], files'[v])
  <2>1. \A v \in Workers \ {w} : store'[v] = store[v] /\ files'[v] = files[v]
    BY <1>1, <1>4 DEF Changes, MachinesTyped
  <2>2. /\ \A a \in AttemptIds, ok \in BOOLEAN :
              Over(store[w], files[w], a, ok) => Over(store'[w], files'[w], a, ok)
        /\ TellsTruth(store[w], store'[w], files'[w])
    BY <1>1, <1>4 DEF Works, Goes, AllFit
  <2>3. OverStays
    BY <2>1, <2>2 DEF OverStays
  <2>4. store[w].outbox \in Seq(Messages) /\ AllTrue(store[w].outbox, store[w], files[w])
    BY <1>1 DEF MachinesTyped, Stores, TruthInv
  <2>5. PICK es \in Seq(Messages) : es = store[w].outbox
    BY <2>4
  <2>6. AllTrue(es, store'[w], files'[w])
    BY <2>3, <2>4, <2>5, TrueStays
  <2>7. AllTrue(store'[w].outbox, store'[w], files'[w])
    BY <2>2, <2>5, <2>6 DEF TellsTruth, AllTrue
  <2> QED BY <2>1, <2>3, <2>7 DEF TruthInv
<1> QED BY <1>2, <1>3, <1>4 DEF Proceeds, Hears, Stops, agentVars

\* A worker is told to run what is assigned to it.
LEMMA OwnedGo ==
    ASSUME NoRestarts, ExecInv, TruthInv, [SyncNext]_sysVars
    PROVE  \A w \in Workers : Owned(w)'
<1>1. WorkInv /\ ChainInv /\ Unbroken /\ AllFit /\ MachinesTyped
  BY DEF ExecInv, WorkInv
<1>2. Proceeds /\ ~Fault("crash") /\ ~Fault("reboot") /\ Follows(db, db')
  BY <1>1, WorkNext, StaysUnbroken, TablesGo DEF TablesStayTrue
<1>3. \A w \in Workers : Owned(w)
  BY DEF TruthInv
<1>4. ASSUME NEW v \in Workers, NEW a, InTable(db, a), RowOf(db, a).worker = v,
             a \in AttemptIds
      PROVE  InTable(db', a) /\ RowOf(db', a).worker = v
  BY <1>2, <1>4 DEF Follows
<1>5. ASSUME NEW v \in Workers
      PROVE  DOMAIN store[v].cmds \cup {r.attempt : r \in agent[v].inbox.run} \subseteq AttemptIds
  <2>1. store[v] \in Stores /\ agent[v] \in Agents
    BY <1>1 DEF MachinesTyped
  <2>2. DOMAIN store[v].cmds \subseteq AttemptIds
    BY <2>1, StoreShape
  <2>3. agent[v].inbox.run \subseteq [attempt : AttemptIds, rev : Nat]
    BY <2>1 DEF Agents, Replies
  <2> QED BY <2>2, <2>3
<1>6. ASSUME NEW v \in Workers,
             DOMAIN store'[v].cmds \subseteq
                DOMAIN store[v].cmds \cup {r.attempt : r \in agent[v].inbox.run},
             agent'[v].inbox.run \subseteq agent[v].inbox.run
      PROVE  Owned(v)'
  BY <1>3, <1>4, <1>5, <1>6 DEF Owned
<1>7. ASSUME NEW v \in Workers, store'[v] = store[v], agent'[v] = agent[v] PROVE Owned(v)'
  BY <1>6, <1>7
<1>8. ASSUME NEW w \in Workers, Changes(w), Works(w) \/ Hears(w)
      PROVE  \A v \in Workers : Owned(v)'
  <2>1. \A v \in Workers \ {w} : store'[v] = store[v] /\ agent'[v] = agent[v]
    BY <1>1, <1>8 DEF Changes, MachinesTyped
  <2>2. CASE Works(w)
    <3>1. Owned(w)'
      BY <1>6, <2>2 DEF Works, Goes
    <3> QED BY <1>7, <2>1, <3>1
  <2>3. CASE Hears(w)
    <3>1. PICK run : run = Answer(tx, w, req.session).run
      OBVIOUS
    <3>2. agent'[w].inbox.run = run /\ store'[w] = store[w] /\ db' = tx
      BY <2>3, <3>1 DEF Hears
    <3>3. \A r \in run : r.attempt \in LiveOn(tx, w)
      BY <3>1 DEF Answer
    <3>4. \A r \in run : InTable(tx, r.attempt) /\ RowOf(tx, r.attempt).worker = w
      BY <3>3 DEF LiveOn, InTable, RowOf
    <3>5. \A a \in DOMAIN store[w].cmds : InTable(db', a) /\ RowOf(db', a).worker = w
      BY <1>3, <1>4, <1>5 DEF Owned
    <3>6. Owned(w)'
      BY <3>2, <3>4, <3>5 DEF Owned
    <3> QED BY <1>7, <2>1, <3>6
  <2> QED BY <1>8, <2>2, <2>3
<1> QED BY <1>2, <1>7, <1>8 DEF Proceeds, Stops, agentVars

LEMMA TruthNext ==
    ASSUME NoRestarts, ExecInv, TruthInv, [SyncNext]_sysVars
    PROVE  TruthInv'
<1>1. WorkInv /\ ExecInv'
  BY ExecNext DEF ExecInv
<1>2. WorkInv'
  BY <1>1 DEF ExecInv
<1>3. TablesStayTrue /\ MessagesStayTrue
  BY <1>1, TablesGo, MessagesGo
<1>4. OverStays /\ \A w \in Workers : AllTrue(store'[w].outbox, store'[w], files'[w])
  BY OutboxesGo
<1>5. \A w \in Workers : Owned(w)'
  BY OwnedGo
<1>6. TablesTrue'
  <2>1. PICK d \in Tables, d2 \in Tables : d = db' /\ d2 = tx'
    BY <1>2 DEF WorkInv, PlaneTyped
  <2>2. RowsTrue(d, store', files') /\ RowsTrue(d2, store', files')
    BY <1>3, <1>4, <2>1, RowsStayTrue DEF TablesStayTrue
  <2> QED BY <1>3, <2>1, <2>2 DEF TablesStayTrue, TablesTrue
<1>7. MessagesTrue'
  <2>1. wire' \subseteq Posted /\ call' \in [live : BOOLEAN, rest : Seq(Messages)]
        /\ req' \in {Idle} \cup Served
    BY <1>2 DEF WorkInv, PlaneTyped
  <2>2. ASSUME NEW r \in wire'
        PROVE  AllTrue(r.events, store'[r.worker], files'[r.worker])
    <3>1. PICK w \in Workers, es \in Seq(Messages) : w = r.worker /\ es = r.events
      BY <2>1 DEF Posted
    <3>2. AllTrue(es, store'[w], files'[w])
      BY <1>3, <1>4, <3>1, TrueStays DEF MessagesStayTrue
    <3> QED BY <3>1, <3>2
  <2>3. ASSUME req' # Idle
        PROVE  AllTrue(call'.rest, store'[req'.worker], files'[req'.worker])
    <3>1. PICK w \in Workers, es \in Seq(Messages) : w = req'.worker /\ es = call'.rest
      BY <2>1, <2>3 DEF Served
    <3>2. AllTrue(es, store'[w], files'[w])
      BY <1>3, <1>4, <2>3, <3>1, TrueStays DEF MessagesStayTrue
    <3> QED BY <3>1, <3>2
  <2> QED BY <2>2, <2>3 DEF MessagesTrue
<1> QED BY <1>4, <1>5, <1>6, <1>7 DEF TruthInv

LEMMA TruthInit == SyncInit => TruthInv
<1> SUFFICES ASSUME SyncInit PROVE TruthInv
  OBVIOUS
<1>1. /\ db = EmptyDatabase /\ tx = EmptyDatabase /\ req = Idle /\ wire = {}
  BY DEF SyncInit, Init
<1>2. \A j \in Jobs : /\ db.job[j].attempts = << >> /\ tx.job[j].attempts = << >>
                     /\ db.job[j].samples = << >> /\ tx.job[j].samples = << >>
  BY <1>1 DEF EmptyDatabase, NoJobRow
<1>3. \A a \in AttemptIds : ~InTable(db, a) /\ ~InTable(tx, a)
  BY <1>2, IdIs DEF InTable
<1>4. ASSUME NEW w \in Workers
      PROVE  /\ DOMAIN store[w].cmds = {} /\ DOMAIN store[w].outbox = {}
             /\ agent[w].inbox.run = {}
  BY DEF SyncInit, AgentInit, Stopped, NoReply
<1>5. TablesTrue
  BY <1>1, <1>2, <1>3 DEF TablesTrue, Blank, Follows, ScanKnown, RowsTrue
<1> QED BY <1>1, <1>4, <1>5 DEF TruthInv, MessagesTrue, AllTrue, Owned

LEMMA Truth == NoRestarts => (SyncSpec => [](ExecInv /\ TruthInv))
<1> SUFFICES ASSUME NoRestarts PROVE SyncSpec => [](ExecInv /\ TruthInv)
  OBVIOUS
<1>1. SyncInit => ExecInv /\ TruthInv
  BY ExecInit, TruthInit
<1>2. (ExecInv /\ TruthInv) /\ [SyncNext]_sysVars => (ExecInv /\ TruthInv)'
  BY ExecNext, TruthNext
<1> QED BY <1>1, <1>2, PTL DEF SyncSpec

\* A job is reported as succeeded only if its process recorded exit code 0, whatever
\* is lost, repeated or rolled back between the worker and the control plane
\* (ReadRunStatus, finish, MarkFinished, applyWorkerEvent).
THEOREM NoSuccessIsFalse == NoRestarts => (SyncSpec => []NoFalseSuccess)
<1>1. ASSUME TruthInv PROVE NoFalseSuccess
  <2> SUFFICES ASSUME NEW a \in AttemptIds, HasRow(a), AttemptRow(a).state = "succeeded"
               PROVE  files[AttemptRow(a).worker][a].status = "ok"
    BY DEF NoFalseSuccess
  <2>1. InTable(db, a) /\ RowOf(db, a) = AttemptRow(a)
    BY DEF HasRow, AttemptRow, InTable, RowOf
  <2>2. RowOf(db, a).state \in Ended
    BY <2>1 DEF Ended
  <2>3. Over(store[RowOf(db, a).worker], files[RowOf(db, a).worker], a, TRUE)
    BY <1>1, <2>1, <2>2 DEF TruthInv, TablesTrue, RowsTrue, Over
  <2> QED BY <2>1, <2>3 DEF Over
<1> QED BY <1>1, Truth, PTL

\* Once the control plane shows an attempt as ended, and may give its slot or its GPU
\* to another job, no process of it runs on any worker (signalCancel, processAlive,
\* finish, and the attempt's row in the control plane's table).
THEOREM EndedHasStopped == NoRestarts => (SyncSpec => []EndedMeansStopped)
<1>1. ASSUME ExecInv, TruthInv PROVE EndedMeansStopped
  <2> SUFFICES ASSUME NEW w \in Workers, NEW p \in DOMAIN procs[w],
                      HasRow(procs[w][p].attempt),
                      AttemptRow(procs[w][p].attempt).state \in Ended
               PROVE  procs[w][p].st # "running"
    BY DEF EndedMeansStopped
  <2>1. PICK a : a = procs[w][p].attempt
    OBVIOUS
  <2>2. /\ procs[w] \in Seq(Processes) /\ a \in DOMAIN store[w].cmds
        /\ PidsFit(store[w], agent[w], procs[w])
        /\ OutcomesFit(store[w], agent[w], procs[w], files[w])
    BY <1>1, <2>1 DEF ExecInv, WorkInv, MachinesTyped, AllFit, Fit, PidsFit
  <2>3. a \in AttemptIds
    <3>1. procs[w][p] \in Processes
      BY <2>2
    <3> QED BY <2>1, <3>1 DEF Processes
  <2>4. InTable(db, a) /\ RowOf(db, a) = AttemptRow(a) /\ RowOf(db, a).worker = w
    BY <1>1, <2>1, <2>2 DEF TruthInv, Owned, AttemptRow, RowOf
  <2>5. store[w].cmds[a].state = "finished"
    BY <1>1, <2>1, <2>3, <2>4 DEF TruthInv, TablesTrue, RowsTrue, Over
  <2>6. NoneRuns(procs[w], a)
    BY <2>2, <2>5 DEF OutcomesFit
  <2> QED BY <2>1, <2>6 DEF NoneRuns
<1> QED BY <1>1, Truth, PTL
=============================================================================
