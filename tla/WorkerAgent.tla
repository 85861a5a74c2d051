------------------------------- MODULE WorkerAgent -------------------------------
(* A worker: the agent's cycle (src/internal/worker/agent.go), its executor    *)
(* (executor.go, sampler.go), its SQLite store (store.go) and the supervised   *)
(* processes with the files they leave (src/cmd/lcjs/supervise.go).            *)
(*                                                                             *)
(* The agent is one thread: `pc` says where in its cycle it is.  Each step is   *)
(* one transaction of its store or one look at the outside world, because the  *)
(* agent may die, and processes and files may change, between any two.  The    *)
(* store, the files and the processes outlive the agent.                       *)
EXTENDS ControlStore, SequencesExt

CONSTANTS
    MaxBatch,   \* events carried by one sync, 1000 in the code
    MaxLines,   \* bound: lines a metrics file gets
    MaxSweeps,  \* bound: artifact sweeps of a running attempt per agent start
    Tails,      \* whether the log tail, once encoded, may fit 64 KiB
    Collects    \* whether collecting artifacts and log at the end may succeed

ASSUME AgentAssumption ==
    /\ MaxBatch \in Nat \ {0} /\ MaxLines \in Nat /\ MaxSweeps \in Nat
    /\ Tails \subseteq BOOLEAN /\ Collects \subseteq BOOLEAN

VARIABLES
    store,      \* per worker: [cmds, outbox, next], durable; commands by attempt
    agent,      \* per worker: [up, session, pc, todo, found, inbox, sampling,
                \*              swept, seen]
    procs,      \* per worker: supervisors started so far; a pid is an index
    files       \* per worker and attempt: [status, lines, tail, outputs], durable

agentVars == <<store, agent, procs, files>>

\* A metric line that is not JSON, or whose value is not finite; one that is longer
\* than 1 MiB.
Unreadable == [name |-> "unreadable", unit |-> FALSE]
TooLong    == [name |-> "too long", unit |-> FALSE]
SystemSample == [name |-> "system", unit |-> FALSE]
Lines == Points \cup {Unreadable}

\* The job's own line at the end of its metrics file: none is begun, one is begun,
\* or one is begun and what it has of it so far ended up in a line of the sampler.
LineTails == {"none", "open", "torn"}

\* cancel: not requested, requested, or requested longer than cancelGrace ago.
Commands == [rev : Nat, state : {"pending", "running", "finished"},
             pid : Nat, cancel : {"no", "asked", "overdue"}, offset : Nat]

\* No artifact was announced yet.
NoFile == "no file"

\* What a sync answers: offered attempts with the revision of their job's row,
\* attempts to cancel, and the sequence acknowledged.
NoReply == [run |-> {}, cancel |-> {}, through |-> 0]

Phases == {"reap", "ingest", "status", "alive", "finish", "send", "wait",
           "accept", "ack", "launch", "spawned", "unstarted"}

AgentTypeOK ==
    \A w \in Workers :
        /\ DOMAIN store[w].cmds \subseteq AttemptIds
        /\ \A a \in DOMAIN store[w].cmds : store[w].cmds[a] \in Commands
        /\ \A i \in DOMAIN store[w].outbox : store[w].outbox[i] \in Events
        /\ store[w].next \in Nat
        /\ agent[w].pc \in Phases /\ agent[w].up \in BOOLEAN
        /\ agent[w].found \in {"none", "ok", "bad"}
        /\ agent[w].sampling \subseteq AttemptIds
        /\ agent[w].swept \in [AttemptIds -> 0 .. MaxSweeps]
        /\ agent[w].seen \in [AttemptIds -> Files \cup {NoFile}]
        /\ \A p \in DOMAIN procs[w] :
              procs[w][p] \in [attempt : AttemptIds, st : {"running", "reported", "gone"}]
        /\ \A a \in AttemptIds :
              /\ files[w][a].status \in {"none", "ok", "bad"}
              /\ Len(files[w][a].lines) <= MaxLines /\ files[w][a].tail \in LineTails
              /\ files[w][a].outputs \subseteq Files

Stopped(session) ==
    [up |-> FALSE, session |-> session, pc |-> "reap", todo |-> << >>, found |-> "none",
     inbox |-> NoReply, sampling |-> {}, swept |-> [a \in AttemptIds |-> 0],
     seen |-> [a \in AttemptIds |-> NoFile]]

AgentInit ==
    /\ store = [w \in Workers |-> [cmds |-> << >>, outbox |-> << >>, next |-> 1]]
    /\ agent = [w \in Workers |-> Stopped(0)]
    /\ procs = [w \in Workers |-> << >>]
    /\ files = [w \in Workers |-> 
                 [a \in AttemptIds |->
                    [status |-> "none", lines |-> << >>, tail |-> "none", outputs |-> {}]]]

---------------------------------------------------------------------------
(* The store's statements *)

\* enqueueEvent: the sequence is an AUTOINCREMENT key, never given out twice,
\* and the id is fresh.
Enqueue(st, w, body) ==
    [st EXCEPT !.outbox = Append(@, [seq |-> st.next, id |-> <<w, st.next>>, body |-> body]),
               !.next   = @ + 1]

\* The commands a query finds.  They come by created_at and command_id: the first
\* is a string that does not sort by time, the second is drawn at random, so their
\* order is any.
Pending(st)   == {a \in DOMAIN st.cmds : st.cmds[a].state = "pending" /\ st.cmds[a].cancel = "no"}
Withdrawn(st) == {a \in DOMAIN st.cmds : st.cmds[a].state = "pending" /\ st.cmds[a].cancel # "no"}
Running(st)   == {a \in DOMAIN st.cmds : st.cmds[a].state = "running"}

\* A mutant: the command stays pending.
MarkStarted_stillPending(st, w, a, pid) ==
    Enqueue([st EXCEPT !.cmds[a].pid = pid],
            w, [kind |-> "attempt_started", attempt |-> a])

MarkStarted(st, w, a, pid) ==
    Enqueue([st EXCEPT !.cmds[a] = [@ EXCEPT !.state = "running", !.pid = pid]],
            w, [kind |-> "attempt_started", attempt |-> a])

\* A mutant: the artifacts collected at the end are not sent.
MarkFinished_withoutFiles(st, w, a, ok, tail, outputs) ==
    Enqueue([st EXCEPT !.cmds[a].state = "finished"],
            w, [kind |-> "attempt_finished", attempt |-> a, ok |-> ok,
                tailFits |-> tail, files |-> {}])

MarkFinished(st, w, a, ok, tail, outputs) ==
    Enqueue([st EXCEPT !.cmds[a].state = "finished"],
            w, [kind |-> "attempt_finished", attempt |-> a, ok |-> ok,
                tailFits |-> tail, files |-> outputs])

AnnounceArtifacts(st, w, a, changed) ==
    IF changed = {} THEN st
    ELSE Enqueue(st, w, [kind |-> "artifacts", attempt |-> a, files |-> changed])

\* A mutant: a line that cannot be read is sent like any other.
TakeLine_unread(st, w, a, line) ==
    Enqueue([st EXCEPT !.cmds[a].offset = @ + 1],
            w, [kind |-> "metric_sample", attempt |-> a, point |-> line])

\* SkipMetric or EnqueueMetric: the offset moves in the transaction that enqueues.
TakeLine(st, w, a, line) ==
    LET moved == [st EXCEPT !.cmds[a].offset = @ + 1]
    IN  IF line = Unreadable THEN moved
        ELSE Enqueue(moved, w, [kind |-> "metric_sample", attempt |-> a, point |-> line])

\* A command that is known must be byte for byte the one that was stored.
CommandsChanged(st, run) ==
    \E r \in run : r.attempt \in DOMAIN st.cmds /\ st.cmds[r.attempt].rev # r.rev

\* AcceptCommands: new commands are stored with an accepted event each, then the
\* cancels mark the commands that are not finished.
WithCommands(st, w, run, cancel) ==
    LET new  == SetToSeq({r \in run : r.attempt \notin DOMAIN st.cmds})
        all  == DOMAIN st.cmds \cup {r.attempt : r \in run}
        row(a) == IF a \in DOMAIN st.cmds THEN st.cmds[a]
                  ELSE [rev |-> (CHOOSE r \in run : r.attempt = a).rev, state |-> "pending",
                        pid |-> 0, cancel |-> "no", offset |-> 0]
        mark(c) == IF c.state # "finished" /\ c.cancel = "no"
                   THEN [c EXCEPT !.cancel = "asked"] ELSE c
    IN  [cmds   |-> [a \in all |-> IF a \in cancel THEN mark(row(a)) ELSE row(a)],
         outbox |-> st.outbox \o
                    [i \in DOMAIN new |->
                        [seq |-> st.next + i - 1, id |-> <<w, st.next + i - 1>>,
                         body |-> [kind |-> "attempt_accepted", attempt |-> new[i].attempt]]],
         next   |-> st.next + Len(new)]

---------------------------------------------------------------------------
(* The cycle *)

At(w, phase) == agent[w].up /\ agent[w].pc = phase
Now(w) == Head(agent[w].todo)

Goto(w, phase) == agent' = [agent EXCEPT ![w].pc = phase]

\* On to the next command of the list, at the phase the loop starts with.
NextOf(w, phase) ==
    agent' = [agent EXCEPT ![w].pc = phase, ![w].todo = Tail(@)]

\* reconcileRunning: first the commands canceled before they were launched, one
\* transaction each, then the list of the running ones.
ReapWithdrawn(w) ==
    /\ At(w, "reap")
    /\ \E a \in Withdrawn(store[w]) :
          store' = [store EXCEPT ![w] = MarkFinished(@, w, a, FALSE, TRUE, {})]
    /\ UNCHANGED <<agent, procs, files>>

ListRunning(w) ==
    /\ At(w, "reap")
    /\ Withdrawn(store[w]) = {}
    /\ \E list \in SetToSeqs(Running(store[w])) :
          agent' = [agent EXCEPT ![w].pc = "ingest", ![w].todo = list]
    /\ UNCHANGED <<store, procs, files>>

\* Any error ends the cycle; the next one starts over.
GotError(w) == agent' = [agent EXCEPT ![w].pc = "reap", ![w].inbox = NoReply]

\* ingestMetrics: one line, a line that is an error, or the end of the file: what
\* stands behind the last newline is left unread.
Ingest(w) ==
    /\ At(w, "ingest")
    /\ agent[w].todo # << >>
    /\ LET lines == files[w][Now(w)].lines
           offset == store[w].cmds[Now(w)].offset
       IN  \/ /\ offset < Len(lines)
              /\ lines[offset + 1] # TooLong
              /\ store' = [store EXCEPT ![w] = TakeLine(@, w, Now(w), lines[offset + 1])]
              /\ UNCHANGED agent
           \/ /\ offset < Len(lines)
              /\ lines[offset + 1] = TooLong
              /\ GotError(w)
              /\ UNCHANGED store
           \/ /\ offset = Len(lines)
              /\ Goto(w, "status")
              /\ UNCHANGED store
    /\ UNCHANGED <<procs, files>>

AllReconciled(w) ==
    /\ At(w, "ingest")
    /\ agent[w].todo = << >>
    /\ Goto(w, "send")
    /\ UNCHANGED <<store, procs, files>>

ReadRunStatus(w) ==
    /\ At(w, "status")
    /\ agent' = [agent EXCEPT ![w].found = files[w][Now(w)].status,
                              ![w].pc = IF files[w][Now(w)].status = "none"
                                        THEN "alive" ELSE "finish"]
    /\ UNCHANGED <<store, procs, files>>

\* A mutant: no process is ever found alive.
ProcessAlive_never(w, pid) == FALSE

ProcessAlive(w, pid) == pid > 0 /\ procs[w][pid].st # "gone"

\* The files of an attempt in the order filepath.Glob returns them.
Listed(w, a) == SetToSeq(files[w][a].outputs)

\* A process that is alive and not being canceled is sampled, and its artifacts
\* are swept when a sweep is due: `seen` keeps the checksum that was last
\* announced under the artifact rule's name, one for all the files of the rule.
WatchProgress(w) ==
    LET a == Now(w)
        found == Listed(w, a)
        changed == IF found # << >> /\ Head(found) = agent[w].seen[a]
                   THEN Tail(found) ELSE found
        next == [agent[w] EXCEPT !.pc = "ingest", !.todo = Tail(@), !.sampling = @ \cup {a}]
    IN  \/ /\ agent[w].swept[a] < MaxSweeps
           /\ store' = [store EXCEPT ![w] = AnnounceArtifacts(@, w, a, ToSet(changed))]
           /\ agent' = [agent EXCEPT ![w] =
                 [next EXCEPT !.swept[a] = @ + 1,
                              !.seen[a] = IF found = << >> THEN @ ELSE Last(found)]]
        \/ /\ agent' = [agent EXCEPT ![w] = next]
           /\ UNCHANGED store

\* A mutant: a canceled attempt is finished without waiting for its process.
SignalCancel_atOnce(w, c) == Goto(w, "finish") /\ UNCHANGED <<store, procs>>

\* A mutant: a process that ignores SIGTERM is left alone.
SignalCancel_termOnly(w, c) == NextOf(w, "ingest") /\ UNCHANGED <<store, procs>>

\* signalCancel: SIGTERM changes nothing a job might not do by itself, SIGKILL
\* after the grace period takes the whole group.
SignalCancel(w, c) ==
    /\ NextOf(w, "ingest")
    /\ procs' = IF c.cancel = "overdue"
                THEN [procs EXCEPT ![w][c.pid].st = "gone"] ELSE procs
    /\ UNCHANGED store

\* processAlive, and what follows from it.
CheckAlive(w) ==
    LET c == store[w].cmds[Now(w)]
    IN  /\ At(w, "alive")
        /\ \/ ~ProcessAlive(w, c.pid) /\ Goto(w, "finish") /\ UNCHANGED <<store, procs>>
           \/ ProcessAlive(w, c.pid) /\ c.cancel # "no" /\ SignalCancel(w, c)
           \/ ProcessAlive(w, c.pid) /\ c.cancel = "no" /\ WatchProgress(w)
                                     /\ UNCHANGED procs
        /\ UNCHANGED files

\* A mutant: a status that was never found counts as success.
ExitedZero_unlessBad(w, collected) == agent[w].found # "bad" /\ collected

ExitedZero(w, collected) == agent[w].found = "ok" /\ collected

\* A status that was never found is reported as exit code -1 with an error, and
\* so is an attempt whose artifacts or log cannot be collected.
Finish(w) ==
    /\ At(w, "finish")
    /\ \E tail \in Tails, collected \in Collects, sent \in {{}, files[w][Now(w)].outputs} :
          /\ collected => sent = files[w][Now(w)].outputs
          /\ store' = [store EXCEPT
                ![w] = MarkFinished(@, w, Now(w), ExitedZero(w, collected), tail, sent)]
    /\ agent' = [agent EXCEPT ![w].pc = "ingest", ![w].todo = Tail(@),
                              ![w].sampling = @ \ {Now(w)}]
    /\ UNCHANGED <<procs, files>>

\* A mutant: off by one, the oldest event is left out.
Batch_fromSecond(w) == SubSeq(store[w].outbox, 2, Len(store[w].outbox))

\* The events a sync carries.
Batch(w) ==
    SubSeq(store[w].outbox, 1,
           IF Len(store[w].outbox) < MaxBatch THEN Len(store[w].outbox) ELSE MaxBatch)

GotReply(w, reply) ==
    agent' = [agent EXCEPT ![w].pc = "accept", ![w].inbox = reply]

AcceptCommands(w) ==
    LET reply == agent[w].inbox
    IN  /\ At(w, "accept")
        /\ IF CommandsChanged(store[w], reply.run)
           THEN GotError(w) /\ UNCHANGED store
           ELSE /\ store' = [store EXCEPT
                                ![w] = WithCommands(@, w, reply.run, reply.cancel)]
                /\ Goto(w, "ack")
        /\ UNCHANGED <<procs, files>>

\* What is left of an outbox when the rows up to a sequence are deleted: rows are
\* in the order of their sequence, so the first ones go.
After(outbox, through) ==
    SubSeq(outbox, 1 + Cardinality({i \in DOMAIN outbox : outbox[i].seq <= through}),
           Len(outbox))

\* launchPending reads the commands it will launch, no more than the worker's
\* parallelism.
ListPending(w) ==
    LET limit == WithDefaults(Capacity[w]).maxParallel
    IN  \E list \in SetToSeqs(Pending(store[w])) :
            agent' = [agent EXCEPT
                ![w].pc = "launch", ![w].inbox = NoReply,
                ![w].todo = SubSeq(list, 1, IF Len(list) < limit THEN Len(list) ELSE limit)]

\* A mutant: everything sent so far is deleted, not what was acknowledged.
Acknowledge_all(w) ==
    /\ At(w, "ack")
    /\ store' = [store EXCEPT ![w].outbox = << >>]
    /\ ListPending(w)
    /\ UNCHANGED <<procs, files>>

Acknowledge(w) ==
    /\ At(w, "ack")
    /\ store' = [store EXCEPT ![w].outbox = After(@, agent[w].inbox.through)]
    /\ ListPending(w)
    /\ UNCHANGED <<procs, files>>

Launched(w) ==
    /\ At(w, "launch")
    /\ agent[w].todo = << >>
    /\ Goto(w, "reap")
    /\ UNCHANGED <<store, procs, files>>

\* launch: the supervisor is started first and recorded in a second step.
StartProcess(w) ==
    /\ At(w, "launch")
    /\ agent[w].todo # << >>
    /\ procs' = [procs EXCEPT ![w] = Append(@, [attempt |-> Now(w), st |-> "running"])]
    /\ Goto(w, "spawned")
    /\ UNCHANGED <<store, files>>

RecordStarted(w) ==
    /\ At(w, "spawned")
    /\ store' = [store EXCEPT ![w] = MarkStarted(@, w, Now(w), Len(procs[w]))]
    /\ NextOf(w, "launch")
    /\ UNCHANGED <<procs, files>>

\* failBeforeLaunch: no directory, a source that cannot be prepared, secrets, a
\* log or a supervisor that cannot be opened.  Started with no process ...
FailBeforeLaunch(w) ==
    /\ At(w, "launch")
    /\ agent[w].todo # << >>
    /\ store' = [store EXCEPT ![w] = MarkStarted(@, w, Now(w), 0)]
    /\ Goto(w, "unstarted")
    /\ UNCHANGED <<procs, files>>

\* ... and finished in a second transaction.
FinishUnstarted(w) ==
    /\ At(w, "unstarted")
    /\ store' = [store EXCEPT ![w] = MarkFinished(@, w, Now(w), FALSE, TRUE, {})]
    /\ NextOf(w, "launch")
    /\ UNCHANGED <<procs, files>>

\* The steps the agent takes by itself.
AgentStep(w) ==
    \/ ReapWithdrawn(w) \/ ListRunning(w)
    \/ Ingest(w) \/ AllReconciled(w)
    \/ ReadRunStatus(w) \/ CheckAlive(w) \/ Finish(w)
    \/ AcceptCommands(w) \/ Acknowledge(w)
    \/ Launched(w) \/ StartProcess(w) \/ RecordStarted(w)
    \/ FailBeforeLaunch(w) \/ FinishUnstarted(w)

---------------------------------------------------------------------------
(* Starts, crashes, processes *)

\* Every start draws a new session.
StartAgent(w) ==
    /\ ~agent[w].up
    /\ agent' = [agent EXCEPT ![w] = [Stopped(@.session + 1) EXCEPT !.up = TRUE]]
    /\ UNCHANGED <<store, procs, files>>

\* Supervisors run in process groups of their own and outlive the agent.
Crash(w) ==
    /\ agent[w].up
    /\ agent' = [agent EXCEPT ![w] = Stopped(@.session)]
    /\ UNCHANGED <<store, procs, files>>

\* The machine restarts: processes are gone, files and store are not.
Reboot(w) ==
    /\ agent' = [agent EXCEPT ![w] = Stopped(@.session)]
    /\ procs' = [procs EXCEPT ![w] = [p \in DOMAIN @ |-> [@[p] EXCEPT !.st = "gone"]]]
    /\ UNCHANGED <<store, files>>

\* Bytes that end in a newline are appended; `tail` is what becomes of the line the
\* job has begun.
AppendLine(w, a, line, tail) ==
    /\ Len(files[w][a].lines) < MaxLines
    /\ files' = [files EXCEPT ![w][a].lines = Append(@, line), ![w][a].tail = tail]
    /\ UNCHANGED <<store, agent, procs>>

\* The job writes a line to its metrics file, or the rest of one.  The rest of a
\* torn line is a line that nobody can read.
JobWrites(w, p, line) ==
    LET a == procs[w][p].attempt
    IN  /\ procs[w][p].st = "running"
        /\ files[w][a].tail = "torn" => line = Unreadable
        /\ AppendLine(w, a, line, "none")

\* The job's buffer is flushed in the middle of a line.
JobBeginsLine(w, p) ==
    LET a == procs[w][p].attempt
    IN  /\ procs[w][p].st = "running"
        /\ files[w][a].tail = "none" /\ Len(files[w][a].lines) < MaxLines
        /\ files' = [files EXCEPT ![w][a].tail = "open"]
        /\ UNCHANGED <<store, agent, procs>>

\* The job completes an artifact; it does not change it afterwards.
JobSaves(w, p, f) ==
    LET a == procs[w][p].attempt
    IN  /\ procs[w][p].st = "running"
        /\ f \notin files[w][a].outputs
        /\ files' = [files EXCEPT ![w][a].outputs = @ \cup {f}]
        /\ UNCHANGED <<store, agent, procs>>

\* The sampler goroutine writes to the same file until it is stopped, behind a line
\* that the job has begun if there is one.  An instance without system samples has
\* no sampler.
Sample(w, a) ==
    /\ agent[w].up /\ a \in agent[w].sampling
    /\ SystemSample \in Points
    /\ IF files[w][a].tail = "open"
       THEN AppendLine(w, a, Unreadable, "torn")
       ELSE AppendLine(w, a, SystemSample, files[w][a].tail)

\* The job ends and the supervisor publishes its status by an atomic rename ...
ReportStatus(w, p, status) ==
    /\ procs[w][p].st = "running"
    /\ procs' = [procs EXCEPT ![w][p].st = "reported"]
    /\ files' = [files EXCEPT ![w][procs[w][p].attempt].status = status]
    /\ UNCHANGED <<store, agent>>

\* ... and only then exits.
SupervisorExits(w, p) ==
    /\ procs[w][p].st = "reported"
    /\ procs' = [procs EXCEPT ![w][p].st = "gone"]
    /\ UNCHANGED <<store, agent, files>>

\* cancelGrace passes after a cancel request.
GracePasses(w, a) ==
    /\ store[w].cmds[a].cancel = "asked"
    /\ store[w].cmds[a].state = "running"
    /\ store' = [store EXCEPT ![w].cmds[a].cancel = "overdue"]
    /\ UNCHANGED <<agent, procs, files>>

JobStep(w) ==
    \/ \E p \in DOMAIN procs[w] :
          \/ \E line \in Lines \ {SystemSample} : JobWrites(w, p, line)
          \/ JobBeginsLine(w, p)
          \/ \E f \in Files : JobSaves(w, p, f)
          \/ \E status \in {"ok", "bad"} : ReportStatus(w, p, status)
          \/ SupervisorExits(w, p)
    \/ \E a \in AttemptIds : Sample(w, a)
    \/ \E a \in DOMAIN store[w].cmds : GracePasses(w, a)
=============================================================================
