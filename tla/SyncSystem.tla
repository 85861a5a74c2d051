------------------------------- MODULE SyncSystem -------------------------------
(* The control plane and its workers over HTTP: a worker's cycle posts its     *)
(* events to /api/v1/worker/sync, the control plane records them, offers jobs  *)
(* and answers with commands and an acknowledgement.                           *)
(*                                                                             *)
(* A request may be given up by its worker (timeout, crash) and still be served *)
(* later; its answer is then lost.  While a sync's transaction is open only its *)
(* own steps are taken: they touch nothing a worker can see before Commit, so   *)
(* every other order has the same effect.                                       *)
EXTENDS ControlPlane, WorkerAgent

CONSTANTS
    Budget,     \* bounds: how many faults of each kind a behaviour may have,
    MaxFaults   \* and how many in all

\* The jobs that are ever submitted.
ASSUME JobsAssumption == IsFiniteSet(Jobs)

VARIABLES
    wire,   \* requests the server has not started to serve
    call,   \* the request being served: is anyone waiting, events still to record
    spent   \* faults so far

sysVars == <<db, tx, req, store, agent, procs, files, wire, call, spent>>
netVars == <<wire, call, spent>>

NoCall == [live |-> FALSE, rest |-> << >>]

SyncInit ==
    /\ Init
    /\ AgentInit
    /\ wire = {}
    /\ call = NoCall
    /\ spent = [f \in DOMAIN Budget |-> 0]

Fault(f) ==
    /\ spent[f] < Budget[f] /\ SumFunction(spent) < MaxFaults
    /\ spent' = [spent EXCEPT ![f] = @ + 1]

---------------------------------------------------------------------------
(* The worker's side of a request *)

PostSync(w) ==
    /\ At(w, "send")
    /\ wire' = wire \cup {[worker |-> w, session |-> agent[w].session,
                           events |-> Batch(w), live |-> TRUE]}
    /\ Goto(w, "wait")
    /\ UNCHANGED <<store, procs, files, call, spent>>

\* Nobody waits any more for the requests of w; one may also be lost.
Abandon(w) ==
    LET mine == {r \in wire : r.worker = w}
        kept == (wire \ mine) \cup {[r EXCEPT !.live = FALSE] : r \in mine}
    IN  wire' \in {kept, kept \ {[r EXCEPT !.live = FALSE] : r \in {q \in mine : q.live}}}

\* The client's timeout, a connection that breaks.
TimeOut(w) ==
    /\ At(w, "wait")
    /\ Fault("timeout")
    /\ Abandon(w)
    /\ GotError(w)
    /\ UNCHANGED <<store, procs, files, call>>

---------------------------------------------------------------------------
(* The server's side *)

\* workerSync starts to serve a request.
Serve(r) ==
    /\ r \in wire
    /\ BeginSync(r.worker, r.session)
    /\ wire' = wire \ {r}
    /\ call' = [live |-> r.live, rest |-> r.events]
    /\ UNCHANGED <<agentVars, spent>>

RecordNext ==
    /\ call.rest # << >>
    /\ RecordEvent(Head(call.rest))
    /\ call' = [call EXCEPT !.rest = Tail(@)]
    /\ UNCHANGED <<agentVars, wire, spent>>

\* The transaction is dropped and whoever waits gets an error.
Fail ==
    /\ Rollback
    /\ call' = NoCall
    /\ IF call.live THEN GotError(req.worker) ELSE UNCHANGED agent
    /\ UNCHANGED <<store, procs, files, wire>>

\* recordWorkerEvent returns an error.
RefuseNext ==
    /\ req.phase = "events"
    /\ call.rest # << >>
    /\ ~CanRecord(tx, req.worker, req.session, Head(call.rest))
    /\ Fail
    /\ UNCHANGED spent

\* A statement fails, or the server stops and is started again.
ServerFault == Fault("server") /\ Fail

StartOffers ==
    /\ call.rest = << >>
    /\ BeginOffers
    /\ UNCHANGED <<agentVars, netVars>>

Offer(j) == OfferNext(j) /\ UNCHANGED <<agentVars, netVars>>

\* A mutant: every attempt the worker holds is sent as an offer.
Answer_allLive(d, w, s) ==
    [run     |-> {[attempt |-> a, rev |-> d.job[a[1]].rev] : a \in LiveOn(d, w)},
     cancel  |-> {a \in LiveOn(d, w) : d.job[a[1]].state \in {"canceling", "canceled"}},
     through |-> Max({0} \cup {r.seq : r \in {q \in d.events :
                                      q.worker = w /\ q.session = s}})]

\* offeredCommands, cancelCommands and the acknowledgement: the highest sequence
\* recorded from this session.
Answer(d, w, s) ==
    LET offered == {a \in LiveOn(d, w) : d.job[a[1]].attempts[a[2]].state = "offered"}
    IN  [run     |-> {[attempt |-> a, rev |-> d.job[a[1]].rev] : a \in offered},
         cancel  |-> {a \in LiveOn(d, w) : d.job[a[1]].state \in {"canceling", "canceled"}},
         through |-> Max({0} \cup {r.seq : r \in {q \in d.events :
                                          q.worker = w /\ q.session = s}})]

Reply ==
    /\ Commit
    /\ call' = NoCall
    /\ IF call.live
       THEN GotReply(req.worker, Answer(tx, req.worker, req.session))
       ELSE UNCHANGED agent
    /\ UNCHANGED <<store, procs, files, wire, spent>>

---------------------------------------------------------------------------
(* Everything together *)

Operate ==
    /\ \/ \E w \in Workers : CreateWorker(w)
       \/ \E t \in Targets : CreateWebhookTarget(t)
       \/ \E k \in Keys, j \in Jobs, rank \in Ranks : CreateJob(k, j, rank)
       \/ \E j \in Jobs : CancelJob(j)
    /\ UNCHANGED <<agentVars, netVars>>

Aside == req = Idle /\ UNCHANGED <<db, tx, req>>

AgentAlone(w) == Aside /\ AgentStep(w) /\ UNCHANGED netVars
JobAlone(w)   == Aside /\ JobStep(w) /\ UNCHANGED netVars
Post(w)       == Aside /\ PostSync(w)

\* An agent is installed with the identity of a registered worker.
Start(w) ==
    /\ Aside
    /\ db.worker[w] # "absent"
    /\ StartAgent(w)
    /\ UNCHANGED netVars

Faults(w) ==
    /\ Aside
    /\ \/ TimeOut(w)
       \/ Fault("crash") /\ Crash(w) /\ Abandon(w) /\ UNCHANGED call
       \/ Fault("reboot") /\ Reboot(w) /\ Abandon(w) /\ UNCHANGED call

Server ==
    \/ \E r \in wire : Serve(r)
    \/ RecordNext \/ RefuseNext
    \/ StartOffers
    \/ \E j \in Jobs : Offer(j)
    \/ Reply

SyncNext ==
    \/ Operate
    \/ \E w \in Workers : AgentAlone(w) \/ JobAlone(w) \/ Post(w) \/ Start(w) \/ Faults(w)
    \/ Server
    \/ ServerFault

SyncSpec == SyncInit /\ [][SyncNext]_sysVars

\* The agent's loop, the server and the supervisors keep going; a grace period
\* passes.  Nothing makes a job end, an operator act or a fault happen.  What
\* happens on a worker's machine does not wait for the server's transactions, as
\* Aside makes it, so its fairness is strong: to be possible between any two
\* syncs is enough.
Fairness ==
    /\ \A w \in Workers :
          /\ WF_sysVars(AgentAlone(w))
          /\ WF_sysVars(Post(w))
          /\ WF_sysVars(Start(w))
          /\ SF_sysVars(Aside /\ UNCHANGED netVars
                           /\ \E p \in DOMAIN procs[w] : SupervisorExits(w, p))
          /\ SF_sysVars(Aside /\ UNCHANGED netVars
                           /\ \E a \in DOMAIN store[w].cmds : GracePasses(w, a))
    /\ WF_sysVars(Server)

FairSyncSpec == SyncSpec /\ Fairness

\* And every job ends by itself.
JobsEnd ==
    \A w \in Workers :
        SF_sysVars(Aside /\ UNCHANGED netVars
                     /\ \E p \in DOMAIN procs[w], status \in {"ok", "bad"} :
                            ReportStatus(w, p, status))

FairEndingSpec == FairSyncSpec /\ JobsEnd

---------------------------------------------------------------------------
(* Properties *)

SyncTypeOK ==
    /\ TypeOK
    /\ AgentTypeOK
    /\ \A r \in wire : /\ r.worker \in Workers /\ r.session \in Sessions
                       /\ \A i \in DOMAIN r.events : r.events[i] \in Events
    /\ call.live \in BOOLEAN

AttemptRow(a) == db.job[a[1]].attempts[a[2]]
HasRow(a) == a[2] \in DOMAIN db.job[a[1]].attempts

\* No event is lost, whatever is retried, given up or restarted: what a worker
\* ever enqueued is in its outbox until the control plane has committed it
\* (Acknowledge deletes, SyncWorker commits before it answers).
EventsNeverLost ==
    \A w \in Workers : \A n \in 1 .. store[w].next - 1 :
        \/ \E i \in DOMAIN store[w].outbox : store[w].outbox[i].seq = n
        \/ \E r \in db.events : r.id = <<w, n>>

\* The control plane learns a worker's events in the order they happened and
\* without a gap, so MAX(sequence) acknowledges nothing it has not recorded.
RecordedInOrder ==
    \A w \in Workers :
        LET known == {r.seq : r \in {q \in db.events : q.worker = w}}
        IN  known = 1 .. Cardinality(known)

\* The samples of an attempt are its readable metric lines, each once and in the
\* order of the file, up to some point (ingestMetrics, the outbox and the event
\* table each resume after a failure): `line` says which line a sample is.
SamplesFaithful ==
    \A a \in AttemptIds : HasRow(a) =>
        LET lines    == files[AttemptRow(a).worker][a].lines
            samples  == db.job[a[1]].samples
            readable == {l \in DOMAIN lines : lines[l] # Unreadable}
            mine     == {i \in DOMAIN samples : samples[i].attempt = a[2]}
        IN  \E line \in [mine -> readable] :
               /\ \A i \in mine : samples[i].point = lines[line[i]]
               /\ \A i, k \in mine : i < k => line[i] < line[k]
               /\ \A i \in mine, l \in readable :
                     l < line[i] => \E k \in mine : line[k] = l

\* A job is only reported as succeeded if its process recorded exit code 0.
NoFalseSuccess ==
    \A a \in AttemptIds : HasRow(a) /\ AttemptRow(a).state = "succeeded"
        => files[AttemptRow(a).worker][a].status = "ok"

\* Once the control plane shows an attempt as ended, and may give its slot or its
\* GPU to another job, no process of it runs any more.
EndedMeansStopped ==
    \A w \in Workers : \A p \in DOMAIN procs[w] :
        LET a == procs[w][p].attempt
        IN  HasRow(a) /\ AttemptRow(a).state \in Ended => procs[w][p].st # "running"

\* A worker never runs more jobs than its parallelism, although offers, launches
\* and reports are a sync apart.
WorkerNotOverloaded ==
    \A w \in Workers :
        Cardinality({p \in DOMAIN procs[w] : procs[w][p].st = "running"})
            <= WithDefaults(Capacity[w]).maxParallel

\* The control plane can record every event a worker waits for it to record: the
\* next event of its sync is new and applies, or is one it already has.
SyncNeverRefused ==
    call.live /\ req.phase = "events" /\ call.rest # << >> =>
        CanRecord(tx, req.worker, req.session, Head(call.rest))

\* A command that is sent again is the command that was stored.
CommandsRepeatable ==
    \A w \in Workers :
        At(w, "accept") => ~CommandsChanged(store[w], agent[w].inbox.run)

\* An instance in which agents and machines are not restarted: the hypothesis of the
\* theorems about executions.
NoRestarts ==
    /\ {"crash", "reboot"} \subseteq DOMAIN Budget
    /\ Budget["crash"] = 0 /\ Budget["reboot"] = 0

\* An attempt is one execution as long as its agent lives: syncs that are lost,
\* repeated or fail never make the agent start it a second time.
OneExecution ==
    \A w \in Workers : \A p, q \in DOMAIN procs[w] :
        procs[w][p].attempt = procs[w][q].attempt => p = q

\* The exit code a supervisor recorded is the one the control plane shows: an
\* attempt that failed did not exit with 0.
ExitCodeReported ==
    \A a \in AttemptIds : HasRow(a) /\ AttemptRow(a).state = "failed"
        => files[AttemptRow(a).worker][a].status # "ok"

\* An attempt that ended has all the artifacts its process completed, whatever the
\* sweeps before announced, and none that it did not (collectArtifacts runs after
\* the process ended).
ArtifactsComplete ==
    \A a \in AttemptIds : HasRow(a) =>
        LET outputs == files[AttemptRow(a).worker][a].outputs
        IN  /\ AttemptRow(a).files \subseteq outputs
            /\ AttemptRow(a).state \in Ended => AttemptRow(a).files = outputs

\* A cancellation is carried out, even for a job that ignores SIGTERM.
CancelCompletes ==
    \A j \in Jobs : db.job[j].state = "canceling" ~> db.job[j].state = "canceled"

\* A job that is submitted ends, within its retries, once there is a worker it
\* fits and if its processes end, although syncs are lost, repeated and fail.
JobsComplete ==
    \A j \in Jobs :
        db.job[j].state = "queued" /\ (\E w \in Workers : db.worker[w] # "absent")
            ~> db.job[j].state \in Ended

\* An outbox never stays full: everything a worker has to say is accepted and
\* acknowledged in the end.
OutboxDrains ==
    \A w \in Workers : store[w].outbox # << >> ~> store[w].outbox = << >>
=============================================================================
