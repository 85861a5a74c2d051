------------------------------- MODULE HealthHooks -------------------------------
(* Health policies and webhook delivery: the automation loop of the control     *)
(* plane (src/internal/automation/runner.go) and the tables it works on          *)
(* (src/internal/store/sqlite/health.go).                                        *)
(*                                                                               *)
(* One goroutine evaluates the policies of the running attempts, lists the       *)
(* deliveries that are due and posts them, one after the other.  It reads with   *)
(* plain queries and writes in short transactions; attempts start, report and    *)
(* end between any two of them.  Times are the ticks of Timestamps; the clock     *)
(* goes from one of the Moments to the next and stops at the last, Horizon, a     *)
(* bound of the model: what falls due later falls due then.                      *)
EXTENDS Timestamps, FiniteSets, FiniteSetsExt

CONSTANTS
    Attempts,
    Policies,       \* index -> [kind, window, mode, delta], the job's health array
    Values,         \* metric values
    MaxTries,       \* maxWebhookAttempts, 10 in the code
    DueLimit,       \* deliveries listed per cycle, 20 in the code
    Base, Cap,      \* first and longest backoff, 5 s and 1 h in the code
    Moments,        \* bound: what the clock shows, ending with Horizon
    Horizon,
    MaxSamples,     \* bound: samples of an attempt
    MaxCrashes      \* bound: restarts of the control plane

Indices == DOMAIN Policies
Kinds   == {"periodic", "metric_stalled", "finished"}

\* JobSpec.Validate: a window is a second at least (ten in the code), a delta is
\* not negative.
ASSUME PolicyAssumption ==
    /\ \A i \in Indices :
           /\ Policies[i].kind \in Kinds
           /\ Policies[i].window \in Nat /\ Policies[i].window >= Second
           /\ Policies[i].delta \in Nat
           /\ Policies[i].mode \in {"max", "min"}
    /\ Values \subseteq Int
    /\ MaxTries \in Nat \ {0} /\ Base \in Nat \ {0} /\ Cap \in Nat \ {0}
    /\ DueLimit \in Nat \ {0} /\ Horizon \in Nat
    /\ Moments \subseteq 0 .. Horizon /\ Horizon \in Moments
    /\ MaxSamples \in Nat /\ MaxCrashes \in Nat

VARIABLES
    clock,
    attempt,    \* Attempts -> [state, started]
    samples,    \* Attempts -> set of [at, value]
    delivery,   \* Firings -> [state, tries, next]: a firing and its delivery row
    runner,     \* [pc, now, todo, pick, due, ok]: the goroutine, lost in a crash
    got,        \* Firings -> notifications the receiver accepted
    crashes

vars == <<clock, attempt, samples, delivery, runner, got, crashes>>

\* health_firings is unique in attempt, policy and key; the key is the number of
\* the interval of a periodic policy and nothing (0) for the other kinds.
FiringKeys == 0 .. SecondOf(Horizon)
Firings ==
    {f \in [attempt : Attempts, policy : Indices, key : FiringKeys] :
        f.key >= 1 <=> Policies[f.policy].kind = "periodic"}

Nothing == [attempt |-> "none", policy |-> 0, key |-> 0]

Resting == [pc |-> "idle", now |-> 0, todo |-> {}, pick |-> Nothing, due |-> {}, ok |-> FALSE]

NoDelivery == [state |-> "none", tries |-> 0, next |-> 0]

Pcs == {"idle", "judge", "fire", "list", "post", "record"}

TypeOK ==
    /\ clock \in 0 .. Horizon
    /\ attempt \in [Attempts -> [state : {"waiting", "running", "canceling", "ended"},
                                 started : 0 .. Horizon]]
    /\ samples \in [Attempts -> SUBSET [at : 0 .. Horizon, value : Values]]
    /\ delivery \in [Firings -> [state : {"none", "pending", "delivered", "dead"},
                                 tries : Nat, next : 0 .. Horizon]]
    /\ runner \in [pc : Pcs, now : 0 .. Horizon, todo : SUBSET (Attempts \X Indices),
                   pick : Firings \cup {Nothing}, due : SUBSET Firings, ok : BOOLEAN]
    /\ runner.pc \in {"fire", "record"} => runner.pick \in Firings
    /\ got \in [Firings -> Nat]
    /\ crashes \in 0 .. MaxCrashes

Init ==
    /\ clock \in Moments /\ \A m \in Moments : clock <= m
    /\ attempt = [a \in Attempts |-> [state |-> "waiting", started |-> 0]]
    /\ samples = [a \in Attempts |-> {}]
    /\ delivery = [f \in Firings |-> NoDelivery]
    /\ runner = Resting
    /\ got = [f \in Firings |-> 0]
    /\ crashes = 0

---------------------------------------------------------------------------
(* The rest of the control plane *)

Tick ==
    /\ clock' \in Moments
    /\ clock < clock' /\ \A m \in Moments : clock < m => clock' <= m
    /\ UNCHANGED <<attempt, samples, delivery, runner, got, crashes>>

StartAttempt(a) ==
    /\ attempt[a].state = "waiting"
    /\ attempt' = [attempt EXCEPT ![a] = [state |-> "running", started |-> clock]]
    /\ UNCHANGED <<clock, samples, delivery, runner, got, crashes>>

\* A sample of the policy's metric is recorded.
Observe(a, value) ==
    /\ attempt[a].state \in {"running", "canceling"}
    /\ Cardinality(samples[a]) < MaxSamples
    /\ samples' = [samples EXCEPT ![a] = @ \cup {[at |-> clock, value |-> value]}]
    /\ UNCHANGED <<clock, attempt, delivery, runner, got, crashes>>

\* The job of a running attempt starts to be canceled.
CancelAttempt(a) ==
    /\ attempt[a].state = "running"
    /\ attempt' = [attempt EXCEPT ![a].state = "canceling"]
    /\ UNCHANGED <<clock, samples, delivery, runner, got, crashes>>

FinishedFirings(a) ==
    {f \in Firings : f.attempt = a /\ Policies[f.policy].kind = "finished"}

\* fireHealthPolicyTx: a firing that exists is left alone, a new one gets its
\* delivery row in the same transaction.
Fired(firings, now) ==
    [f \in Firings |->
        IF f \in firings /\ delivery[f].state = "none"
        THEN [state |-> "pending", tries |-> 0, next |-> now] ELSE delivery[f]]

\* A mutant: the finished policies do not fire for an attempt that never started.
FinishAttempt_ifStarted(a) ==
    /\ attempt[a].state # "ended"
    /\ attempt' = [attempt EXCEPT ![a].state = "ended"]
    /\ delivery' = IF attempt[a].state = "waiting" THEN delivery
                   ELSE Fired(FinishedFirings(a), clock)
    /\ UNCHANGED <<clock, samples, runner, got, crashes>>

\* applyWorkerEvent ends the attempt and fires its finished policies at once.
FinishAttempt(a) ==
    /\ attempt[a].state # "ended"
    /\ attempt' = [attempt EXCEPT ![a].state = "ended"]
    /\ delivery' = Fired(FinishedFirings(a), clock)
    /\ UNCHANGED <<clock, samples, runner, got, crashes>>

---------------------------------------------------------------------------
(* EvaluateHealthPolicies *)

\* The candidates: attempts that run, of jobs that run, read once per cycle.
Evaluate ==
    /\ runner.pc = "idle"
    /\ runner' = [runner EXCEPT
          !.pc = "judge", !.now = clock,
          !.todo = {a \in Attempts : attempt[a].state = "running"} \X Indices]
    /\ UNCHANGED <<clock, attempt, samples, delivery, got, crashes>>

\* A mutant: an interval counts as soon as it has begun.
Bucket_begun(a, i, now) == (now - attempt[a].started) \div Policies[i].window + 1

Bucket(a, i, now) == (now - attempt[a].started) \div Policies[i].window

\* metricStalled: within the window the best value is less than `delta` better
\* than the oldest one, and there are two at least.  Samples of the same moment
\* are sorted either way.
Stalled(observed, mode, delta) ==
    /\ Cardinality(observed) >= 2
    /\ \E first \in observed :
          /\ \A s \in observed : first.at <= s.at
          /\ \A s \in observed :
                (IF mode = "max" THEN s.value - first.value ELSE first.value - s.value) < delta

\* The policy decides to fire and this is its key.
Wants(a, i, key) ==
    \/ /\ Policies[i].kind = "periodic"
       /\ key = Bucket(a, i, runner.now)
       /\ key >= 1
    \/ /\ Policies[i].kind = "metric_stalled"
       /\ key = 0
       /\ runner.now - attempt[a].started >= Policies[i].window
       /\ Stalled({s \in samples[a] : s.at >= runner.now - Policies[i].window},
                  Policies[i].mode, Policies[i].delta)

Judge(a, i) ==
    /\ runner.pc = "judge"
    /\ <<a, i>> \in runner.todo
    /\ \/ \E key \in FiringKeys :
             /\ Wants(a, i, key)
             /\ runner' = [runner EXCEPT
                              !.pc = "fire", !.todo = @ \ {<<a, i>>},
                              !.pick = [attempt |-> a, policy |-> i, key |-> key]]
       \/ /\ \A key \in FiringKeys : ~Wants(a, i, key)
          /\ runner' = [runner EXCEPT !.todo = @ \ {<<a, i>>}]
    /\ UNCHANGED <<clock, attempt, samples, delivery, got, crashes>>

\* fireHealthPolicy: a transaction of its own.  The target was configured before
\* the job was accepted and nothing removes one.
Fire ==
    /\ runner.pc = "fire"
    /\ delivery' = Fired({runner.pick}, runner.now)
    /\ runner' = [runner EXCEPT !.pc = "judge", !.pick = Nothing]
    /\ UNCHANGED <<clock, attempt, samples, got, crashes>>

Evaluated ==
    /\ runner.pc = "judge" /\ runner.todo = {}
    /\ runner' = [runner EXCEPT !.pc = "list", !.now = 0]
    /\ UNCHANGED <<clock, attempt, samples, delivery, got, crashes>>

---------------------------------------------------------------------------
(* Delivery *)

\* A mutant: deliveries are listed before they are due.
IsDue_anytime(f) == delivery[f].state = "pending"

\* next_attempt_at is compared as it was written: within one second its order is
\* not the order of time, so a delivery may be found due a fraction too early or
\* too late.
IsDue(f) ==
    /\ delivery[f].state = "pending"
    /\ NotAfter(formatTime(delivery[f].next), formatTime(clock))

\* DueWebhookDeliveries: the longest due come first, again by what was written.
ListDue ==
    LET all == {f \in Firings : IsDue(f)}
    IN  /\ runner.pc = "list"
        /\ \E due \in SUBSET all :
              /\ Cardinality(due) = IF Cardinality(all) < DueLimit
                                    THEN Cardinality(all) ELSE DueLimit
              /\ \A f \in due, g \in all \ due :
                    NotAfter(formatTime(delivery[f].next), formatTime(delivery[g].next))
              /\ runner' = [runner EXCEPT !.pc = "post", !.due = due]
        /\ UNCHANGED <<clock, attempt, samples, delivery, got, crashes>>

\* deliver: the receiver may accept the notification and its answer still be
\* lost; an answer outside 2xx is a failure.
Post(f) ==
    /\ runner.pc = "post" /\ f \in runner.due
    /\ \E ok, accepted \in BOOLEAN :
          /\ ok => accepted
          /\ got' = IF accepted THEN [got EXCEPT ![f] = @ + 1] ELSE got
          /\ runner' = [runner EXCEPT !.pc = "record", !.pick = f, !.ok = ok,
                                      !.due = @ \ {f}]
    /\ UNCHANGED <<clock, attempt, samples, delivery, crashes>>

Later(n) == IF clock + n < Horizon THEN clock + n ELSE Horizon

\* 5 s doubled with every failure, at most an hour.
Backoff(tries) ==
    LET doubled == Base * 2 ^ (tries - 1)
    IN  IF doubled \in 1 .. Cap THEN doubled ELSE Cap

\* A mutant: whatever the receiver answered is a delivery.
Result_anyAnswer(row, ok) ==
    [row EXCEPT !.state = "delivered", !.tries = @ + 1]

\* A mutant: one attempt too many.
Result_oneMore(row, ok) ==
    IF ok THEN [row EXCEPT !.state = "delivered", !.tries = @ + 1]
    ELSE [state |-> IF row.tries + 1 > MaxTries THEN "dead" ELSE "pending",
          tries |-> row.tries + 1, next |-> Later(Backoff(row.tries + 1))]

\* A mutant: failures are not counted, so nothing is ever given up.
Result_uncounted(row, ok) ==
    IF ok THEN [row EXCEPT !.state = "delivered", !.tries = @ + 1]
    ELSE [row EXCEPT !.next = Later(Backoff(1))]

\* A mutant: a delivery that is given up gets a state nothing else knows.
Result_failed(row, ok) ==
    IF ok THEN [row EXCEPT !.state = "delivered", !.tries = @ + 1]
    ELSE [state |-> IF row.tries + 1 >= MaxTries THEN "failed" ELSE "pending",
          tries |-> row.tries + 1, next |-> Later(Backoff(row.tries + 1))]

\* RecordWebhookResult
Result(row, ok) ==
    IF ok THEN [row EXCEPT !.state = "delivered", !.tries = @ + 1]
    ELSE [state |-> IF row.tries + 1 >= MaxTries THEN "dead" ELSE "pending",
          tries |-> row.tries + 1, next |-> Later(Backoff(row.tries + 1))]

Record ==
    /\ runner.pc = "record"
    /\ delivery' = IF delivery[runner.pick].state = "pending"
                   THEN [delivery EXCEPT ![runner.pick] = Result(@, runner.ok)]
                   ELSE delivery
    /\ runner' = [runner EXCEPT !.pc = "post", !.pick = Nothing, !.ok = FALSE]
    /\ UNCHANGED <<clock, attempt, samples, got, crashes>>

CycleDone ==
    /\ runner.pc = "post" /\ runner.due = {}
    /\ runner' = Resting
    /\ UNCHANGED <<clock, attempt, samples, delivery, got, crashes>>

\* The control plane stops, or a query fails and the cycle with it: the next one
\* starts over.
Crash ==
    /\ crashes < MaxCrashes
    /\ crashes' = crashes + 1
    /\ runner' = Resting
    /\ UNCHANGED <<clock, attempt, samples, delivery, got>>

---------------------------------------------------------------------------
Outside ==
    \/ Tick
    \/ \E a \in Attempts : StartAttempt(a) \/ CancelAttempt(a) \/ FinishAttempt(a)
    \/ \E a \in Attempts, v \in Values : Observe(a, v)
    \/ Crash

Runner ==
    \/ Evaluate
    \/ \E a \in Attempts, i \in Indices : Judge(a, i)
    \/ Fire \/ Evaluated \/ ListDue
    \/ \E f \in Firings : Post(f)
    \/ Record \/ CycleDone

Next == Outside \/ Runner

Spec == Init /\ [][Next]_vars

\* The ticker keeps the loop going and time passes.
FairSpec == Spec /\ WF_vars(Runner) /\ WF_vars(Tick)

---------------------------------------------------------------------------
(* Properties *)

KindOf(f) == Policies[f.policy].kind

\* Nothing is marked delivered that the receiver did not accept (Post and Record
\* are two steps with a crash between them).
DeliveredWasAccepted ==
    \A f \in Firings : delivery[f].state = "delivered" => got[f] > 0

\* A delivery is given up after exactly MaxTries failures and never earlier
\* ("become visible as `dead` after ten attempts").
DeadGaveUp ==
    \A f \in Firings :
        /\ delivery[f].state = "dead" => delivery[f].tries = MaxTries
        /\ delivery[f].state = "pending" => delivery[f].tries < MaxTries

\* The receiver sees a notification more often than the delivery counts only
\* because of a crash between the request and its record, or because a request is
\* on its way.
RepeatsExplained ==
    \A f \in Firings :
        got[f] <= delivery[f].tries + crashes
                    + IF runner.pc = "record" /\ runner.pick = f THEN 1 ELSE 0

\* No delivery is attempted in a second before the one its backoff ends in, although
\* due times are compared as trimmed strings and the list a delivery is taken from
\* is as old as the requests before it.
NeverEarly ==
    /\ runner.pc \in {"post", "record"} =>
          \A f \in runner.due : SecondOf(delivery[f].next) <= SecondOf(clock)
    /\ runner.pc = "record" => SecondOf(delivery[runner.pick].next) <= SecondOf(clock)

\* Firings are deserved: a periodic one names an interval that has passed in full,
\* a stalled one comes after a whole window with two samples.
FiringsDeserved ==
    \A f \in Firings : delivery[f].state # "none" =>
        LET a == attempt[f.attempt]
            window == Policies[f.policy].window
        IN  /\ KindOf(f) = "periodic" =>
                  a.state # "waiting" /\ a.started + f.key * window <= clock
            /\ KindOf(f) = "metric_stalled" =>
                  /\ a.state # "waiting" /\ a.started + window <= clock
                  /\ Cardinality(samples[f.attempt]) >= 2

\* An attempt that ended, however, has told so, and no other attempt has.
FinishedTold ==
    \A f \in Firings :
        KindOf(f) = "finished" =>
            (delivery[f].state # "none" <=> attempt[f.attempt].state = "ended")

\* A notification is delivered or given up in the end, across restarts.
DeliveriesSettle ==
    \A f \in Firings :
        delivery[f].state = "pending" ~> delivery[f].state \in {"delivered", "dead"}
=============================================================================
