---------------------------- MODULE HealthHooksProofs ----------------------------
(* What the automation loop keeps true for any number of attempts, policies,    *)
(* deliveries and restarts, whatever the receiver answers.                       *)
EXTENDS HealthHooks, TimestampsProofs, FiniteSetTheorems

Runners == [pc : Pcs, now : 0 .. Horizon, todo : SUBSET (Attempts \X Indices),
            pick : Firings \cup {Nothing}, due : SUBSET Firings, ok : BOOLEAN]

Rows == [state : {"none", "pending", "delivered", "dead"}, tries : Nat, next : 0 .. Horizon]

\* What a listed delivery is between the query and its record: pending, and
\* listed once.
ListedPending ==
    /\ runner.pc \in {"post", "record"} =>
          \A f \in runner.due : delivery[f].state = "pending"
    /\ runner.pc = "record" =>
          /\ delivery[runner.pick].state = "pending"
          /\ runner.pick \notin runner.due
          /\ runner.ok => got[runner.pick] > 0

DeliveryInv ==
    /\ TypeOK
    /\ ListedPending
    /\ NeverEarly
    /\ DeliveredWasAccepted
    /\ DeadGaveUp

\* The rows RecordWebhookResult writes are rows: a failure moves the next attempt
\* by the backoff, a success only counts.
LEMMA ResultType ==
    ASSUME clock \in 0 .. Horizon, NEW row \in Rows, NEW ok \in BOOLEAN
    PROVE  /\ Result(row, ok) \in Rows
           /\ Result(row, ok).tries = row.tries + 1
           /\ Result(row, ok).state = IF ok THEN "delivered"
                                      ELSE IF row.tries + 1 >= MaxTries THEN "dead"
                                      ELSE "pending"
<1>1. row.tries \in Nat /\ row.tries + 1 \in Nat /\ row.next \in 0 .. Horizon
  BY DEF Rows
<1>2. Backoff(row.tries + 1) \in Nat
  BY PolicyAssumption DEF Backoff
<1>3. Later(Backoff(row.tries + 1)) \in 0 .. Horizon
  <2>1. ASSUME NEW n \in Nat PROVE Later(n) \in 0 .. Horizon
    BY PolicyAssumption DEF Later
  <2> QED BY <1>2, <2>1
<1>4. CASE ok
  BY <1>1, <1>4 DEF Result, Rows
<1>5. CASE ~ok
  <2> DEFINE next == Later(Backoff(row.tries + 1))
  <2>1. Result(row, ok) =
           [state |-> IF row.tries + 1 >= MaxTries THEN "dead" ELSE "pending",
            tries |-> row.tries + 1, next |-> next]
    BY <1>5 DEF Result
  <2> HIDE DEF next
  <2> QED BY <1>1, <1>3, <1>5, <2>1 DEF Rows, next
<1> QED BY <1>4, <1>5

\* A firing only ever adds pending rows, due at once.
LEMMA FiredType ==
    ASSUME TypeOK, NEW firings, NEW now \in 0 .. Horizon
    PROVE  /\ Fired(firings, now) \in [Firings -> Rows]
           /\ \A f \in Firings :
                 \/ Fired(firings, now)[f] = delivery[f]
                 \/ /\ delivery[f].state = "none"
                    /\ Fired(firings, now)[f]
                           = [state |-> "pending", tries |-> 0, next |-> now]
BY DEF TypeOK, Fired, Rows

LEMMA DeliveryInit == Init => DeliveryInv
BY PolicyAssumption
   DEF Init, DeliveryInv, TypeOK, ListedPending, NeverEarly, DeliveredWasAccepted,
       DeadGaveUp, NoDelivery, Resting, Pcs, Nothing

\* Steps outside the loop leave the runner where it is, except for a crash, and
\* only add firings.
LEMMA OutsideKeeps == DeliveryInv /\ Outside => DeliveryInv'
<1> SUFFICES ASSUME DeliveryInv, Outside PROVE DeliveryInv'
  OBVIOUS
<1> USE DEF DeliveryInv
<1>1. CASE Tick
  <2>1. clock' \in 0 .. Horizon /\ clock' > clock
    BY <1>1, PolicyAssumption DEF Tick, TypeOK
  <2>2. TypeOK'
    BY <1>1, <2>1 DEF Tick, TypeOK
  <2>3. NeverEarly'
    <3>1. SecondOf(clock) <= SecondOf(clock')
      BY <2>1, SecondsGrow DEF TypeOK
    <3>2. SecondOf(clock) \in Nat /\ SecondOf(clock') \in Nat
      BY <2>1, Parts DEF TypeOK
    <3>3. \A f \in Firings : SecondOf(delivery[f].next) \in Nat
      BY Parts DEF TypeOK
    <3> HIDE DEF DeliveryInv
    <3>4. ASSUME NEW f \in Firings, SecondOf(delivery[f].next) <= SecondOf(clock)
          PROVE  SecondOf(delivery[f].next) <= SecondOf(clock')
      BY <3>1, <3>2, <3>3, <3>4
    <3>5. /\ delivery' = delivery /\ runner' = runner /\ runner.due \subseteq Firings
          /\ runner.pc = "record" => runner.pick \in Firings
      BY <1>1 DEF Tick, TypeOK, DeliveryInv
    <3> QED BY <3>4, <3>5 DEF NeverEarly, DeliveryInv
  <2> QED BY <1>1, <2>2, <2>3
          DEF Tick, ListedPending, DeliveredWasAccepted, DeadGaveUp
<1>2. ASSUME NEW a \in Attempts, StartAttempt(a) PROVE DeliveryInv'
  BY <1>2 DEF StartAttempt, TypeOK, ListedPending, NeverEarly, DeliveredWasAccepted, DeadGaveUp
<1>3. ASSUME NEW a \in Attempts, CancelAttempt(a) PROVE DeliveryInv'
  BY <1>3 DEF CancelAttempt, TypeOK, ListedPending, NeverEarly, DeliveredWasAccepted, DeadGaveUp
<1>4. ASSUME NEW a \in Attempts, FinishAttempt(a) PROVE DeliveryInv'
  <2>1. clock \in 0 .. Horizon
    BY DEF TypeOK
  <2>2. /\ delivery' \in [Firings -> Rows]
        /\ \A f \in Firings :
              \/ delivery'[f] = delivery[f]
              \/ /\ delivery[f].state = "none"
                 /\ delivery'[f] = [state |-> "pending", tries |-> 0, next |-> clock]
    BY <1>4, <2>1, FiredType DEF FinishAttempt
  <2>3. TypeOK'
    BY <1>4, <2>2 DEF FinishAttempt, TypeOK, Rows
  <2>4. ListedPending' /\ NeverEarly'
    BY SMTT(30), <1>4, <2>2 DEF FinishAttempt, TypeOK, ListedPending, NeverEarly
  <2>5. DeliveredWasAccepted' /\ DeadGaveUp'
    BY <1>4, <2>2, PolicyAssumption DEF FinishAttempt, DeliveredWasAccepted, DeadGaveUp
  <2> QED BY <2>3, <2>4, <2>5
<1>5. ASSUME NEW a \in Attempts, NEW v \in Values, Observe(a, v) PROVE DeliveryInv'
  BY <1>5 DEF Observe, TypeOK, ListedPending, NeverEarly, DeliveredWasAccepted, DeadGaveUp
<1>6. CASE Crash
  <2>1. TypeOK'
    BY <1>6, PolicyAssumption DEF Crash, TypeOK, Resting, Pcs
  <2> QED BY <1>6, <2>1
          DEF Crash, Resting, ListedPending, NeverEarly, DeliveredWasAccepted, DeadGaveUp
<1> QED BY <1>1, <1>2, <1>3, <1>4, <1>5, <1>6 DEF Outside

\* Evaluation works on the list of candidates and adds firings.
LEMMA EvaluationKeeps ==
    ASSUME DeliveryInv,
           Evaluate \/ (\E a \in Attempts, i \in Indices : Judge(a, i)) \/ Fire \/ Evaluated
    PROVE  DeliveryInv'
<1> USE DEF DeliveryInv
<1>1. CASE Evaluate
  <2>1. TypeOK'
    BY <1>1 DEF Evaluate, TypeOK, Pcs
  <2> QED BY <1>1, <2>1
          DEF Evaluate, TypeOK, ListedPending, NeverEarly, DeliveredWasAccepted, DeadGaveUp
<1>2. ASSUME NEW a \in Attempts, NEW i \in Indices, Judge(a, i) PROVE DeliveryInv'
  <2>1. \/ runner' = [runner EXCEPT !.todo = @ \ {<<a, i>>}]
        \/ \E key \in FiringKeys :
              /\ Wants(a, i, key)
              /\ runner' = [runner EXCEPT !.pc = "fire", !.todo = @ \ {<<a, i>>},
                                !.pick = [attempt |-> a, policy |-> i, key |-> key]]
    BY <1>2 DEF Judge
  <2>2. TypeOK'
    <3>1. \A key \in FiringKeys :
             Wants(a, i, key) => [attempt |-> a, policy |-> i, key |-> key] \in Firings
      <4>1. ASSUME NEW key \in FiringKeys, Wants(a, i, key)
            PROVE  key >= 1 <=> Policies[i].kind = "periodic"
        BY <4>1 DEF Wants
      <4> QED BY <4>1 DEF Firings
    <3>2. runner \in Runners
      BY DEF TypeOK, Runners
    <3>3. runner' \in Runners /\ (runner'.pc \in {"fire", "record"} => runner'.pick \in Firings)
      <4>1. CASE runner' = [runner EXCEPT !.todo = @ \ {<<a, i>>}]
        BY <1>2, <3>2, <4>1 DEF Judge, Runners, Pcs
      <4>2. ASSUME NEW key \in FiringKeys, Wants(a, i, key),
                   runner' = [runner EXCEPT !.pc = "fire", !.todo = @ \ {<<a, i>>},
                                 !.pick = [attempt |-> a, policy |-> i, key |-> key]]
            PROVE  runner' \in Runners /\ runner'.pick \in Firings
        <5> DEFINE f == [attempt |-> a, policy |-> i, key |-> key]
        <5>1. f \in Firings
          BY <3>1, <4>2
        <5> HIDE DEF f
        <5>2. runner' = [runner EXCEPT !.pc = "fire", !.todo = @ \ {<<a, i>>}, !.pick = f]
          BY <4>2 DEF f
        <5> QED BY <3>2, <5>1, <5>2 DEF Runners, Pcs
      <4> QED BY <2>1, <4>1, <4>2
    <3> QED BY <1>2, <3>3 DEF Judge, TypeOK, Runners
  <2>3. runner.pc = "judge" /\ runner'.pc \in {"judge", "fire"}
    BY <1>2, <2>1 DEF Judge, TypeOK
  <2> QED BY <1>2, <2>2, <2>3
          DEF Judge, ListedPending, NeverEarly, DeliveredWasAccepted, DeadGaveUp
<1>3. CASE Fire
  <2>1. runner.now \in 0 .. Horizon
    BY DEF TypeOK
  <2>2. /\ delivery' \in [Firings -> Rows]
        /\ \A f \in Firings :
              \/ delivery'[f] = delivery[f]
              \/ /\ delivery[f].state = "none"
                 /\ delivery'[f] = [state |-> "pending", tries |-> 0, next |-> runner.now]
    BY <1>3, <2>1, FiredType DEF Fire
  <2>3. TypeOK'
    BY <1>3, <2>2 DEF Fire, TypeOK, Rows, Pcs
  <2>4. ListedPending' /\ NeverEarly'
    BY <1>3 DEF Fire, TypeOK, ListedPending, NeverEarly
  <2>5. got' = got
    BY <1>3 DEF Fire
  <2>6. \A g \in Firings :
           \/ /\ delivery'[g].state = delivery[g].state
              /\ delivery'[g].tries = delivery[g].tries
           \/ delivery'[g].state = "pending" /\ delivery'[g].tries = 0
    BY <2>2
  <2>7. DeliveredWasAccepted'
    BY <2>5, <2>6 DEF DeliveredWasAccepted
  <2>8. DeadGaveUp'
    BY <2>6, PolicyAssumption DEF DeadGaveUp
  <2> QED BY <2>3, <2>4, <2>7, <2>8
<1>4. CASE Evaluated
  <2>0. 0 \in 0 .. Horizon /\ runner \in Runners
    BY PolicyAssumption DEF TypeOK, Runners
  <2>1. TypeOK'
    BY <1>4, <2>0 DEF Evaluated, TypeOK, Runners, Pcs
  <2> QED BY <1>4, <2>1
          DEF Evaluated, TypeOK, ListedPending, NeverEarly, DeliveredWasAccepted, DeadGaveUp
<1> QED BY <1>1, <1>2, <1>3, <1>4

\* Delivery takes what is due, asks the receiver and records the answer.
LEMMA DeliveryKeeps ==
    ASSUME DeliveryInv, ListDue \/ (\E f \in Firings : Post(f)) \/ Record \/ CycleDone
    PROVE  DeliveryInv'
<1> USE DEF DeliveryInv
<1>1. CASE ListDue
  <2>1. PICK due \in SUBSET {f \in Firings : IsDue(f)} :
           runner' = [runner EXCEPT !.pc = "post", !.due = due]
    BY <1>1 DEF ListDue
  <2>2. TypeOK'
    BY <1>1, <2>1 DEF ListDue, TypeOK, Pcs
  <2>3. \A f \in due : delivery[f].state = "pending"
    BY DEF IsDue
  <2>4. \A f \in due : SecondOf(delivery[f].next) <= SecondOf(clock)
    <3> SUFFICES ASSUME NEW f \in due PROVE SecondOf(delivery[f].next) <= SecondOf(clock)
      OBVIOUS
    <3>1. NotAfter(formatTime(delivery[f].next), formatTime(clock))
      BY DEF IsDue
    <3>2. delivery[f].next \in Nat /\ clock \in Nat
      BY DEF TypeOK
    <3> QED BY <3>1, <3>2, TrimmedOrderBySeconds
  <2>5. /\ runner'.due = due /\ runner'.pc = "post"
        /\ delivery' = delivery /\ clock' = clock /\ got' = got
    BY <1>1, <2>1 DEF ListDue, TypeOK
  <2> QED BY <2>2, <2>3, <2>4, <2>5
          DEF ListedPending, NeverEarly, DeliveredWasAccepted, DeadGaveUp
<1>2. ASSUME NEW f \in Firings, Post(f) PROVE DeliveryInv'
  <2>1. PICK ok \in BOOLEAN, accepted \in BOOLEAN :
           /\ ok => accepted
           /\ got' = IF accepted THEN [got EXCEPT ![f] = @ + 1] ELSE got
           /\ runner' = [runner EXCEPT !.pc = "record", !.pick = f, !.ok = ok, !.due = @ \ {f}]
    BY <1>2 DEF Post
  <2>2. got' \in [Firings -> Nat] /\ \A g \in Firings : got'[g] >= got[g]
    BY <2>1 DEF TypeOK
  <2>3. ok => got'[f] > 0
    BY <2>1 DEF TypeOK
  <2>4. TypeOK'
    BY <1>2, <2>1, <2>2 DEF Post, TypeOK, Pcs
  <2>5. ListedPending' /\ NeverEarly'
    BY <1>2, <2>1, <2>3 DEF Post, TypeOK, ListedPending, NeverEarly
  <2>6. DeliveredWasAccepted'
    <3>1. delivery' = delivery
      BY <1>2 DEF Post
    <3>2. \A g \in Firings : got[g] > 0 => got'[g] > 0
      <4>1. got \in [Firings -> Nat]
        BY DEF TypeOK
      <4> QED BY <2>2, <4>1
    <3> QED BY <3>1, <3>2 DEF DeliveredWasAccepted
  <2>7. DeadGaveUp'
    BY <1>2 DEF Post, DeadGaveUp
  <2> QED BY <2>4, <2>5, <2>6, <2>7
<1>3. CASE Record
  <2> DEFINE f == runner.pick
             row == Result(delivery[f], runner.ok)
  <2>1. f \in Firings /\ runner.ok \in BOOLEAN /\ clock \in 0 .. Horizon
        /\ delivery[f] \in Rows /\ delivery \in [Firings -> Rows]
    BY <1>3 DEF Record, TypeOK, Rows
  <2>2. delivery[f].state = "pending" /\ f \notin runner.due /\ (runner.ok => got[f] > 0)
    BY <1>3 DEF Record, ListedPending
  <2>3. delivery' = [delivery EXCEPT ![f] = row]
    BY <1>3, <2>2 DEF Record
  <2>4. /\ row \in Rows
        /\ row.tries = delivery[f].tries + 1
        /\ row.state = IF runner.ok THEN "delivered"
                       ELSE IF delivery[f].tries + 1 >= MaxTries THEN "dead" ELSE "pending"
    BY <2>1, ResultType
  <2> HIDE DEF row
  <2>5. TypeOK'
    <3>1. delivery' \in [Firings -> Rows]
      BY <2>1, <2>3, <2>4
    <3>2. runner \in Runners
      BY DEF TypeOK, Runners
    <3>3. runner' \in Runners /\ runner'.pc = "post"
      BY <1>3, <3>2 DEF Record, Runners, Pcs
    <3> QED BY <1>3, <3>1, <3>3 DEF Record, TypeOK, Rows, Runners
  <2>6. ListedPending' /\ NeverEarly'
    BY <1>3, <2>1, <2>2, <2>3 DEF Record, TypeOK, ListedPending, NeverEarly
  <2>7. DeliveredWasAccepted'
    BY <1>3, <2>1, <2>2, <2>3, <2>4 DEF Record, DeliveredWasAccepted
  <2>8. DeadGaveUp'
    <3>1. delivery[f].tries \in Nat /\ delivery[f].tries < MaxTries
      BY <2>1, <2>2 DEF DeadGaveUp, Rows
    <3> QED BY <1>3, <2>1, <2>3, <2>4, <3>1, PolicyAssumption DEF Record, DeadGaveUp
  <2> QED BY <2>5, <2>6, <2>7, <2>8
<1>4. CASE CycleDone
  <2>1. TypeOK'
    BY <1>4, PolicyAssumption DEF CycleDone, TypeOK, Resting, Pcs
  <2> QED BY <1>4, <2>1
          DEF CycleDone, Resting, ListedPending, NeverEarly, DeliveredWasAccepted, DeadGaveUp
<1> QED BY <1>1, <1>2, <1>3, <1>4

LEMMA DeliveryStep == DeliveryInv /\ [Next]_vars => DeliveryInv'
<1> SUFFICES ASSUME DeliveryInv, [Next]_vars PROVE DeliveryInv'
  OBVIOUS
<1>1. CASE Next
  BY <1>1, OutsideKeeps, EvaluationKeeps, DeliveryKeeps DEF Next, Runner
<1>2. CASE UNCHANGED vars
  BY <1>2 DEF vars, DeliveryInv, TypeOK, ListedPending, NeverEarly, DeliveredWasAccepted,
              DeadGaveUp
<1> QED BY <1>1, <1>2

\* The delivery rows and the runner keep their types, the states webhook_deliveries
\* allows among them (RecordWebhookResult).
THEOREM HooksTypeCorrect == Spec => []TypeOK
<1>1. DeliveryInv => TypeOK
  BY DEF DeliveryInv
<1> QED BY <1>1, DeliveryInit, DeliveryStep, PTL DEF Spec

\* A notification is marked delivered only if the receiver accepted it, for any
\* number of attempts, policies, retries and restarts (Cycle, RecordWebhookResult).
THEOREM DeliveredIsAccepted == Spec => []DeliveredWasAccepted
<1>1. DeliveryInv => DeliveredWasAccepted
  BY DEF DeliveryInv
<1> QED BY <1>1, DeliveryInit, DeliveryStep, PTL DEF Spec

\* A delivery is dead after exactly MaxTries failures and is retried before
\* (RecordWebhookResult).
THEOREM DeadAfterMaxTries == Spec => []DeadGaveUp
<1>1. DeliveryInv => DeadGaveUp
  BY DEF DeliveryInv
<1> QED BY <1>1, DeliveryInit, DeliveryStep, PTL DEF Spec

\* No delivery is attempted in a second before the one its backoff ends in, however
\* long ago it was listed (DueWebhookDeliveries, Cycle).
THEOREM BackoffRespected == Spec => []NeverEarly
<1>1. DeliveryInv => NeverEarly
  BY DEF DeliveryInv
<1> QED BY <1>1, DeliveryInit, DeliveryStep, PTL DEF Spec

---------------------------------------------------------------------------
(* Firings: what a policy fires for, and how often the receiver hears of it *)

\* What FiringsDeserved says of one firing.
Deserved(f) ==
    LET a == attempt[f.attempt]
        window == Policies[f.policy].window
    IN  /\ KindOf(f) = "periodic" =>
              a.state # "waiting" /\ a.started + f.key * window <= clock
        /\ KindOf(f) = "metric_stalled" =>
              /\ a.state # "waiting" /\ a.started + window <= clock
              /\ Cardinality(samples[f.attempt]) >= 2

\* A delivery row counts from zero.
Untried == \A f \in Firings : delivery[f].state = "none" => delivery[f].tries = 0

\* What the loop holds between its query and the transaction that fires: attempts
\* that had started, a time that has passed, and a firing that is deserved already.
Judging ==
    /\ runner.now <= clock
    /\ runner.pc \in {"judge", "fire"} =>
          \A a \in Attempts, i \in Indices :
              <<a, i>> \in runner.todo => attempt[a].state # "waiting"
    /\ runner.pc = "fire" => KindOf(runner.pick) # "finished" /\ Deserved(runner.pick)

FiringInv ==
    /\ DeliveryInv
    /\ \A a \in Attempts : IsFiniteSet(samples[a])
    /\ Untried
    /\ RepeatsExplained
    /\ FinishedTold
    /\ FiringsDeserved
    /\ Judging

\* Time, the attempts and their samples only move on.
MovesOn ==
    /\ clock <= clock'
    /\ \A a \in Attempts :
          /\ attempt[a].state # "waiting" =>
                attempt'[a].state # "waiting" /\ attempt'[a].started = attempt[a].started
          /\ samples[a] \subseteq samples'[a]
          /\ IsFiniteSet(samples'[a])

LEMMA FloorBelow ==
    ASSUME NEW x \in Int, NEW w \in Nat \ {0}
    PROVE  (x \div w) * w <= x
OBVIOUS

LEMMA FiringParts ==
    ASSUME NEW f \in Firings
    PROVE  /\ f.attempt \in Attempts /\ f.policy \in Indices /\ f.key \in FiringKeys
           /\ f.key \in Nat /\ Policies[f.policy].window \in Nat
           /\ f.key * Policies[f.policy].window \in Nat
<1>1. f.attempt \in Attempts /\ f.policy \in Indices /\ f.key \in FiringKeys
  BY DEF Firings
<1>2. f.key \in Nat /\ Policies[f.policy].window \in Nat
  BY <1>1, PolicyAssumption DEF FiringKeys
<1>3. \A m, n \in Nat : m * n \in Nat
  OBVIOUS
<1> QED BY <1>1, <1>2, <1>3

\* What a firing was deserved for stays so.
LEMMA DeservedStays ==
    ASSUME DeliveryInv, DeliveryInv', MovesOn, NEW f \in Firings, Deserved(f)
    PROVE  Deserved(f)'
<1> DEFINE a == f.attempt
           past == f.key * Policies[f.policy].window
           window == Policies[f.policy].window
<1>1. a \in Attempts /\ past \in Nat /\ window \in Nat
  BY FiringParts
<1>2. clock \in Nat /\ clock' \in Nat /\ attempt[a].started \in Nat
  BY <1>1 DEF DeliveryInv, TypeOK
<1>3. Cardinality(samples[a]) <= Cardinality(samples'[a])
      /\ Cardinality(samples[a]) \in Nat /\ Cardinality(samples'[a]) \in Nat
  <2>1. samples[a] \subseteq samples'[a] /\ IsFiniteSet(samples'[a])
    BY <1>1 DEF MovesOn
  <2> QED BY <2>1, FS_Subset, FS_CardinalityType
<1>4. KindOf(f) = "periodic" => attempt[a].state # "waiting" /\ attempt[a].started + past <= clock
  BY DEF Deserved
<1>5. KindOf(f) = "metric_stalled" =>
         attempt[a].state # "waiting" /\ attempt[a].started + window <= clock
         /\ Cardinality(samples[a]) >= 2
  BY DEF Deserved
<1>6. attempt[a].state # "waiting" =>
         attempt'[a].state # "waiting" /\ attempt'[a].started = attempt[a].started
  BY <1>1 DEF MovesOn
<1>7. clock <= clock'
  BY DEF MovesOn
<1> HIDE DEF past, a, window
<1>8. KindOf(f) = "periodic" =>
         attempt'[a].state # "waiting" /\ attempt'[a].started + past <= clock'
  BY <1>1, <1>2, <1>4, <1>6, <1>7
<1>9. KindOf(f) = "metric_stalled" =>
         attempt'[a].state # "waiting" /\ attempt'[a].started + window <= clock'
         /\ Cardinality(samples'[a]) >= 2
  BY <1>1, <1>2, <1>3, <1>5, <1>6, <1>7
<1> QED BY <1>8, <1>9 DEF Deserved, past, a, window, KindOf

LEMMA Deserving == FiringsDeserved <=> \A f \in Firings : delivery[f].state # "none" => Deserved(f)
BY DEF FiringsDeserved, Deserved

\* What the policies decide is deserved when they decide it.
LEMMA WantedDeserved ==
    ASSUME FiringInv, NEW a \in Attempts, NEW i \in Indices, NEW key \in FiringKeys,
           Wants(a, i, key), attempt[a].state # "waiting"
    PROVE  LET f == [attempt |-> a, policy |-> i, key |-> key]
           IN  f \in Firings /\ KindOf(f) # "finished" /\ Deserved(f)
<1> DEFINE f == [attempt |-> a, policy |-> i, key |-> key]
           window == Policies[i].window
           past == key * window
           age == runner.now - attempt[a].started
<1>1. f.attempt = a /\ f.policy = i /\ f.key = key
  OBVIOUS
<1>2. f \in Firings
  <2>1. key >= 1 <=> Policies[i].kind = "periodic"
    BY DEF Wants
  <2> QED BY <2>1 DEF Firings
<1>3. window \in Nat \ {0}
  BY PolicyAssumption DEF Second
<1>4. runner.now \in Nat /\ attempt[a].started \in Nat /\ clock \in Nat /\ runner.now <= clock
  BY DEF FiringInv, DeliveryInv, TypeOK, Judging
<1>5. past \in Nat
  BY <1>1, <1>2, FiringParts
<1>6. CASE Policies[i].kind = "periodic"
  <2>1. key = age \div window
    BY <1>6 DEF Wants, Bucket
  <2>2. past <= age
    <3>1. age \in Int
      BY <1>4
    <3> HIDE DEF age, window
    <3>2. (age \div window) * window <= age
      BY <1>3, <3>1, FloorBelow
    <3> QED BY <2>1, <3>2
  <2> HIDE DEF past
  <2>3. attempt[a].started + past <= clock
    BY <1>4, <1>5, <2>2
  <2> HIDE DEF f
  <2>4. f.attempt = a /\ f.policy = i /\ f.key = key /\ f \in Firings
    BY <1>1, <1>2
  <2>5. KindOf(f) = "periodic" /\ Deserved(f)
    BY <1>6, <2>3, <2>4 DEF Deserved, KindOf, past
  <2> QED BY <1>2, <2>5 DEF f
<1>7. CASE Policies[i].kind = "metric_stalled"
  <2> DEFINE recent == {s \in samples[a] : s.at >= runner.now - window}
  <2>1. age >= window /\ Cardinality(recent) >= 2
    BY <1>7 DEF Wants, Stalled
  <2>2. attempt[a].started + window <= clock
    BY <1>3, <1>4, <2>1
  <2>3. IsFiniteSet(samples[a]) /\ recent \subseteq samples[a]
    BY DEF FiringInv
  <2> HIDE DEF recent
  <2>4. Cardinality(samples[a]) >= 2
    <3>1. /\ Cardinality(recent) <= Cardinality(samples[a])
          /\ Cardinality(recent) \in Nat /\ Cardinality(samples[a]) \in Nat
      BY <2>3, FS_Subset, FS_CardinalityType
    <3> QED BY <2>1, <3>1
  <2> HIDE DEF f
  <2>5. f.attempt = a /\ f.policy = i
    BY <1>1
  <2>6. KindOf(f) = "metric_stalled" /\ Deserved(f)
    BY <1>7, <2>2, <2>4, <2>5 DEF Deserved, KindOf
  <2> QED BY <1>2, <2>6 DEF f
<1>8. Policies[i].kind \in {"periodic", "metric_stalled"}
  BY DEF Wants
<1> QED BY <1>6, <1>7, <1>8

LEMMA FiringInit == Init => FiringInv
<1> SUFFICES ASSUME Init PROVE FiringInv
  OBVIOUS
<1>1. DeliveryInv
  BY DeliveryInit
<1>2. \A a \in Attempts : IsFiniteSet(samples[a])
  BY FS_EmptySet DEF Init
<1>3. Untried /\ FinishedTold /\ FiringsDeserved
  BY DEF Init, Untried, FinishedTold, FiringsDeserved, NoDelivery, Firings
<1>4. RepeatsExplained
  BY DEF Init, RepeatsExplained, NoDelivery, Resting
<1>5. Judging
  BY <1>1 DEF Init, Judging, Resting, DeliveryInv, TypeOK
<1> QED BY <1>1, <1>2, <1>3, <1>4, <1>5 DEF FiringInv

LEMMA EveryStepMovesOn ==
    ASSUME FiringInv, Next
    PROVE  MovesOn
<1>1. clock \in Nat /\ \A a \in Attempts : IsFiniteSet(samples[a])
  BY DEF FiringInv, DeliveryInv, TypeOK
<1>2. attempt \in [Attempts -> [state : {"waiting", "running", "canceling", "ended"},
                                started : 0 .. Horizon]]
      /\ samples \in [Attempts -> SUBSET [at : 0 .. Horizon, value : Values]]
  BY DEF FiringInv, DeliveryInv, TypeOK
<1>3. ASSUME attempt' = attempt, samples' = samples, clock' = clock PROVE MovesOn
  BY <1>1, <1>3 DEF MovesOn
<1>4. CASE Tick
  BY <1>1, <1>4, PolicyAssumption DEF Tick, MovesOn
<1>5. ASSUME NEW a \in Attempts, StartAttempt(a) \/ CancelAttempt(a) \/ FinishAttempt(a)
      PROVE  MovesOn
  BY <1>1, <1>2, <1>5 DEF StartAttempt, CancelAttempt, FinishAttempt, MovesOn
<1>6. ASSUME NEW a \in Attempts, NEW v \in Values, Observe(a, v) PROVE MovesOn
  <2> DEFINE s == [at |-> clock, value |-> v]
  <2>1. samples' = [samples EXCEPT ![a] = @ \cup {s}] /\ clock' = clock /\ attempt' = attempt
    BY <1>6 DEF Observe
  <2>2. IsFiniteSet(samples[a] \cup {s})
    BY <1>1, FS_AddElement
  <2> HIDE DEF s
  <2> QED BY <1>1, <1>2, <2>1, <2>2 DEF MovesOn
<1>7. CASE Crash
  BY <1>3, <1>7 DEF Crash
<1>8. CASE Runner
  BY <1>3, <1>8 DEF Runner, Evaluate, Judge, Fire, Evaluated, ListDue, Post, Record, CycleDone
<1> QED BY <1>4, <1>5, <1>6, <1>7, <1>8 DEF Next, Outside

\* A step that fires nothing and ends no attempt.
LEMMA QuietKeeps ==
    ASSUME FiringInv, DeliveryInv', MovesOn, delivery' = delivery,
           \A a \in Attempts : attempt'[a].state = "ended" <=> attempt[a].state = "ended"
    PROVE  Untried' /\ FinishedTold' /\ FiringsDeserved'
<1>1. Untried'
  BY DEF FiringInv, Untried
<1>2. FinishedTold'
  BY FiringParts DEF FiringInv, FinishedTold
<1>3. FiringsDeserved'
  <2>1. ASSUME NEW f \in Firings, delivery[f].state # "none" PROVE Deserved(f)'
    BY <2>1, Deserving, DeservedStays DEF FiringInv
  <2> QED BY <2>1 DEF FiringsDeserved, Deserved
<1> QED BY <1>1, <1>2, <1>3

\* A step in which the loop does nothing.
LEMMA IdleRunnerKeeps ==
    ASSUME FiringInv, DeliveryInv', MovesOn, runner' = runner
    PROVE  Judging'
<1>1. runner.now <= clock'
  <2>1. runner.now \in Nat /\ clock \in Nat /\ clock' \in Nat
    BY DEF FiringInv, DeliveryInv, TypeOK
  <2> QED BY <2>1 DEF FiringInv, Judging, MovesOn
<1>2. runner.pc \in {"judge", "fire"} =>
         \A a \in Attempts, i \in Indices :
             <<a, i>> \in runner.todo => attempt'[a].state # "waiting"
  BY DEF FiringInv, Judging, MovesOn
<1>3. runner.pc = "fire" => runner.pick \in Firings /\ Deserved(runner.pick)
  BY DEF FiringInv, DeliveryInv, TypeOK, Judging
<1>4. runner.pc = "fire" => Deserved(runner.pick)'
  <2> DEFINE f == runner.pick
  <2>1. f' = f
    OBVIOUS
  <2>2. ASSUME NEW g \in Firings, Deserved(g) PROVE Deserved(g)'
    BY <2>2, DeservedStays DEF FiringInv
  <2> QED BY <1>3, <2>1, <2>2 DEF Deserved, KindOf
<1> QED BY <1>1, <1>2, <1>4 DEF FiringInv, Judging, KindOf

LEMMA FiringOutside ==
    ASSUME FiringInv, DeliveryInv', MovesOn, Outside
    PROVE  FiringInv'
<1>1. \A a \in Attempts : IsFiniteSet(samples'[a])
  BY DEF MovesOn
<1>2. \A f \in Firings : got[f] \in Nat /\ delivery[f].tries \in Nat
  BY DEF FiringInv, DeliveryInv, TypeOK
<1>3. ASSUME runner' = runner, delivery' = delivery, got' = got, crashes' = crashes,
             \A a \in Attempts : attempt'[a].state = "ended" <=> attempt[a].state = "ended"
      PROVE  FiringInv'
  <2>1. RepeatsExplained'
    BY <1>3 DEF FiringInv, RepeatsExplained
  <2> QED BY <1>1, <1>3, <2>1, QuietKeeps, IdleRunnerKeeps DEF FiringInv
<1>4. attempt \in [Attempts -> [state : {"waiting", "running", "canceling", "ended"},
                                started : 0 .. Horizon]]
  BY DEF FiringInv, DeliveryInv, TypeOK
<1>5. CASE Tick
  BY <1>3, <1>5 DEF Tick
<1>6. ASSUME NEW a \in Attempts, StartAttempt(a) \/ CancelAttempt(a) PROVE FiringInv'
  BY <1>3, <1>4, <1>6 DEF StartAttempt, CancelAttempt
<1>7. ASSUME NEW a \in Attempts, NEW v \in Values, Observe(a, v) PROVE FiringInv'
  BY <1>3, <1>7 DEF Observe
<1>8. CASE Crash
  <2>1. RepeatsExplained'
    <3>1. crashes \in Nat /\ crashes' = crashes + 1 /\ got' = got /\ delivery' = delivery
          /\ runner'.pc = "idle"
      BY <1>8, PolicyAssumption DEF Crash, Resting, FiringInv, DeliveryInv, TypeOK
    <3> QED BY <1>2, <3>1 DEF FiringInv, RepeatsExplained
  <2>2. Judging'
    <3>1. runner'.pc = "idle" /\ runner'.now = 0 /\ clock' \in Nat
      BY <1>8 DEF Crash, Resting, DeliveryInv, TypeOK
    <3> QED BY <3>1 DEF Judging
  <2> QED BY <1>1, <1>8, <2>1, <2>2, QuietKeeps DEF Crash, FiringInv
<1>9. ASSUME NEW a \in Attempts, FinishAttempt(a) PROVE FiringInv'
  <2>1. /\ delivery' = Fired(FinishedFirings(a), clock)
        /\ attempt' = [attempt EXCEPT ![a].state = "ended"]
        /\ runner' = runner /\ got' = got /\ crashes' = crashes
    BY <1>9 DEF FinishAttempt
  <2>2. TypeOK /\ clock \in 0 .. Horizon
    BY DEF FiringInv, DeliveryInv, TypeOK
  <2>3. \A f \in Firings :
           \/ delivery'[f] = delivery[f]
           \/ /\ delivery[f].state = "none"
              /\ delivery'[f].state = "pending" /\ delivery'[f].tries = 0
    <3>1. \A f \in Firings :
             \/ delivery'[f] = delivery[f]
             \/ /\ delivery[f].state = "none"
                /\ delivery'[f] = [state |-> "pending", tries |-> 0, next |-> clock]
      BY <2>1, <2>2, FiredType
    <3> QED BY <3>1
  <2>4. \A f \in Firings : delivery'[f].state = "none" <=>
           delivery[f].state = "none" /\ f \notin FinishedFirings(a)
    BY <2>1, <2>2 DEF Fired
  <2>5. Untried'
    BY <2>3 DEF FiringInv, Untried
  <2>6. RepeatsExplained'
    <3>1. \A f \in Firings : delivery'[f].tries = delivery[f].tries
      BY <2>3 DEF FiringInv, Untried
    <3> QED BY <2>1, <3>1 DEF FiringInv, RepeatsExplained
  <2>7. FinishedTold'
    <3> SUFFICES ASSUME NEW f \in Firings, KindOf(f) = "finished"
                 PROVE  delivery'[f].state # "none" <=> attempt'[f.attempt].state = "ended"
      BY DEF FinishedTold, KindOf
    <3>1. f.attempt \in Attempts
      BY FiringParts
    <3>2. f \in FinishedFirings(a) <=> f.attempt = a
      BY DEF FinishedFirings, KindOf
    <3>3. delivery[f].state # "none" <=> attempt[f.attempt].state = "ended"
      BY DEF FiringInv, FinishedTold
    <3>4. attempt'[f.attempt].state =
             IF f.attempt = a THEN "ended" ELSE attempt[f.attempt].state
      BY <1>4, <2>1, <3>1
    <3> QED BY <2>4, <3>2, <3>3, <3>4
  <2>8. FiringsDeserved'
    <3>1. ASSUME NEW f \in Firings, delivery'[f].state # "none" PROVE Deserved(f)'
      <4>1. CASE delivery[f].state # "none"
        BY <4>1, Deserving, DeservedStays DEF FiringInv
      <4>2. CASE f \in FinishedFirings(a)
        BY <4>2 DEF FinishedFirings, Deserved, KindOf
      <4> QED BY <2>4, <3>1, <4>1, <4>2
    <3> QED BY <3>1 DEF FiringsDeserved, Deserved
  <2> QED BY <1>1, <2>1, <2>5, <2>6, <2>7, <2>8, IdleRunnerKeeps DEF FiringInv
<1> QED BY <1>5, <1>6, <1>7, <1>8, <1>9 DEF Outside

\* The loop judges by what it read: an attempt it took for running has started, and
\* whatever happens to it afterwards a firing it decides on stays deserved.
LEMMA FiringRunner ==
    ASSUME FiringInv, DeliveryInv', MovesOn, Runner
    PROVE  FiringInv'
<1>1. \A a \in Attempts : IsFiniteSet(samples'[a])
  BY DEF MovesOn
<1>2. /\ \A f \in Firings : got[f] \in Nat /\ delivery[f].tries \in Nat
      /\ crashes \in Nat /\ clock \in Nat /\ got \in [Firings -> Nat]
      /\ runner \in Runners /\ runner' \in Runners /\ TypeOK /\ TypeOK'
  BY PolicyAssumption DEF FiringInv, DeliveryInv, TypeOK, Runners
<1>3. /\ Untried /\ RepeatsExplained /\ FinishedTold /\ FiringsDeserved /\ Judging
      /\ attempt' = attempt /\ clock' = clock /\ samples' = samples /\ crashes' = crashes
  BY DEF FiringInv, Runner, Evaluate, Judge, Fire, Evaluated, ListDue, Post, Record, CycleDone
<1>4. ASSUME delivery' = delivery, got' = got, runner.pc # "record", runner'.pc # "record",
             Judging'
      PROVE  FiringInv'
  <2>1. RepeatsExplained'
    BY <1>2, <1>3, <1>4 DEF RepeatsExplained
  <2> QED BY <1>1, <1>3, <1>4, <2>1, QuietKeeps DEF FiringInv
<1>5. CASE Evaluate
  <2>1. /\ runner.pc = "idle" /\ runner'.pc = "judge" /\ runner'.now = clock
        /\ runner'.todo = {a \in Attempts : attempt[a].state = "running"} \X Indices
        /\ delivery' = delivery /\ got' = got
    BY <1>2, <1>5 DEF Evaluate, Runners
  <2>2. Judging'
    BY <1>2, <1>3, <2>1 DEF Judging
  <2> QED BY <1>4, <2>1, <2>2
<1>6. ASSUME NEW a \in Attempts, NEW i \in Indices, Judge(a, i) PROVE FiringInv'
  <2>1. runner.pc = "judge" /\ <<a, i>> \in runner.todo /\ delivery' = delivery /\ got' = got
    BY <1>6 DEF Judge
  <2>2. \/ /\ runner'.pc = "judge" /\ runner'.now = runner.now
           /\ runner'.todo = runner.todo \ {<<a, i>>}
        \/ \E key \in FiringKeys :
              /\ Wants(a, i, key)
              /\ runner'.pc = "fire" /\ runner'.now = runner.now
              /\ runner'.todo = runner.todo \ {<<a, i>>}
              /\ runner'.pick = [attempt |-> a, policy |-> i, key |-> key]
    BY <1>2, <1>6 DEF Judge, Runners
  <2>3. attempt[a].state # "waiting"
    BY <1>3, <2>1 DEF Judging
  <2>4. Judging'
    <3>1. /\ runner'.now <= clock'
          /\ \A b \in Attempts, k \in Indices :
                <<b, k>> \in runner'.todo => attempt'[b].state # "waiting"
      BY <1>3, <2>1, <2>2 DEF Judging
    <3>2. CASE runner'.pc = "judge"
      BY <3>1, <3>2 DEF Judging
    <3>3. ASSUME NEW key \in FiringKeys, Wants(a, i, key), runner'.pc = "fire",
                 runner'.pick = [attempt |-> a, policy |-> i, key |-> key]
          PROVE  Judging'
      <4> DEFINE f == [attempt |-> a, policy |-> i, key |-> key]
      <4>1. f \in Firings /\ KindOf(f) # "finished" /\ Deserved(f)
        BY <2>3, <3>3, WantedDeserved
      <4>2. runner'.pick = f
        BY <3>3
      <4> HIDE DEF f
      <4>3. Deserved(f)'
        BY <1>3, <4>1 DEF Deserved, KindOf
      <4>4. Deserved(runner.pick)'
        BY <4>2, <4>3 DEF Deserved, KindOf
      <4> QED BY <3>1, <3>3, <4>1, <4>2, <4>4 DEF Judging, KindOf
    <3> QED BY <2>2, <3>2, <3>3
  <2> QED BY <1>4, <2>1, <2>2, <2>4
<1>7. CASE Fire
  <2> DEFINE p == runner.pick
  <2>1. /\ runner.pc = "fire" /\ p \in Firings /\ KindOf(p) # "finished" /\ Deserved(p)
        /\ delivery' = Fired({p}, runner.now) /\ got' = got
        /\ runner'.pc = "judge" /\ runner'.now = runner.now /\ runner'.todo = runner.todo
        /\ runner.now \in 0 .. Horizon
    BY <1>2, <1>3, <1>7 DEF Fire, TypeOK, Judging, Runners
  <2>2. \A f \in Firings :
           \/ delivery'[f] = delivery[f]
           \/ /\ delivery[f].state = "none"
              /\ delivery'[f].state = "pending" /\ delivery'[f].tries = 0
    <3>1. \A f \in Firings :
             \/ delivery'[f] = delivery[f]
             \/ /\ delivery[f].state = "none"
                /\ delivery'[f] = [state |-> "pending", tries |-> 0, next |-> runner.now]
      BY <1>2, <2>1, FiredType
    <3> QED BY <3>1
  <2>3. \A f \in Firings : f # p => delivery'[f] = delivery[f]
    BY <2>1 DEF Fired
  <2> HIDE DEF p
  <2>4. Untried'
    BY <1>3, <2>2 DEF Untried
  <2>5. RepeatsExplained'
    <3>1. \A f \in Firings : delivery'[f].tries = delivery[f].tries
      BY <1>3, <2>2 DEF Untried
    <3> QED BY <1>2, <1>3, <2>1, <3>1 DEF RepeatsExplained
  <2>6. FinishedTold'
    BY <1>3, <2>1, <2>3 DEF FinishedTold, KindOf
  <2>7. FiringsDeserved'
    <3>1. ASSUME NEW f \in Firings, delivery'[f].state # "none" PROVE Deserved(f)
      BY <1>3, <2>1, <2>3, <3>1, Deserving
    <3> QED BY <1>3, <3>1 DEF FiringsDeserved, Deserved, KindOf
  <2>8. Judging'
    BY <1>3, <2>1 DEF Judging
  <2> QED BY <1>1, <2>4, <2>5, <2>6, <2>7, <2>8 DEF FiringInv
<1>8. CASE Evaluated
  <2>1. runner.pc = "judge" /\ runner'.pc = "list" /\ runner'.now = 0
        /\ delivery' = delivery /\ got' = got
    BY <1>2, <1>8 DEF Evaluated, Runners
  <2>2. Judging'
    BY <1>2, <1>3, <2>1 DEF Judging
  <2> QED BY <1>4, <2>1, <2>2
<1>9. CASE ListDue
  <2>1. runner.pc = "list" /\ runner'.pc = "post" /\ runner'.now = runner.now
        /\ delivery' = delivery /\ got' = got
    BY <1>2, <1>9 DEF ListDue, Runners
  <2>2. Judging'
    BY <1>2, <1>3, <2>1 DEF Judging
  <2> QED BY <1>4, <2>1, <2>2
<1>10. ASSUME NEW f \in Firings, Post(f) PROVE FiringInv'
  <2>1. /\ runner.pc = "post" /\ runner'.pc = "record" /\ runner'.now = runner.now
        /\ runner'.pick = f /\ delivery' = delivery
        /\ got' = got \/ got' = [got EXCEPT ![f] = @ + 1]
    BY <1>2, <1>10 DEF Post, Runners
  <2>2. \A g \in Firings : got'[g] = got[g] \/ (g = f /\ got'[g] = got[g] + 1)
    BY <1>2, <2>1
  <2>3. RepeatsExplained'
    <3> SUFFICES ASSUME NEW g \in Firings
                 PROVE  got'[g] <= delivery[g].tries + crashes + IF f = g THEN 1 ELSE 0
      BY <1>3, <2>1 DEF RepeatsExplained
    <3>1. got[g] <= delivery[g].tries + crashes
      BY <1>2, <1>3, <2>1 DEF RepeatsExplained
    <3> QED BY <1>2, <2>2, <3>1
  <2>4. Judging'
    BY <1>2, <1>3, <2>1 DEF Judging
  <2> QED BY <1>1, <1>3, <2>1, <2>3, <2>4, QuietKeeps DEF FiringInv
<1>11. CASE Record
  <2> DEFINE p == runner.pick
             row == Result(delivery[p], runner.ok)
  <2>1. /\ runner.pc = "record" /\ runner'.pc = "post" /\ runner'.now = runner.now
        /\ p \in Firings /\ delivery[p].state = "pending" /\ got' = got
        /\ delivery' = [delivery EXCEPT ![p] = row]
    BY <1>2, <1>11 DEF Record, Runners, TypeOK, FiringInv, DeliveryInv, ListedPending
  <2>2. row.state # "none" /\ row.tries = delivery[p].tries + 1
    <3>1. delivery[p] \in Rows /\ runner.ok \in BOOLEAN /\ clock \in 0 .. Horizon
      BY <1>2, <2>1 DEF TypeOK, Rows, Runners
    <3> QED BY <3>1, ResultType
  <2> HIDE DEF row, p
  <2>3. delivery'[p] = row /\ \A f \in Firings : f # p => delivery'[f] = delivery[f]
    BY <1>2, <2>1 DEF TypeOK
  <2>4. Untried'
    BY <1>3, <2>2, <2>3 DEF Untried
  <2>5. RepeatsExplained'
    <3> SUFFICES ASSUME NEW g \in Firings PROVE got[g] <= delivery'[g].tries + crashes
      BY <1>2, <1>3, <2>1 DEF RepeatsExplained, TypeOK
    <3>1. got[g] <= delivery[g].tries + crashes + IF g = p THEN 1 ELSE 0
      BY <1>3, <2>1 DEF RepeatsExplained, p
    <3> QED BY <1>2, <2>2, <2>3, <3>1
  <2>6. FinishedTold'
    BY <1>3, <2>1, <2>2, <2>3 DEF FinishedTold, KindOf
  <2>7. FiringsDeserved'
    <3>1. ASSUME NEW f \in Firings, delivery'[f].state # "none" PROVE Deserved(f)
      BY <1>3, <2>1, <2>3, <3>1, Deserving
    <3> QED BY <1>3, <3>1 DEF FiringsDeserved, Deserved, KindOf
  <2>8. Judging'
    BY <1>3, <2>1 DEF Judging
  <2> QED BY <1>1, <2>4, <2>5, <2>6, <2>7, <2>8 DEF FiringInv
<1>12. CASE CycleDone
  <2>1. runner.pc = "post" /\ runner'.pc = "idle" /\ runner'.now = 0
        /\ delivery' = delivery /\ got' = got
    BY <1>12 DEF CycleDone, Resting
  <2>2. Judging'
    BY <1>2, <1>3, <2>1 DEF Judging
  <2> QED BY <1>4, <2>1, <2>2
<1> QED BY <1>5, <1>6, <1>7, <1>8, <1>9, <1>10, <1>11, <1>12 DEF Runner

LEMMA FiringStep == FiringInv /\ [Next]_vars => FiringInv'
<1> SUFFICES ASSUME FiringInv, [Next]_vars PROVE FiringInv'
  OBVIOUS
<1>1. DeliveryInv'
  BY DeliveryStep DEF FiringInv
<1>2. CASE Next
  BY <1>1, <1>2, EveryStepMovesOn, FiringOutside, FiringRunner DEF Next
<1>3. CASE UNCHANGED vars
  BY <1>1, <1>3 DEF vars, FiringInv, Untried, RepeatsExplained, FinishedTold, FiringsDeserved,
                    Judging, Deserved, KindOf
<1> QED BY <1>2, <1>3

\* The receiver hears of a firing at most once more than the delivery counts for
\* each restart, and once for the request on its way (Cycle, RecordWebhookResult).
THEOREM RepeatsAreExplained == Spec => []RepeatsExplained
<1>1. FiringInv => RepeatsExplained
  BY DEF FiringInv
<1> QED BY <1>1, FiringInit, FiringStep, PTL DEF Spec

\* A finished policy has fired for an attempt exactly if the attempt has ended: the
\* loop, which works on an old list, adds none (applyWorkerEvent, fireHealthPolicyTx).
THEOREM FinishedIsTold == Spec => []FinishedTold
<1>1. FiringInv => FinishedTold
  BY DEF FiringInv
<1> QED BY <1>1, FiringInit, FiringStep, PTL DEF Spec

\* A policy fires for an interval that is over or for a window with samples, although
\* the attempt may have changed since it was read (EvaluateHealthPolicies).
THEOREM FiringsAreDeserved == Spec => []FiringsDeserved
<1>1. FiringInv => FiringsDeserved
  BY DEF FiringInv
<1> QED BY <1>1, FiringInit, FiringStep, PTL DEF Spec
=============================================================================
