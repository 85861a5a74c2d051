----------------------------- MODULE MCControlPlane -----------------------------
(* Instances of ControlPlane for TLC. *)
EXTENDS ControlPlane, TLC

GPU(sharing, count) == [sharing |-> sharing, count |-> count]

NoResources == [cpu |-> 0, memory |-> 0, gpus |-> << >>]

\* A spec with the fields a model does not care about filled in.
AnySpec ==
    [project |-> "p", labels |-> << >>, resources |-> NoResources, priority |-> 0,
     maxAttempts |-> 1, metrics |-> [loss |-> "percent"], health |-> << >>]

Roomy ==
    [cpu |-> 0, memory |-> 0, gpuCount |-> 1, gpuSharedSlots |-> 2,
     maxParallel |-> 2, labels |-> << >>, projects |-> {"p"}]

\* The sums of both instances stay within their words.
ASSUME NoWrapAssumption == NoWrap

---------------------------------------------------------------------------
(* One job with a second attempt, and two workers with two sessions each: events
   that are replayed, that take a key or an id already taken, that do not apply. *)

Hooks == <<[kind |-> "finished", target |-> "hook"],
           [kind |-> "periodic", target |-> "hook"]>>

RetrySpec == [j \in Jobs |-> [AnySpec EXCEPT !.maxAttempts = 2, !.health = Hooks]]

ReplayPoints == {[name |-> "loss", unit |-> TRUE], [name |-> "loss", unit |-> FALSE],
                 [name |-> "system", unit |-> FALSE]}

RoomyWorkers == [w \in Workers |-> Roomy]

\* The workers are alike, and nothing tells one session or one event id from
\* another: all three are only compared for equality.
EventSymmetry ==
    Permutations(Workers) \cup Permutations(Sessions) \cup Permutations(EventIds)

---------------------------------------------------------------------------
(* Three jobs that compete for a worker with two places and one that has a single
   core, on which two of them do not fit, and leaves its parallelism to its default
   of one; both leave their shared GPU slots to theirs. *)

RivalSpec ==
    [j \in Jobs |->
        CASE j = "alone" -> [AnySpec EXCEPT !.resources.gpus = <<GPU("exclusive", 1)>>]
          [] j = "share" -> [AnySpec EXCEPT !.resources.gpus = <<GPU("shared", 1)>>,
                                            !.resources.cpu = 2, !.priority = 1]
          [] j = "plain" -> [AnySpec EXCEPT !.resources.cpu = 2, !.resources.memory = 2]]

RivalWorkers ==
    [w \in Workers |-> [Roomy EXCEPT !.cpu = IF w = "double" THEN 3 ELSE 1,
                                     !.memory = 3, !.gpuSharedSlots = 0,
                                     !.maxParallel = IF w = "double" THEN 2 ELSE 0]]

NoPoints == {}

\* Nothing tells one idempotency key or one event id from another.
RivalSymmetry == Permutations(Keys) \cup Permutations(EventIds)
=============================================================================
