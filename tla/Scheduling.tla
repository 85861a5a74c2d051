------------------------------- MODULE Scheduling -------------------------------
(* What one worker can still take: the allocation the control plane sums over  *)
(* the worker's live attempts, and the test a queued job has to pass before it *)
(* is offered (src/internal/store/sqlite/workers.go).  Pure operators.         *)
(*                                                                             *)
(*   resources  [cpu, memory, gpus], gpus a sequence of [sharing, count]       *)
(*   spec       [project, labels, resources, ...]                              *)
(*   capacity   [cpu, memory, gpuCount, gpuSharedSlots, maxParallel, labels,   *)
(*              projects]                                                      *)
(*   held       a function from the live attempts of a worker to the resources *)
(*              of their jobs                                                  *)
EXTENDS Integers, Sequences, FiniteSets, FiniteSetsExt, Functions

CONSTANTS
    U32,    \* 2^32: CPU, GPU counts and attempt counts are uint32
    U64     \* 2^64: memory is uint64

ASSUME WidthsAssumption == U32 \in Nat \ {0} /\ U64 \in Nat \ {0}

\* The GPUs a request asks for in one sharing mode.
Asked(resources, sharing) ==
    LET asks == {i \in DOMAIN resources.gpus : resources.gpus[i].sharing = sharing}
    IN  SumFunction([i \in asks |-> resources.gpus[i].count])

\* They are summed in a uint32.
GPUs(resources, sharing) == Asked(resources, sharing) % U32

AsksExclusive(resources) ==
    \E i \in DOMAIN resources.gpus : resources.gpus[i].sharing = "exclusive"

\* addAllocation folded over the attempts a worker holds: unsigned sums wrap,
\* the two GPU flags are set by any request of their kind.
CurrentAllocation(held) ==
    [cpu       |-> SumFunction([a \in DOMAIN held |-> held[a].cpu]) % U32,
     memory    |-> SumFunction([a \in DOMAIN held |-> held[a].memory]) % U64,
     slots     |-> SumFunction([a \in DOMAIN held |-> GPUs(held[a], "shared")]) % U32,
     exclusive |-> \E a \in DOMAIN held : AsksExclusive(held[a]),
     inUse     |-> \E a \in DOMAIN held : held[a].gpus # << >>,
     active    |-> Cardinality(DOMAIN held)]

\* A map lookup of a missing label gives the empty string.
Label(labels, name) == IF name \in DOMAIN labels THEN labels[name] ELSE ""

\* The worker advertises the job's project and every label it asks for.
PlaceFits(spec, capacity) ==
    /\ spec.project \in capacity.projects
    /\ \A name \in DOMAIN spec.labels :
           Label(capacity.labels, name) = spec.labels[name]

\* A mutant of ComputeFits: what is already held is not counted.
ComputeFits_ignoringHeld(resources, capacity, allocation) ==
    /\ capacity.cpu > 0 => resources.cpu <= capacity.cpu
    /\ capacity.memory > 0 => resources.memory <= capacity.memory

\* A capacity of zero means the worker does not advertise that resource.
ComputeFits(resources, capacity, allocation) ==
    /\ capacity.cpu > 0 =>
           (allocation.cpu + resources.cpu) % U32 <= capacity.cpu
    /\ capacity.memory > 0 =>
           (allocation.memory + resources.memory) % U64 <= capacity.memory

\* A mutant of GPUFits: an exclusive request only looks for exclusive holders.
GPUFits_besideShared(resources, capacity, allocation) ==
    LET exclusive == GPUs(resources, "exclusive")
        shared    == GPUs(resources, "shared")
    IN  IF exclusive > 0
        THEN ~allocation.exclusive /\ shared = 0 /\ exclusive <= capacity.gpuCount
        ELSE shared > 0 =>
                /\ ~allocation.exclusive
                /\ (allocation.slots + shared) % U32 <= capacity.gpuSharedSlots

GPUFits(resources, capacity, allocation) ==
    LET exclusive == GPUs(resources, "exclusive")
        shared    == GPUs(resources, "shared")
    IN  IF exclusive > 0
        THEN ~allocation.inUse /\ shared = 0 /\ exclusive <= capacity.gpuCount
        ELSE shared > 0 =>
                /\ ~allocation.exclusive
                /\ (allocation.slots + shared) % U32 <= capacity.gpuSharedSlots

JobFits(spec, capacity, allocation) ==
    /\ PlaceFits(spec, capacity)
    /\ ComputeFits(spec.resources, capacity, allocation)
    /\ GPUFits(spec.resources, capacity, allocation)

\* offerJobs fills in the two capacities a worker may leave at zero.
WithDefaults(capacity) ==
    [capacity EXCEPT
        !.maxParallel    = IF @ = 0 THEN 1 ELSE @,
        !.gpuSharedSlots = IF @ = 0 THEN capacity.gpuCount ELSE @]
=============================================================================
