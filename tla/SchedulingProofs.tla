----------------------------- MODULE SchedulingProofs -----------------------------
(* What a worker is given never exceeds what it advertises, and a job that wants *)
(* its GPUs for itself has them: for every set of jobs, workers, requests and     *)
(* capacities whose sums stay within the machine's words.  And the tables agree:  *)
(* every event of worker_events took effect exactly once, and the audit trail      *)
(* counts what the rows show, over any number of syncs, replays and rollbacks.     *)
EXTENDS ControlPlaneProofs

---------------------------------------------------------------------------
(* Sums over finite sets.  The sum of the community modules is defined by recursion
   over the subsets of a set; the facts below follow from smallest counterexamples. *)

\* g[s] is the sum of f over s, for every subset s of S.
Additive(f, S, g) ==
    /\ g \in [SUBSET S -> Int]
    /\ g[{}] = 0
    /\ \A s \in SUBSET S : \A x \in s : g[s] = f[x] + g[s \ {x}]

\* A set of finite sets that is not empty has a smallest member.
LEMMA SmallestMember ==
    ASSUME NEW S, IsFiniteSet(S), NEW Bad \in SUBSET (SUBSET S), Bad # {}
    PROVE  \E m \in Bad : \A s \in Bad : s \subseteq m => s = m
<1>1. \A s \in Bad : IsFiniteSet(s) /\ Cardinality(s) \in Nat
  BY FS_Subset, FS_CardinalityType
<1> DEFINE sizes == {Cardinality(s) : s \in Bad}
<1>2. sizes \in SUBSET Nat /\ sizes # {}
  BY <1>1
<1>3. PICK k \in sizes : \A n \in sizes : <<n, k>> \notin OpToRel(<, Nat)
  <2>1. IsWellFoundedOn(OpToRel(<, Nat), Nat)
    BY NatLessThanWellFounded
  <2> HIDE DEF sizes
  <2> QED BY <1>2, <2>1, WFMin
<1>4. PICK m \in Bad : Cardinality(m) = k
  OBVIOUS
<1>5. ASSUME NEW s \in Bad, s \subseteq m PROVE s = m
  <2>1. Cardinality(s) <= Cardinality(m) /\ (Cardinality(s) = Cardinality(m) => s = m)
    BY <1>1, <1>5, FS_Subset
  <2>2. ~(Cardinality(s) < k)
    BY <1>1, <1>3, <1>4 DEF OpToRel
  <2> QED BY <1>1, <1>4, <2>1, <2>2
<1> QED BY <1>5

\* Every function on a finite set has a sum.
LEMMA AdditiveExists ==
    ASSUME NEW S, IsFiniteSet(S), NEW f, \A x \in S : f[x] \in Int
    PROVE  \E g : Additive(f, S, g)
<1> DEFINE Bad == {s \in SUBSET S : ~ \E g : Additive(f, s, g)}
<1> SUFFICES ASSUME Bad # {} PROVE FALSE
  OBVIOUS
<1>1. PICK m \in Bad : \A s \in Bad : s \subseteq m => s = m
  <2>1. Bad \in SUBSET (SUBSET S)
    OBVIOUS
  <2> HIDE DEF Bad
  <2> QED BY <2>1, SmallestMember
<1>2. m # {}
  <2>1. Additive(f, {}, [s \in SUBSET {} |-> 0])
    BY DEF Additive
  <2> QED BY <2>1
<1>3. PICK x \in m : TRUE
  BY <1>2
<1>4. m \ {x} \notin Bad
  BY <1>1, <1>3
<1>5. PICK g : Additive(f, m \ {x}, g)
  BY <1>4
<1> DEFINE h == [s \in SUBSET m |-> IF x \in s THEN f[x] + g[s \ {x}] ELSE g[s]]
<1>6. Additive(f, m, h)
  <2>0. f[x] \in Int /\ \A s \in SUBSET m : s \ {x} \in SUBSET (m \ {x})
    BY <1>3
  <2>1. h \in [SUBSET m -> Int]
    <3>1. ASSUME NEW s \in SUBSET m PROVE (IF x \in s THEN f[x] + g[s \ {x}] ELSE g[s]) \in Int
      <4>1. CASE x \in s
        BY <1>5, <2>0, <4>1 DEF Additive
      <4>2. CASE x \notin s
        <5>1. s \in SUBSET (m \ {x})
          BY <4>2
        <5> QED BY <1>5, <4>2, <5>1 DEF Additive
      <4> QED BY <4>1, <4>2
    <3> QED BY <3>1
  <2>2. h[{}] = 0
    BY <1>5 DEF Additive
  <2>3. ASSUME NEW s \in SUBSET m, NEW y \in s PROVE h[s] = f[y] + h[s \ {y}]
    <3>0. s \ {y} \in SUBSET m /\ s \ {x} \in SUBSET (m \ {x}) /\ f[y] \in Int
      OBVIOUS
    <3>1. CASE y = x
      BY <3>0, <3>1
    <3>2. CASE y # x /\ x \in s
      <4>1. g[s \ {x}] = f[y] + g[(s \ {x}) \ {y}]
        BY <1>5, <3>0, <3>2 DEF Additive
      <4>2. (s \ {x}) \ {y} = (s \ {y}) \ {x} /\ (s \ {x}) \ {y} \in SUBSET (m \ {x})
        OBVIOUS
      <4>3. h[s] = f[x] + g[s \ {x}] /\ h[s \ {y}] = f[x] + g[(s \ {y}) \ {x}]
        BY <3>0, <3>2
      <4>4. g[(s \ {x}) \ {y}] \in Int
        BY <1>5, <4>2 DEF Additive
      <4>5. \A a, b, c \in Int : a + (b + c) = b + (a + c)
        OBVIOUS
      <4>6. h[s] = f[x] + (f[y] + g[(s \ {x}) \ {y}])
        BY <4>1, <4>3
      <4>7. h[s \ {y}] = f[x] + g[(s \ {x}) \ {y}]
        BY <4>2, <4>3
      <4> HIDE DEF h
      <4> QED BY <2>0, <3>0, <4>4, <4>5, <4>6, <4>7
    <3>3. CASE x \notin s
      <4>1. s \in SUBSET (m \ {x})
        BY <3>3
      <4>2. h[s] = g[s] /\ h[s \ {y}] = g[s \ {y}]
        BY <3>0, <3>3
      <4> HIDE DEF h
      <4> QED BY <1>5, <4>1, <4>2 DEF Additive
    <3> QED BY <3>1, <3>2, <3>3
  <2> HIDE DEF h
  <2> QED BY <2>1, <2>2, <2>3 DEF Additive
<1> QED BY <1>1, <1>6

\* The fold of the library computes it: its recursion has one solution.
LEMMA SumIsAdditive ==
    ASSUME NEW S, IsFiniteSet(S), NEW f, \A x \in S : f[x] \in Int, NEW g, Additive(f, S, g)
    PROVE  SumFunctionOnSet(f, S) = g[S]
<1> DEFINE Solves(it) == it = [s \in SUBSET S |->
                        IF s = {} THEN 0
                        ELSE f[CHOOSE x \in s : TRUE] + it[s \ {CHOOSE x \in s : TRUE}]]
           iter == CHOOSE it : Solves(it)
<1>1. SumFunctionOnSet(f, S) = iter[S]
  BY DEF SumFunctionOnSet, FoldFunctionOnSet, MapThenFoldSet
<1>2. Solves(g)
  <2>1. ASSUME NEW s \in SUBSET S
        PROVE  g[s] = IF s = {} THEN 0
                      ELSE f[CHOOSE x \in s : TRUE] + g[s \ {CHOOSE x \in s : TRUE}]
    BY DEF Additive
  <2>2. g = [s \in SUBSET S |-> g[s]]
    BY DEF Additive
  <2> QED BY <2>1, <2>2
<1>3. Solves(iter)
  BY <1>2
<1> DEFINE Bad == {s \in SUBSET S : iter[s] # g[s]}
<1>4. Bad = {}
  <2> SUFFICES ASSUME Bad # {} PROVE FALSE
    OBVIOUS
  <2>1. PICK m \in Bad : \A s \in Bad : s \subseteq m => s = m
    <3>1. Bad \in SUBSET (SUBSET S)
      OBVIOUS
    <3> HIDE DEF Bad
    <3> QED BY <3>1, SmallestMember
  <2> DEFINE x == CHOOSE x \in m : TRUE
  <2> HIDE DEF iter
  <2>2. m # {}
    <3>1. {} \in SUBSET S /\ g[{}] = 0
      BY DEF Additive
    <3>2. iter[{}] = 0
      BY <1>3, <3>1
    <3> QED BY <2>1, <3>1, <3>2
  <2>3. x \in m
    BY <2>2
  <2>4. iter[m \ {x}] = g[m \ {x}]
    BY <2>1, <2>3
  <2>5. iter[m] = f[x] + iter[m \ {x}]
    BY <1>3, <2>2
  <2>6. g[m] = f[x] + g[m \ {x}]
    BY <2>3 DEF Additive
  <2> QED BY <2>1, <2>4, <2>5, <2>6
<1> HIDE DEF iter
<1> QED BY <1>1, <1>4
\* The sums over the subsets of a set are those of one function.
LEMMA SumWithin ==
    ASSUME NEW T, IsFiniteSet(T), NEW f, \A x \in T : f[x] \in Int, NEW g, Additive(f, T, g),
           NEW S \in SUBSET T
    PROVE  SumFunctionOnSet(f, S) = g[S]
<1> DEFINE h == [s \in SUBSET S |-> g[s]]
<1>1. IsFiniteSet(S) /\ \A x \in S : f[x] \in Int
  BY FS_Subset
<1>2. Additive(f, S, h)
  BY DEF Additive
<1>3. h[S] = g[S]
  OBVIOUS
<1> HIDE DEF h
<1> QED BY <1>1, <1>2, <1>3, SumIsAdditive

\* One element more adds its value.
LEMMA SumAdds ==
    ASSUME NEW S, IsFiniteSet(S), NEW x, x \notin S,
           NEW f, \A y \in S \cup {x} : f[y] \in Int
    PROVE  /\ SumFunctionOnSet(f, S) \in Int
           /\ SumFunctionOnSet(f, S \cup {x}) = f[x] + SumFunctionOnSet(f, S)
<1> DEFINE T == S \cup {x}
<1>1. IsFiniteSet(T)
  BY FS_AddElement
<1>2. S \in SUBSET T /\ T \in SUBSET T /\ T \ {x} = S /\ x \in T /\ \A y \in T : f[y] \in Int
  OBVIOUS
<1> HIDE DEF T
<1>3. PICK g : Additive(f, T, g)
  BY <1>1, <1>2, AdditiveExists
<1>4. SumFunctionOnSet(f, S) = g[S] /\ SumFunctionOnSet(f, T) = g[T]
  BY <1>1, <1>2, <1>3, SumWithin
<1>5. g[S] \in Int /\ g[T] = f[x] + g[T \ {x}]
  BY <1>2, <1>3 DEF Additive
<1> QED BY <1>2, <1>4, <1>5 DEF T

\* Nothing sums to zero.
LEMMA SumEmpty == ASSUME NEW f PROVE SumFunctionOnSet(f, {}) = 0
<1>1. IsFiniteSet({}) /\ \A x \in {} : f[x] \in Int
  BY FS_EmptySet
<1>2. PICK g : Additive(f, {}, g)
  BY <1>1, AdditiveExists
<1> QED BY <1>1, <1>2, SumIsAdditive DEF Additive

\* Only the values on the set matter.
LEMMA SumAgrees ==
    ASSUME NEW S, IsFiniteSet(S), NEW f, NEW h, \A x \in S : f[x] \in Int /\ h[x] = f[x]
    PROVE  SumFunctionOnSet(h, S) = SumFunctionOnSet(f, S)
<1>1. PICK g : Additive(f, S, g)
  BY AdditiveExists
<1>2. Additive(h, S, g)
  BY <1>1 DEF Additive
<1> QED BY <1>1, <1>2, SumIsAdditive

\* A larger set has a larger sum of amounts.
LEMMA SumGrows ==
    ASSUME NEW T, IsFiniteSet(T), NEW S \in SUBSET T, NEW f, \A x \in T : f[x] \in Nat
    PROVE  /\ SumFunctionOnSet(f, S) \in Nat
           /\ SumFunctionOnSet(f, T) \in Nat
           /\ SumFunctionOnSet(f, S) <= SumFunctionOnSet(f, T)
<1>1. \A x \in T : f[x] \in Int
  OBVIOUS
<1>2. PICK g : Additive(f, T, g)
  BY <1>1, AdditiveExists
<1>3. g \in [SUBSET T -> Int] /\ g[{}] = 0
  BY <1>2 DEF Additive
<1>4. ASSUME NEW U \in SUBSET T, NEW V \in SUBSET T, U \subseteq V
      PROVE  g[U] <= g[V]
  <2> DEFINE Bad == {t \in SUBSET T : U \subseteq t /\ ~(g[U] <= g[t])}
  <2> SUFFICES ASSUME Bad # {} PROVE FALSE
    BY <1>4
  <2>1. Bad \in SUBSET (SUBSET T)
    OBVIOUS
  <2>2. PICK m \in Bad : \A s \in Bad : s \subseteq m => s = m
    <3> HIDE DEF Bad
    <3> QED BY <2>1, SmallestMember
  <2>3. m \in SUBSET T /\ U \subseteq m /\ ~(g[U] <= g[m]) /\ g[U] \in Int /\ g[m] \in Int
    BY <1>3
  <2>4. m # U
    BY <2>3
  <2>5. PICK x \in m : x \notin U
    BY <2>3, <2>4
  <2>6. m \ {x} \in SUBSET T /\ U \subseteq m \ {x} /\ m \ {x} # m
    BY <2>3, <2>5
  <2>7. g[U] <= g[m \ {x}] /\ g[m \ {x}] \in Int
    BY <1>3, <2>2, <2>6
  <2>8. g[m] = f[x] + g[m \ {x}] /\ f[x] \in Nat
    BY <1>2, <2>3, <2>5 DEF Additive
  <2> QED BY <2>3, <2>7, <2>8
<1>5. SumFunctionOnSet(f, S) = g[S] /\ SumFunctionOnSet(f, T) = g[T]
  BY <1>1, <1>2, SumWithin
<1>6. g[{}] <= g[S] /\ g[{}] <= g[T] /\ g[S] <= g[T]
  BY <1>4
<1> QED BY <1>3, <1>5, <1>6

---------------------------------------------------------------------------
(* Requests and capacities *)

LEMMA SmallRemainder ==
    ASSUME NEW n \in Nat, NEW w \in Nat \ {0}, n < w PROVE n % w = n
OBVIOUS

LEMMA DefaultsType ==
    ASSUME NEW w \in Workers
    PROVE  LET c == WithDefaults(Capacity[w])
           IN  /\ c.cpu \in Nat /\ c.memory \in Nat /\ c.gpuCount \in Nat
               /\ c.gpuSharedSlots \in Nat /\ c.maxParallel \in Nat
BY ResourcesAssumption, WidthsAssumption DEF WithDefaults

LEMMA SpecPart ==
    ASSUME NEW gpus \in Seq([sharing : {"exclusive", "shared"}, count : 1 .. U32 - 1])
    PROVE  /\ \A i \in DOMAIN gpus : /\ gpus[i].count \in 1 .. U32 - 1
                                     /\ gpus[i].sharing \in {"exclusive", "shared"}
           /\ gpus # << >> => 1 \in DOMAIN gpus
<1> DEFINE Part == [sharing : {"exclusive", "shared"}, count : 1 .. U32 - 1]
<1>1. gpus \in Seq(Part)
  OBVIOUS
<1> HIDE DEF Part
<1>2. \A i \in DOMAIN gpus : gpus[i] \in Part
  BY <1>1
<1>3. gpus # << >> => 1 \in DOMAIN gpus
  BY <1>1
<1> QED BY <1>2, <1>3 DEF Part

\* The GPUs a request asks for in one mode: none exactly if no part of it names the
\* mode.
LEMMA AskedCounts ==
    ASSUME NEW j \in Jobs, NEW mode
    PROVE  LET r == JobSpec[j].resources
           IN  /\ Asked(r, mode) \in Nat
               /\ Asked(r, mode) > 0 <=> \E i \in DOMAIN r.gpus : r.gpus[i].sharing = mode
<1> DEFINE gpus == JobSpec[j].resources.gpus
           asks == {i \in DOMAIN gpus : gpus[i].sharing = mode}
           count == [i \in asks |-> gpus[i].count]
<1>1. gpus \in Seq([sharing : {"exclusive", "shared"}, count : 1 .. U32 - 1])
  BY ResourcesAssumption
<1>2. IsFiniteSet(asks)
  <2>1. DOMAIN gpus = 1 .. Len(gpus) /\ Len(gpus) \in Nat
    BY <1>1
  <2>2. IsFiniteSet(1 .. Len(gpus))
    BY <2>1, FS_Interval
  <2>3. asks \subseteq 1 .. Len(gpus)
    BY <2>1
  <2> HIDE DEF asks
  <2> QED BY <2>2, <2>3, FS_Subset
<1>3. \A i \in asks : count[i] \in Nat /\ count[i] >= 1
  <2>1. \A i \in DOMAIN gpus : gpus[i].count \in 1 .. U32 - 1
    BY <1>1, SpecPart
  <2> HIDE DEF gpus
  <2> QED BY <2>1, WidthsAssumption
<1>4. Asked(JobSpec[j].resources, mode) = SumFunctionOnSet(count, asks)
  BY DEF Asked, SumFunction
<1> HIDE DEF count, asks
<1>5. SumFunctionOnSet(count, asks) \in Nat
  BY <1>2, <1>3, SumGrows
<1>6. ASSUME NEW i \in asks PROVE SumFunctionOnSet(count, asks) > 0
  <2>1. {i} \in SUBSET asks
    OBVIOUS
  <2>2. SumFunctionOnSet(count, {i}) <= SumFunctionOnSet(count, asks)
    BY <1>2, <1>3, <2>1, SumGrows
  <2>3. SumFunctionOnSet(count, {} \cup {i}) = count[i] + SumFunctionOnSet(count, {})
    <3>1. \A y \in {} \cup {i} : count[y] \in Int
      BY <1>3
    <3>2. IsFiniteSet({}) /\ i \notin {}
      BY FS_EmptySet
    <3> QED BY <3>1, <3>2, SumAdds
  <2>4. {} \cup {i} = {i}
    OBVIOUS
  <2>5. SumFunctionOnSet(count, {i}) = count[i] + 0
    BY <2>3, <2>4, SumEmpty
  <2> QED BY <1>3, <1>5, <2>2, <2>5
<1>7. asks = {} => SumFunctionOnSet(count, asks) = 0
  BY SumEmpty
<1>8. asks # {} <=> \E i \in DOMAIN gpus : gpus[i].sharing = mode
  BY DEF asks
<1> HIDE DEF gpus
<1>9. SumFunctionOnSet(count, asks) > 0 <=> \E i \in DOMAIN gpus : gpus[i].sharing = mode
  BY <1>6, <1>7, <1>8
<1> QED BY <1>4, <1>5, <1>9 DEF gpus

\* What jobFits reads off a request is what the request says.
LEMMA GPUsExact ==
    ASSUME NoWrap, NEW j \in Jobs
    PROVE  LET r == JobSpec[j].resources
           IN  /\ GPUs(r, "shared") = Asked(r, "shared") /\ GPUs(r, "shared") \in Nat
               /\ AsksExclusive(r) => GPUs(r, "exclusive") > 0
               /\ r.gpus # << >> => GPUs(r, "exclusive") > 0 \/ GPUs(r, "shared") > 0
<1> DEFINE r == JobSpec[j].resources
<1>1. /\ Asked(r, "exclusive") \in Nat /\ Asked(r, "shared") \in Nat
      /\ Asked(r, "exclusive") > 0 <=> AsksExclusive(r)
      /\ Asked(r, "shared") > 0 <=> \E i \in DOMAIN r.gpus : r.gpus[i].sharing = "shared"
  BY AskedCounts DEF AsksExclusive
<1>2. GPUs(r, "exclusive") = Asked(r, "exclusive") /\ GPUs(r, "shared") = Asked(r, "shared")
  <2>1. Asked(r, "exclusive") < U32 /\ Asked(r, "shared") < U32
    BY DEF NoWrap
  <2> HIDE DEF r
  <2> QED BY <1>1, <2>1, WidthsAssumption, SmallRemainder DEF GPUs
<1>3. r.gpus # << >> => AsksExclusive(r) \/ \E i \in DOMAIN r.gpus : r.gpus[i].sharing = "shared"
  <2>1. r.gpus \in Seq([sharing : {"exclusive", "shared"}, count : 1 .. U32 - 1])
    BY ResourcesAssumption
  <2> HIDE DEF r
  <2>2. ASSUME r.gpus # << >>
        PROVE  1 \in DOMAIN r.gpus /\ r.gpus[1].sharing \in {"exclusive", "shared"}
    BY <2>1, <2>2, SpecPart
  <2> QED BY <2>2 DEF AsksExclusive
<1> HIDE DEF r
<1>4. /\ GPUs(r, "shared") \in Nat
      /\ AsksExclusive(r) => GPUs(r, "exclusive") > 0
      /\ r.gpus # << >> => GPUs(r, "exclusive") > 0 \/ GPUs(r, "shared") > 0
  BY <1>1, <1>2, <1>3
<1> QED BY <1>2, <1>4 DEF r

---------------------------------------------------------------------------
(* What a worker holds *)

RequestOf(a) == JobSpec[a[1]].resources

Cores  == [a \in AttemptIds |-> RequestOf(a).cpu]
Memory == [a \in AttemptIds |-> RequestOf(a).memory]
Slots  == [a \in AttemptIds |-> Asked(RequestOf(a), "shared")]

\* The attempts S respect what worker w advertises and leave exclusive GPUs alone.
Fitting(S, w) ==
    LET c == WithDefaults(Capacity[w])
    IN  /\ S \in SUBSET AttemptIds /\ IsFiniteSet(S)
        /\ c.cpu > 0 => SumFunctionOnSet(Cores, S) <= c.cpu
        /\ c.memory > 0 => SumFunctionOnSet(Memory, S) <= c.memory
        /\ SumFunctionOnSet(Slots, S) <= c.gpuSharedSlots
        /\ Cardinality(S) <= c.maxParallel
        /\ \A a, b \in S : a # b /\ AsksExclusive(RequestOf(a)) => RequestOf(b).gpus = << >>

LEMMA AmountsType ==
    ASSUME NEW a \in AttemptIds
    PROVE  a[1] \in Jobs /\ Cores[a] \in Nat /\ Memory[a] \in Nat /\ Slots[a] \in Nat
<1>1. a[1] \in Jobs
  BY DEF AttemptIds
<1>2. /\ Cores[a] = JobSpec[a[1]].resources.cpu /\ Memory[a] = JobSpec[a[1]].resources.memory
      /\ Slots[a] = Asked(JobSpec[a[1]].resources, "shared")
  BY DEF Cores, Memory, Slots, RequestOf
<1>3. JobSpec[a[1]].resources.cpu \in Nat /\ JobSpec[a[1]].resources.memory \in Nat
  BY <1>1, ResourcesAssumption
<1> QED BY <1>1, <1>2, <1>3, AskedCounts

LEMMA SumsType ==
    ASSUME NEW S \in SUBSET AttemptIds, IsFiniteSet(S)
    PROVE  /\ SumFunctionOnSet(Cores, S) \in Nat /\ SumFunctionOnSet(Memory, S) \in Nat
           /\ SumFunctionOnSet(Slots, S) \in Nat /\ Cardinality(S) \in Nat
BY AmountsType, SumGrows, FS_CardinalityType

\* What the code sums over a worker's attempts.
LEMMA AllocationSums ==
    ASSUME NoWrap, NEW S \in SUBSET AttemptIds, IsFiniteSet(S)
    PROVE  LET held == [a \in S |-> JobSpec[a[1]].resources]
               sum  == CurrentAllocation(held)
           IN  /\ SumFunction([a \in S |-> held[a].cpu]) = SumFunctionOnSet(Cores, S)
               /\ SumFunction([a \in S |-> held[a].memory]) = SumFunctionOnSet(Memory, S)
               /\ SumFunction([a \in S |-> GPUs(held[a], "shared")])
                      = SumFunctionOnSet(Slots, S)
               /\ sum.cpu = SumFunctionOnSet(Cores, S) % U32
               /\ sum.memory = SumFunctionOnSet(Memory, S) % U64
               /\ sum.slots = SumFunctionOnSet(Slots, S) % U32
               /\ sum.exclusive <=> \E a \in S : AsksExclusive(RequestOf(a))
               /\ sum.inUse <=> \E a \in S : RequestOf(a).gpus # << >>
               /\ sum.active = Cardinality(S)
<1> DEFINE held == [a \in S |-> JobSpec[a[1]].resources]
           cpu == [a \in S |-> held[a].cpu]
           mem == [a \in S |-> held[a].memory]
           gpu == [a \in S |-> GPUs(held[a], "shared")]
<1>1. \A a \in S : held[a] = RequestOf(a) /\ DOMAIN held = S
  BY DEF RequestOf
<1>2. \A a \in S : Cores[a] \in Int /\ cpu[a] = Cores[a]
  BY AmountsType DEF Cores, RequestOf
<1>3. \A a \in S : Memory[a] \in Int /\ mem[a] = Memory[a]
  BY AmountsType DEF Memory, RequestOf
<1>4. \A a \in S : Slots[a] \in Int /\ gpu[a] = Slots[a]
  <2> SUFFICES ASSUME NEW a \in S PROVE Slots[a] \in Int /\ gpu[a] = Slots[a]
    OBVIOUS
  <2>1. a[1] \in Jobs /\ Slots[a] \in Nat
    BY AmountsType
  <2>2. GPUs(JobSpec[a[1]].resources, "shared") = Asked(JobSpec[a[1]].resources, "shared")
    BY <2>1, GPUsExact
  <2>3. gpu[a] = GPUs(JobSpec[a[1]].resources, "shared")
    OBVIOUS
  <2> QED BY <2>1, <2>2, <2>3 DEF Slots, RequestOf
<1>5. DOMAIN cpu = S /\ DOMAIN mem = S /\ DOMAIN gpu = S
  OBVIOUS
<1>6. CurrentAllocation(held) =
         [cpu |-> SumFunction(cpu) % U32, memory |-> SumFunction(mem) % U64,
          slots |-> SumFunction(gpu) % U32,
          exclusive |-> \E a \in S : AsksExclusive(held[a]),
          inUse |-> \E a \in S : held[a].gpus # << >>, active |-> Cardinality(S)]
  BY DEF CurrentAllocation
<1>7. /\ CurrentAllocation(held).exclusive <=> \E a \in S : AsksExclusive(RequestOf(a))
      /\ CurrentAllocation(held).inUse <=> \E a \in S : RequestOf(a).gpus # << >>
      /\ CurrentAllocation(held).active = Cardinality(S)
  <2> DEFINE exclusive == \E a \in S : AsksExclusive(held[a])
             inUse == \E a \in S : held[a].gpus # << >>
  <2>1. CurrentAllocation(held) =
           [cpu |-> SumFunction(cpu) % U32, memory |-> SumFunction(mem) % U64,
            slots |-> SumFunction(gpu) % U32, exclusive |-> exclusive, inUse |-> inUse,
            active |-> Cardinality(S)]
    BY <1>6, Zenon
  <2> HIDE DEF exclusive, inUse, held
  <2>2. /\ CurrentAllocation(held).exclusive = exclusive
        /\ CurrentAllocation(held).inUse = inUse
        /\ CurrentAllocation(held).active = Cardinality(S)
    BY <2>1
  <2>3. exclusive <=> \E a \in S : AsksExclusive(RequestOf(a))
    BY <1>1 DEF exclusive
  <2>4. inUse <=> \E a \in S : RequestOf(a).gpus # << >>
    BY <1>1 DEF inUse
  <2> QED BY <2>2, <2>3, <2>4, Zenon
<1>8. /\ CurrentAllocation(held).cpu = SumFunction(cpu) % U32
      /\ CurrentAllocation(held).memory = SumFunction(mem) % U64
      /\ CurrentAllocation(held).slots = SumFunction(gpu) % U32
  <2> DEFINE exclusive == \E a \in S : AsksExclusive(held[a])
             inUse == \E a \in S : held[a].gpus # << >>
  <2>1. CurrentAllocation(held) =
           [cpu |-> SumFunction(cpu) % U32, memory |-> SumFunction(mem) % U64,
            slots |-> SumFunction(gpu) % U32, exclusive |-> exclusive, inUse |-> inUse,
            active |-> Cardinality(S)]
    BY <1>6, Zenon
  <2> HIDE DEF exclusive, inUse, held, cpu, mem, gpu
  <2> QED BY <2>1
<1> HIDE DEF cpu, mem, gpu
<1>9. /\ SumFunction(cpu) = SumFunctionOnSet(Cores, S)
      /\ SumFunction(mem) = SumFunctionOnSet(Memory, S)
      /\ SumFunction(gpu) = SumFunctionOnSet(Slots, S)
  BY <1>2, <1>3, <1>4, <1>5, SumAgrees DEF SumFunction
<1> QED BY <1>7, <1>8, <1>9 DEF cpu, mem, gpu

\* An attempt that ends makes room.
LEMMA FittingShrinks ==
    ASSUME NEW w \in Workers, NEW S, Fitting(S, w), NEW T \in SUBSET S
    PROVE  Fitting(T, w)
<1> DEFINE c == WithDefaults(Capacity[w])
<1>1. S \in SUBSET AttemptIds /\ IsFiniteSet(S)
  BY DEF Fitting
<1>2. T \in SUBSET AttemptIds /\ IsFiniteSet(T) /\ Cardinality(T) <= Cardinality(S)
  BY <1>1, FS_Subset
<1>3. /\ SumFunctionOnSet(Cores, T) <= SumFunctionOnSet(Cores, S)
      /\ SumFunctionOnSet(Memory, T) <= SumFunctionOnSet(Memory, S)
      /\ SumFunctionOnSet(Slots, T) <= SumFunctionOnSet(Slots, S)
  <2>1. \A a \in S : Cores[a] \in Nat /\ Memory[a] \in Nat /\ Slots[a] \in Nat
    BY <1>1, AmountsType
  <2> QED BY <1>1, <2>1, SumGrows
<1>4. /\ SumFunctionOnSet(Cores, T) \in Nat /\ SumFunctionOnSet(Cores, S) \in Nat
      /\ SumFunctionOnSet(Memory, T) \in Nat /\ SumFunctionOnSet(Memory, S) \in Nat
      /\ SumFunctionOnSet(Slots, T) \in Nat /\ SumFunctionOnSet(Slots, S) \in Nat
      /\ Cardinality(S) \in Nat /\ Cardinality(T) \in Nat
  BY <1>1, <1>2, SumsType
<1>5. c.cpu \in Nat /\ c.memory \in Nat /\ c.gpuSharedSlots \in Nat /\ c.maxParallel \in Nat
  BY DefaultsType
<1>6. /\ c.cpu > 0 => SumFunctionOnSet(Cores, S) <= c.cpu
      /\ c.memory > 0 => SumFunctionOnSet(Memory, S) <= c.memory
      /\ SumFunctionOnSet(Slots, S) <= c.gpuSharedSlots
      /\ Cardinality(S) <= c.maxParallel
  BY DEF Fitting
<1> HIDE DEF c
<1>7. /\ c.cpu > 0 => SumFunctionOnSet(Cores, T) <= c.cpu
      /\ c.memory > 0 => SumFunctionOnSet(Memory, T) <= c.memory
      /\ SumFunctionOnSet(Slots, T) <= c.gpuSharedSlots
      /\ Cardinality(T) <= c.maxParallel
  BY <1>2, <1>3, <1>4, <1>5, <1>6
<1>8. \A a, b \in T : a # b /\ AsksExclusive(RequestOf(a)) => RequestOf(b).gpus = << >>
  BY DEF Fitting
<1> QED BY <1>2, <1>7, <1>8 DEF Fitting, c

\* A test in words that do not wrap is a test of numbers.
LEMMA WordFits ==
    ASSUME NEW n \in Nat, NEW r \in Nat, NEW c \in Nat, NEW word \in Nat \ {0},
           n <= c, c + r < word, ((n % word) + r) % word <= c
    PROVE  n + r <= c
<1>1. n % word = n
  BY SmallRemainder
<1>2. n + r \in Nat /\ n + r < word
  OBVIOUS
<1>3. (n + r) % word = n + r
  BY <1>2, SmallRemainder
<1> QED BY <1>1, <1>3

LEMMA WordStillFits ==
    ASSUME NEW n \in Nat, NEW m \in Nat, NEW r \in Nat, NEW c \in Nat, NEW word \in Nat \ {0},
           n <= m, m <= c, c + r < word, ((m % word) + r) % word <= c
    PROVE  ((n % word) + r) % word <= c
<1>1. m + r <= c
  BY WordFits
<1>2. n % word = n /\ n + r \in Nat /\ n + r < word
  BY SmallRemainder
<1>3. (n + r) % word = n + r
  BY <1>2, SmallRemainder
<1> QED BY <1>1, <1>2, <1>3

\* An attempt that jobFits lets in, on a worker with a place left, fits.
LEMMA FittingAdds ==
    ASSUME NoWrap, NEW w \in Workers, NEW S, Fitting(S, w), NEW a \in AttemptIds, a \notin S,
           NEW held, held = [b \in S |-> JobSpec[b[1]].resources],
           JobFits(JobSpec[a[1]], WithDefaults(Capacity[w]), CurrentAllocation(held)),
           CurrentAllocation(held).active < WithDefaults(Capacity[w]).maxParallel
    PROVE  Fitting(S \cup {a}, w)
<1> DEFINE c == WithDefaults(Capacity[w])
           r == JobSpec[a[1]].resources
           sum == CurrentAllocation(held)
           T == S \cup {a}
<1>1. S \in SUBSET AttemptIds /\ IsFiniteSet(S)
  BY DEF Fitting
<1>2. T \in SUBSET AttemptIds /\ IsFiniteSet(T) /\ Cardinality(T) = Cardinality(S) + 1
  BY <1>1, FS_AddElement
<1>3. a[1] \in Jobs /\ Cores[a] = r.cpu /\ Memory[a] = r.memory /\ Slots[a] = Asked(r, "shared")
      /\ RequestOf(a) = r /\ Cores[a] \in Nat /\ Memory[a] \in Nat /\ Slots[a] \in Nat
  BY AmountsType DEF Cores, Memory, Slots, RequestOf
<1>4. /\ SumFunctionOnSet(Cores, T) = r.cpu + SumFunctionOnSet(Cores, S)
      /\ SumFunctionOnSet(Memory, T) = r.memory + SumFunctionOnSet(Memory, S)
      /\ SumFunctionOnSet(Slots, T) = Asked(r, "shared") + SumFunctionOnSet(Slots, S)
  <2>1. \A b \in T : Cores[b] \in Int /\ Memory[b] \in Int /\ Slots[b] \in Int
    BY <1>2, AmountsType
  <2>2. SumFunctionOnSet(Cores, T) = r.cpu + SumFunctionOnSet(Cores, S)
    BY <1>1, <1>3, <2>1, SumAdds
  <2>3. SumFunctionOnSet(Memory, T) = r.memory + SumFunctionOnSet(Memory, S)
    BY <1>1, <1>3, <2>1, SumAdds
  <2>4. SumFunctionOnSet(Slots, T) = Asked(r, "shared") + SumFunctionOnSet(Slots, S)
    BY <1>1, <1>3, <2>1, SumAdds
  <2> QED BY <2>2, <2>3, <2>4
<1>5. /\ SumFunctionOnSet(Cores, S) \in Nat /\ SumFunctionOnSet(Memory, S) \in Nat
      /\ SumFunctionOnSet(Slots, S) \in Nat /\ Cardinality(S) \in Nat
  BY <1>1, SumsType
<1>6. /\ sum.cpu = SumFunctionOnSet(Cores, S) % U32
      /\ sum.memory = SumFunctionOnSet(Memory, S) % U64
      /\ sum.slots = SumFunctionOnSet(Slots, S) % U32
      /\ sum.exclusive <=> \E b \in S : AsksExclusive(RequestOf(b))
      /\ sum.inUse <=> \E b \in S : RequestOf(b).gpus # << >>
      /\ sum.active = Cardinality(S)
  BY <1>1, AllocationSums
<1>7. c.cpu \in Nat /\ c.memory \in Nat /\ c.gpuSharedSlots \in Nat /\ c.maxParallel \in Nat
  BY DefaultsType
<1>8. /\ c.cpu > 0 => SumFunctionOnSet(Cores, S) <= c.cpu
      /\ c.memory > 0 => SumFunctionOnSet(Memory, S) <= c.memory
      /\ SumFunctionOnSet(Slots, S) <= c.gpuSharedSlots
      /\ \A x, y \in S : x # y /\ AsksExclusive(RequestOf(x)) => RequestOf(y).gpus = << >>
  BY DEF Fitting
<1>9. /\ c.cpu + r.cpu < U32 /\ c.memory + r.memory < U64
      /\ c.gpuSharedSlots + Asked(r, "shared") < U32
  BY <1>3 DEF NoWrap
<1>10. /\ c.cpu > 0 => (sum.cpu + r.cpu) % U32 <= c.cpu
       /\ c.memory > 0 => (sum.memory + r.memory) % U64 <= c.memory
  BY DEF JobFits, ComputeFits
<1>11. GPUFits(r, c, sum)
  BY DEF JobFits
<1>12. /\ GPUs(r, "shared") = Asked(r, "shared")
       /\ AsksExclusive(r) => GPUs(r, "exclusive") > 0
       /\ r.gpus # << >> => GPUs(r, "exclusive") > 0 \/ GPUs(r, "shared") > 0
  BY <1>3, GPUsExact
<1>13. sum.active < c.maxParallel
  OBVIOUS
<1> HIDE DEF c, sum, r, T
<1>14. c.cpu > 0 => SumFunctionOnSet(Cores, T) <= c.cpu
  <2> SUFFICES ASSUME c.cpu > 0 PROVE SumFunctionOnSet(Cores, S) + r.cpu <= c.cpu
    BY <1>3, <1>4, <1>5
  <2> QED BY <1>3, <1>5, <1>6, <1>7, <1>8, <1>9, <1>10, WordFits, WidthsAssumption
<1>15. c.memory > 0 => SumFunctionOnSet(Memory, T) <= c.memory
  <2> SUFFICES ASSUME c.memory > 0 PROVE SumFunctionOnSet(Memory, S) + r.memory <= c.memory
    BY <1>3, <1>4, <1>5
  <2> QED BY <1>3, <1>5, <1>6, <1>7, <1>8, <1>9, <1>10, WordFits, WidthsAssumption
<1>16. SumFunctionOnSet(Slots, T) <= c.gpuSharedSlots
  <2> DEFINE shared == Asked(r, "shared")
  <2>1. shared \in Nat
    BY <1>3
  <2>2. CASE shared = 0
    BY <1>4, <1>5, <1>8, <2>2
  <2>3. CASE shared > 0
    <3>1. (sum.slots + shared) % U32 <= c.gpuSharedSlots
      BY <1>11, <1>12, <2>1, <2>3 DEF GPUFits
    <3> HIDE DEF shared
    <3>2. SumFunctionOnSet(Slots, S) + shared <= c.gpuSharedSlots
      BY <1>5, <1>6, <1>7, <1>8, <1>9, <2>1, <3>1, WordFits, WidthsAssumption DEF shared
    <3> QED BY <1>4, <1>5, <2>1, <3>2 DEF shared
  <2> QED BY <2>1, <2>2, <2>3
<1>17. Cardinality(T) <= c.maxParallel
  BY <1>2, <1>5, <1>6, <1>7, <1>13
<1>18. ASSUME NEW x \in T, NEW y \in T, x # y, AsksExclusive(RequestOf(x))
       PROVE  RequestOf(y).gpus = << >>
  <2>1. CASE x \in S /\ y \in S
    BY <1>8, <1>18, <2>1
  <2>2. CASE x = a
    <3>1. y \in S /\ ~sum.inUse
      BY <1>3, <1>11, <1>12, <1>18, <2>2 DEF GPUFits, T
    <3> QED BY <1>6, <3>1
  <2>3. CASE y = a
    <3>1. x \in S /\ sum.exclusive
      BY <1>6, <1>18, <2>3 DEF T
    <3>2. RequestOf(x).gpus # << >>
      BY <1>18 DEF AsksExclusive
    <3>3. sum.inUse
      BY <1>6, <3>1, <3>2
    <3>4. r.gpus = << >>
      BY <1>11, <1>12, <3>1, <3>3 DEF GPUFits
    <3> QED BY <1>3, <2>3, <3>4
  <2> QED BY <1>18, <2>1, <2>2, <2>3 DEF T
<1>19. \A x, y \in T : x # y /\ AsksExclusive(RequestOf(x)) => RequestOf(y).gpus = << >>
  BY <1>18
<1>20. Fitting(T, w)
  BY <1>2, <1>14, <1>15, <1>16, <1>17, <1>19 DEF Fitting, c
<1> QED BY <1>20 DEF T

---------------------------------------------------------------------------
(* What an event does to its attempt *)

\* Attempt n of `row` becomes x, and the rest of the row is as the event's kind says.
Effect(row, n, j, body, fires, new, x) ==
    LET old == row.attempts[n]
    IN  /\ Replaces(row, new, n, x) /\ x.worker = old.worker /\ new.created = row.created
        /\ \/ /\ body.kind = "attempt_accepted" /\ old.state = "offered"
              /\ x.state = "accepted" /\ x.fired = old.fired
              /\ new.state = row.state /\ new.samples = row.samples /\ new.audit = row.audit
           \/ /\ body.kind = "attempt_started" /\ old.state \in {"offered", "accepted"}
              /\ x.state = "running" /\ x.fired = old.fired
              /\ new.state = IF row.state = "queued" THEN "running" ELSE row.state
              /\ new.samples = row.samples /\ new.audit = Append(row.audit, "attempt_started")
           \/ /\ body.kind = "attempt_finished" /\ old.state \in {"accepted", "running"}
              /\ body.ok \in BOOLEAN
              /\ x.state = AttemptVerdict(row, body.ok)
              /\ x.fired = old.fired \cup {<<p, "finished">> : p \in fires}
              /\ new.state = JobVerdict(row, n, MaxAttempts(j), body.ok)
              /\ new.samples = row.samples /\ new.audit = row.audit \o FinishLog(fires)
           \/ /\ body.kind = "artifacts"
              /\ x.state = old.state /\ x.fired = old.fired
              /\ new.state = row.state /\ new.samples = row.samples /\ new.audit = row.audit
           \/ /\ body.kind = "metric_sample" /\ body.point \in Points
              /\ x.state = old.state /\ x.fired = old.fired
              /\ new.state = row.state /\ new.audit = row.audit
              /\ new.samples = Append(row.samples, [attempt |-> n, point |-> body.point])

LEMMA EventEffect ==
    ASSUME NEW row \in JobRows, NEW n \in DOMAIN row.attempts, NEW j \in Jobs,
           NEW body, NEW fires \in SUBSET Nat, NEW new,
           EventWrites(row, n, j, body, fires, new)
    PROVE  \E x : Effect(row, n, j, body, fires, new, x)
<1> DEFINE old == row.attempts[n]
<1>0. old \in Attempts
  BY DEF JobRows
<1>1. CASE body.kind = "attempt_accepted"
  <2> DEFINE x == [old EXCEPT !.state = "accepted"]
  <2>1. old.state = "offered" /\ new = Accepted(row, n)
    BY <1>1 DEF EventWrites
  <2>2. x.worker = old.worker /\ x.state = "accepted" /\ x.fired = old.fired
    BY <1>0 DEF Attempts
  <2>3. /\ Replaces(row, new, n, x) /\ new.state = row.state
        /\ new.created = row.created /\ new.samples = row.samples /\ new.audit = row.audit
    BY <2>1, AcceptedFields
  <2> HIDE DEF x
  <2>4. Effect(row, n, j, body, fires, new, x)
    BY <1>1, <2>1, <2>2, <2>3 DEF Effect
  <2> QED BY <2>4
<1>2. CASE body.kind = "attempt_started"
  <2> DEFINE x == [old EXCEPT !.state = "running"]
  <2>1. old.state \in {"offered", "accepted"} /\ new = Started(row, n)
    BY <1>2 DEF EventWrites
  <2>2. x.worker = old.worker /\ x.state = "running" /\ x.fired = old.fired
    BY <1>0 DEF Attempts
  <2>3. /\ Replaces(row, new, n, x)
        /\ new.state = IF row.state = "queued" THEN "running" ELSE row.state
        /\ new.samples = row.samples /\ new.created = row.created
        /\ new.audit = Append(row.audit, "attempt_started")
    BY <2>1, StartedFields
  <2> HIDE DEF x
  <2>4. Effect(row, n, j, body, fires, new, x)
    BY <1>2, <2>1, <2>2, <2>3 DEF Effect
  <2> QED BY <2>4
<1>3. CASE body.kind = "attempt_finished"
  <2> DEFINE x == FinishedAttempt(old, AttemptVerdict(row, body.ok), body.files, fires)
  <2>1. /\ old.state \in {"accepted", "running"} /\ new = Finished(row, n, j, body, fires)
        /\ body.ok \in BOOLEAN /\ body.files \in SUBSET Files
    BY <1>3 DEF EventWrites
  <2>2. /\ Replaces(row, new, n, x) /\ new.state = JobVerdict(row, n, MaxAttempts(j), body.ok)
        /\ new.samples = row.samples /\ new.created = row.created
        /\ new.audit = row.audit \o FinishLog(fires)
        /\ x.state = AttemptVerdict(row, body.ok) /\ x.worker = old.worker
        /\ x.fired = old.fired \cup {<<p, "finished">> : p \in fires}
    BY <2>1, FinishedFields
  <2> HIDE DEF x
  <2>3. Effect(row, n, j, body, fires, new, x)
    BY <1>3, <2>1, <2>2 DEF Effect
  <2> QED BY <2>3
<1>4. CASE body.kind = "artifacts"
  <2> DEFINE x == [old EXCEPT !.files = @ \cup body.files]
  <2>1. body.files \in SUBSET Files /\ new = FilesRecorded(row, n, body.files)
    BY <1>4 DEF EventWrites
  <2>2. x.worker = old.worker /\ x.state = old.state /\ x.fired = old.fired
    BY <1>0 DEF Attempts
  <2>3. /\ Replaces(row, new, n, x) /\ new.state = row.state
        /\ new.created = row.created /\ new.samples = row.samples /\ new.audit = row.audit
    BY <2>1, FilesRecordedFields
  <2> HIDE DEF x
  <2>4. Effect(row, n, j, body, fires, new, x)
    BY <1>4, <2>2, <2>3 DEF Effect
  <2> QED BY <2>4
<1>5. CASE body.kind = "metric_sample"
  <2>1. body.point \in Points /\ new = Sampled(row, n, body.point)
    BY <1>5 DEF EventWrites
  <2>2. /\ new.attempts = row.attempts /\ new.state = row.state /\ new.audit = row.audit
        /\ new.created = row.created
        /\ new.samples = Append(row.samples, [attempt |-> n, point |-> body.point])
    BY <2>1, SampledFields
  <2>3. Replaces(row, new, n, old)
    BY <2>2 DEF Replaces
  <2>4. Effect(row, n, j, body, fires, new, old)
    BY <1>5, <2>1, <2>2, <2>3 DEF Effect
  <2> QED BY <2>4
<1> QED BY <1>1, <1>2, <1>3, <1>4, <1>5 DEF EventWrites

---------------------------------------------------------------------------
(* The live attempts of a worker *)

LEMMA LiveSame ==
    ASSUME NEW d, NEW e, \A j \in Jobs : e.job[j].attempts = d.job[j].attempts, NEW w
    PROVE  LiveOn(e, w) = LiveOn(d, w)
<1>1. \A a \in AttemptIds : a[1] \in Jobs
  BY DEF AttemptIds
<1> QED BY <1>1 DEF LiveOn

\* An event makes no attempt live.
LEMMA EventShrinks ==
    ASSUME CoherenceInv, CoherenceInv', NEW v \in Workers, NEW s \in Sessions,
           NEW e \in Events, StepRecords(v, s, e), NEW w
    PROVE  LiveOn(tx', w) \in SUBSET LiveOn(tx, w)
<1> DEFINE j == e.body.attempt[1]
           n == e.body.attempt[2]
           fires == FiresOnFinish(tx, j, tx.job[j].attempts[n])
<1>1. /\ j \in Jobs /\ tx.job[j] \in JobRows /\ n \in DOMAIN tx.job[j].attempts
      /\ fires \in SUBSET Nat
      /\ EventWrites(tx.job[j], n, j, e.body, fires, tx'.job[j])
      /\ \A i \in Jobs \ {j} : tx'.job[i] = tx.job[i]
  <2>1. RecordsWell(v, e)
    BY RecordsRow
  <2> QED BY <2>1 DEF RecordsWell
<1> HIDE DEF j, n, fires
<1>2. PICK x : Effect(tx.job[j], n, j, e.body, fires, tx'.job[j], x)
  BY <1>1, EventEffect
<1> DEFINE old == tx.job[j]
           new == tx'.job[j]
<1>3. /\ DOMAIN new.attempts = DOMAIN old.attempts
      /\ \A m \in DOMAIN old.attempts : new.attempts[m] = IF m = n THEN x ELSE old.attempts[m]
      /\ x.worker = old.attempts[n].worker
  BY <1>2 DEF Effect, Replaces
<1>4. x.state \in Live => old.attempts[n].state \in Live
  <2>1. old.attempts[n].state \in Live \/ x.state = old.attempts[n].state
    BY <1>2 DEF Effect, Live
  <2> QED BY <2>1
<1>5. \A m \in DOMAIN new.attempts :
         /\ m \in DOMAIN old.attempts
         /\ new.attempts[m].worker = old.attempts[m].worker
         /\ new.attempts[m].state \in Live => old.attempts[m].state \in Live
  BY <1>3, <1>4
<1>6. \A a \in AttemptIds : a[1] \in Jobs
  BY DEF AttemptIds
<1>7. ASSUME NEW a \in LiveOn(tx', w) PROVE a \in LiveOn(tx, w)
  <2>1. /\ a \in AttemptIds /\ a[1] \in Jobs /\ a[2] \in DOMAIN tx'.job[a[1]].attempts
        /\ tx'.job[a[1]].attempts[a[2]].worker = w
        /\ tx'.job[a[1]].attempts[a[2]].state \in Live
    BY <1>6 DEF LiveOn
  <2>2. CASE a[1] = j
    BY <1>5, <2>1, <2>2 DEF LiveOn
  <2>3. CASE a[1] # j
    BY <1>1, <2>1, <2>3 DEF LiveOn
  <2> QED BY <2>2, <2>3
<1> QED BY <1>7

\* An offer adds one attempt, to the worker of the sync.
LEMMA OfferAdds ==
    ASSUME CoherenceInv, CoherenceInv', NEW j \in Jobs, StepOffers(j)
    PROVE  LET a == <<j, Len(tx.job[j].attempts) + 1>>
           IN  /\ a \in AttemptIds /\ a[1] = j
               /\ \A w : a \notin LiveOn(tx, w)
               /\ LiveOn(tx', req.worker) = LiveOn(tx, req.worker) \cup {a}
               /\ \A w : w # req.worker => LiveOn(tx', w) = LiveOn(tx, w)
<1> DEFINE N == Len(tx.job[j].attempts) + 1
           a == <<j, N>>
<1>1. /\ tx.job[j] \in JobRows /\ req.worker \in Workers
      /\ tx'.job[j] = Offered(tx.job[j], req.worker)
      /\ \A i \in Jobs \ {j} : tx'.job[i] = tx.job[i]
  BY OffersRow
<1>2. /\ Len(tx'.job[j].attempts) = N
      /\ DOMAIN tx'.job[j].attempts = DOMAIN tx.job[j].attempts \cup {N}
      /\ \A m \in DOMAIN tx.job[j].attempts : tx'.job[j].attempts[m] = tx.job[j].attempts[m]
      /\ tx'.job[j].attempts[N]
            = [worker |-> req.worker, state |-> "offered", files |-> {}, fired |-> {}]
  BY <1>1, OfferedFields
<1>3. N \in 1 .. MaxAttempts(j)
  <2>1. JobCoherent(tx'.job[j], MaxAttempts(j)) /\ tx.job[j].attempts \in Seq(Attempts)
    BY <1>1 DEF CoherenceInv, RowsCoherent, JobRows
  <2>2. MaxAttempts(j) \in Nat /\ Len(tx.job[j].attempts) \in Nat
    BY <2>1, SpecAssumption
  <2> QED BY <1>2, <2>1, <2>2 DEF JobCoherent
<1>4. N \notin DOMAIN tx.job[j].attempts
  <2>1. tx.job[j].attempts \in Seq(Attempts)
    BY <1>1 DEF JobRows
  <2> QED BY <2>1
<1>5. tx'.job[j].attempts[N].worker = req.worker /\ tx'.job[j].attempts[N].state \in Live
  BY <1>2 DEF Live
<1> HIDE DEF N
<1>6. a \in AttemptIds /\ a[1] = j /\ a[2] = N
  BY <1>3 DEF AttemptIds
<1>7. \A b \in AttemptIds : b[1] \in Jobs /\ (b = a <=> b[1] = j /\ b[2] = N)
  BY DEF AttemptIds
<1> HIDE DEF a
<1>8. \A w : a \notin LiveOn(tx, w)
  BY <1>4, <1>6 DEF LiveOn
<1>9. \A w, b : b # a => (b \in LiveOn(tx', w) <=> b \in LiveOn(tx, w))
  <2> SUFFICES ASSUME NEW w, NEW b \in AttemptIds, b # a
               PROVE  b \in LiveOn(tx', w) <=> b \in LiveOn(tx, w)
    BY DEF LiveOn
  <2>1. CASE b[1] = j
    BY <1>2, <1>7, <2>1 DEF LiveOn
  <2>2. CASE b[1] # j
    BY <1>1, <1>7, <2>2 DEF LiveOn
  <2> QED BY <2>1, <2>2
<1>10. \A w : a \in LiveOn(tx', w) <=> w = req.worker
  BY <1>2, <1>5, <1>6 DEF LiveOn
<1>11. LiveOn(tx', req.worker) = LiveOn(tx, req.worker) \cup {a}
  BY <1>9, <1>10
<1>12. ASSUME NEW w, w # req.worker PROVE LiveOn(tx', w) = LiveOn(tx, w)
  BY <1>8, <1>9, <1>10, <1>12
<1> QED BY <1>6, <1>8, <1>11, <1>12 DEF a, N

---------------------------------------------------------------------------
(* The theorems *)

\* The strengthening of ReservationsFit and GPUExclusion: they hold of what the open
\* transaction sees as well, since the offer loop goes by that.
ReservedInv ==
    /\ CoherenceInv
    /\ \A w \in Workers : Fitting(LiveOn(db, w), w) /\ Fitting(LiveOn(tx, w), w)

LEMMA ReservedInit == Init => ReservedInv
<1> SUFFICES ASSUME Init PROVE ReservedInv
  OBVIOUS
<1>1. \A w : LiveOn(db, w) = {} /\ LiveOn(tx, w) = {}
  <2>1. \A a \in AttemptIds : a[1] \in Jobs
    BY DEF AttemptIds
  <2> QED BY <2>1 DEF Init, EmptyDatabase, NoJobRow, LiveOn
<1>2. ASSUME NEW w \in Workers PROVE Fitting({}, w)
  <2>1. IsFiniteSet({}) /\ Cardinality({}) = 0
    BY FS_EmptySet
  <2> QED BY <2>1, SumEmpty, DefaultsType DEF Fitting
<1> QED BY <1>1, <1>2, CoherenceInit DEF ReservedInv

LEMMA ReservedNext ==
    ASSUME NoWrap, ReservedInv, [Next]_vars
    PROVE  ReservedInv'
<1>0. CoherenceInv /\ CoherenceInv'
  BY CoherenceNext DEF ReservedInv
<1>1. \A w \in Workers : Fitting(LiveOn(db, w), w) /\ Fitting(LiveOn(tx, w), w)
  BY DEF ReservedInv
<1> SUFFICES ASSUME NEW w \in Workers
             PROVE  Fitting(LiveOn(db', w), w) /\ Fitting(LiveOn(tx', w), w)
  BY <1>0 DEF ReservedInv, Fitting
<1> DEFINE Goal == Fitting(LiveOn(db', w), w) /\ Fitting(LiveOn(tx', w), w)
<1>2. CASE SameTables(db, db') /\ tx' = db'
  <2>1. LiveOn(db', w) = LiveOn(db, w)
    BY <1>2, LiveSame DEF SameTables
  <2> QED BY <1>1, <1>2, <2>1
<1>3. CASE db' = db /\ SameTables(db, tx')
  <2>1. LiveOn(tx', w) = LiveOn(db, w)
    BY <1>3, LiveSame DEF SameTables
  <2> QED BY <1>1, <1>3, <2>1
<1>4. CASE (db' = db /\ tx' = tx) \/ (db' = tx /\ tx' = tx)
  BY <1>1, <1>4
<1>5. ASSUME NEW k \in Keys, NEW j \in Jobs, NEW rank \in Nat, StepCreates(k, j, rank)
      PROVE  Goal
  <2>1. /\ tx' = db' /\ db.job[j].state = "absent"
        /\ \A i \in Jobs : db'.job[i] = IF i = j THEN Submitted(rank) ELSE db.job[i]
    BY <1>5 DEF StepCreates, Wrote
  <2>2. JobCoherent(db.job[j], MaxAttempts(j)) /\ db.job[j] \in JobRows
    BY <1>0 DEF CoherenceInv, RowsCoherent, TypeOK, Databases
  <2>3. Submitted(rank).attempts = << >> /\ db.job[j].attempts = << >>
    <3>1. Len(db.job[j].attempts) = 0 /\ db.job[j].attempts \in Seq(Attempts)
      BY <2>1, <2>2 DEF JobCoherent, JobRows
    <3> QED BY <3>1 DEF Submitted
  <2>4. LiveOn(db', w) = LiveOn(db, w)
    BY ZenonT(30), <2>1, <2>3, LiveSame
  <2> QED BY <1>1, <2>1, <2>4
<1>6. ASSUME NEW j \in Jobs, StepCancels(j) PROVE Goal
  <2>1. /\ db.job[j] \in JobRows /\ db'.job[j] = Canceled(db.job[j])
        /\ \A i \in Jobs \ {j} : db'.job[i] = db.job[i]
    BY <1>0, <1>6, CancelsRow
  <2>2. db'.job[j].attempts = db.job[j].attempts
    BY <2>1, CanceledFields
  <2>3. LiveOn(db', w) = LiveOn(db, w) /\ tx' = db'
    BY <1>6, <2>1, <2>2, LiveSame DEF StepCancels
  <2> QED BY <1>1, <2>3
<1>7. ASSUME NEW v \in Workers, NEW s \in Sessions, NEW e \in Events, StepRecords(v, s, e)
      PROVE  Goal
  <2>1. db' = db
    BY <1>7 DEF StepRecords
  <2>2. LiveOn(tx', w) \in SUBSET LiveOn(tx, w)
    BY <1>0, <1>7, EventShrinks
  <2> QED BY <1>1, <2>1, <2>2, FittingShrinks
<1>8. ASSUME NEW j \in Jobs, StepOffers(j) PROVE Goal
  <2> DEFINE a == <<j, Len(tx.job[j].attempts) + 1>>
  <2>1. /\ db' = db /\ req.worker \in Workers
        /\ JobFits(JobSpec[j], WithDefaults(Capacity[req.worker]),
                   CurrentAllocation(Held(tx, req.worker)))
        /\ CurrentAllocation(Held(tx, req.worker)).active
               < WithDefaults(Capacity[req.worker]).maxParallel
    BY <1>8 DEF StepOffers, Slack
  <2>2. /\ a \in AttemptIds /\ a[1] = j
        /\ \A v : a \notin LiveOn(tx, v)
        /\ LiveOn(tx', req.worker) = LiveOn(tx, req.worker) \cup {a}
        /\ \A v : v # req.worker => LiveOn(tx', v) = LiveOn(tx, v)
    BY <1>0, <1>8, OfferAdds
  <2> HIDE DEF a
  <2>3. CASE w # req.worker
    BY <1>1, <2>1, <2>2, <2>3
  <2>4. CASE w = req.worker
    <3> DEFINE S == LiveOn(tx, w)
               held == Held(tx, w)
    <3>1. held = [b \in S |-> JobSpec[b[1]].resources]
      BY DEF Held
    <3>2. /\ JobFits(JobSpec[a[1]], WithDefaults(Capacity[w]), CurrentAllocation(held))
          /\ CurrentAllocation(held).active < WithDefaults(Capacity[w]).maxParallel
          /\ a \in AttemptIds /\ a \notin S /\ Fitting(S, w)
      BY <1>1, <2>1, <2>2, <2>4
    <3>3. LiveOn(tx', w) = S \cup {a}
      BY <2>2, <2>4
    <3> HIDE DEF held, S
    <3>4. Fitting(S \cup {a}, w)
      BY <3>1, <3>2, FittingAdds
    <3> QED BY <1>1, <2>1, <3>3, <3>4
  <2> QED BY <2>3, <2>4
<1> QED BY <1>0, <1>2, <1>3, <1>4, <1>5, <1>6, <1>7, <1>8, StepCases

LEMMA Reserved == NoWrap /\ Spec => [](NoWrap /\ ReservedInv)
<1>1. NoWrap /\ ReservedInv /\ [Next]_vars => (NoWrap /\ ReservedInv)'
  <2>1. NoWrap => NoWrap'
    BY DEF NoWrap
  <2> QED BY <2>1, ReservedNext
<1> QED BY <1>1, ReservedInit, PTL DEF Spec

\* Unless a sum wraps, a job that asks for exclusive GPUs never has company on its
\* worker's GPUs (jobFits, offerJobs).
THEOREM GPUsStayExclusive == NoWrap /\ Spec => []GPUExclusion
<1>1. ASSUME ReservedInv PROVE GPUExclusion
  BY <1>1 DEF ReservedInv, Fitting, RequestOf, GPUExclusion
<1> QED BY <1>1, Reserved, PTL

\* Unless a sum wraps, no worker is given more cores, memory, shared GPU slots or
\* attempts than it advertises, over any number of syncs, although each offer is
\* tested alone (currentAllocation, jobFits, offerJobs).
THEOREM ReservationsAlwaysFit == NoWrap /\ Spec => []ReservationsFit
<1>1. ASSUME NoWrap, ReservedInv PROVE ReservationsFit
  <2> SUFFICES ASSUME NEW w \in Workers
               PROVE  LET capacity == WithDefaults(Capacity[w])
                          held == Held(db, w)
                          live == LiveOn(db, w)
                      IN  /\ capacity.cpu > 0 =>
                                 SumFunction([a \in live |-> held[a].cpu]) <= capacity.cpu
                          /\ capacity.memory > 0 =>
                                 SumFunction([a \in live |-> held[a].memory])
                                     <= capacity.memory
                          /\ SumFunction([a \in live |-> GPUs(held[a], "shared")])
                                 <= capacity.gpuSharedSlots
                          /\ Cardinality(live) <= capacity.maxParallel
    BY DEF ReservationsFit
  <2> DEFINE live == LiveOn(db, w)
             held == Held(db, w)
             capacity == WithDefaults(Capacity[w])
  <2>1. /\ live \in SUBSET AttemptIds /\ IsFiniteSet(live)
        /\ capacity.cpu > 0 => SumFunctionOnSet(Cores, live) <= capacity.cpu
        /\ capacity.memory > 0 => SumFunctionOnSet(Memory, live) <= capacity.memory
        /\ SumFunctionOnSet(Slots, live) <= capacity.gpuSharedSlots
        /\ Cardinality(live) <= capacity.maxParallel
    BY <1>1 DEF ReservedInv, Fitting
  <2>2. held = [a \in live |-> JobSpec[a[1]].resources]
    BY DEF Held
  <2> HIDE DEF live, held, capacity
  <2>3. /\ SumFunction([a \in live |-> held[a].cpu]) = SumFunctionOnSet(Cores, live)
        /\ SumFunction([a \in live |-> held[a].memory]) = SumFunctionOnSet(Memory, live)
        /\ SumFunction([a \in live |-> GPUs(held[a], "shared")])
               = SumFunctionOnSet(Slots, live)
    BY <1>1, <2>1, <2>2, AllocationSums
  <2>4. /\ capacity.cpu > 0 => SumFunction([a \in live |-> held[a].cpu]) <= capacity.cpu
        /\ capacity.memory > 0 =>
               SumFunction([a \in live |-> held[a].memory]) <= capacity.memory
        /\ SumFunction([a \in live |-> GPUs(held[a], "shared")]) <= capacity.gpuSharedSlots
        /\ Cardinality(live) <= capacity.maxParallel
    BY <2>1, <2>3
  <2> QED BY <2>4 DEF live, held, capacity
<1> QED BY <1>1, Reserved, PTL

---------------------------------------------------------------------------
(* Places *)

\* A worker has no more live attempts than its parallelism, whatever the sums do.
PlacesKept(S, w) == IsFiniteSet(S) /\ Cardinality(S) <= WithDefaults(Capacity[w]).maxParallel

PlacesInv ==
    /\ CoherenceInv
    /\ \A w \in Workers : PlacesKept(LiveOn(db, w), w) /\ PlacesKept(LiveOn(tx, w), w)

LEMMA PlacesInit == Init => PlacesInv
<1> SUFFICES ASSUME Init PROVE PlacesInv
  OBVIOUS
<1>1. ReservedInv
  BY ReservedInit
<1> QED BY <1>1 DEF ReservedInv, Fitting, PlacesInv, PlacesKept

LEMMA PlacesShrink ==
    ASSUME NEW w \in Workers, NEW S, PlacesKept(S, w), NEW T \in SUBSET S
    PROVE  PlacesKept(T, w)
<1>1. IsFiniteSet(S) /\ IsFiniteSet(T) /\ Cardinality(T) <= Cardinality(S)
  BY FS_Subset DEF PlacesKept
<1>2. /\ Cardinality(S) \in Nat /\ Cardinality(T) \in Nat
      /\ WithDefaults(Capacity[w]).maxParallel \in Nat
  BY <1>1, FS_CardinalityType, DefaultsType
<1> QED BY <1>1, <1>2 DEF PlacesKept

LEMMA PlacesNext ==
    ASSUME PlacesInv, [Next]_vars
    PROVE  PlacesInv'
<1>0. CoherenceInv /\ CoherenceInv'
  BY CoherenceNext DEF PlacesInv
<1>1. \A w \in Workers : PlacesKept(LiveOn(db, w), w) /\ PlacesKept(LiveOn(tx, w), w)
  BY DEF PlacesInv
<1> SUFFICES ASSUME NEW w \in Workers
             PROVE  PlacesKept(LiveOn(db', w), w) /\ PlacesKept(LiveOn(tx', w), w)
  BY <1>0 DEF PlacesInv, PlacesKept
<1> DEFINE Goal == PlacesKept(LiveOn(db', w), w) /\ PlacesKept(LiveOn(tx', w), w)
<1>2. CASE SameTables(db, db') /\ tx' = db'
  <2>1. LiveOn(db', w) = LiveOn(db, w)
    BY <1>2, LiveSame DEF SameTables
  <2> QED BY <1>1, <1>2, <2>1
<1>3. CASE db' = db /\ SameTables(db, tx')
  <2>1. LiveOn(tx', w) = LiveOn(db, w)
    BY <1>3, LiveSame DEF SameTables
  <2> QED BY <1>1, <1>3, <2>1
<1>4. CASE (db' = db /\ tx' = tx) \/ (db' = tx /\ tx' = tx)
  BY <1>1, <1>4
<1>5. ASSUME NEW k \in Keys, NEW j \in Jobs, NEW rank \in Nat, StepCreates(k, j, rank)
      PROVE  Goal
  <2>1. /\ tx' = db' /\ db.job[j].state = "absent"
        /\ \A i \in Jobs : db'.job[i] = IF i = j THEN Submitted(rank) ELSE db.job[i]
    BY <1>5 DEF StepCreates, Wrote
  <2>2. JobCoherent(db.job[j], MaxAttempts(j)) /\ db.job[j] \in JobRows
    BY <1>0 DEF CoherenceInv, RowsCoherent, TypeOK, Databases
  <2>3. Submitted(rank).attempts = << >> /\ db.job[j].attempts = << >>
    <3>1. Len(db.job[j].attempts) = 0 /\ db.job[j].attempts \in Seq(Attempts)
      BY <2>1, <2>2 DEF JobCoherent, JobRows
    <3> QED BY <3>1 DEF Submitted
  <2>4. LiveOn(db', w) = LiveOn(db, w)
    BY ZenonT(30), <2>1, <2>3, LiveSame
  <2> QED BY <1>1, <2>1, <2>4
<1>6. ASSUME NEW j \in Jobs, StepCancels(j) PROVE Goal
  <2>1. /\ db.job[j] \in JobRows /\ db'.job[j] = Canceled(db.job[j])
        /\ \A i \in Jobs \ {j} : db'.job[i] = db.job[i]
    BY <1>0, <1>6, CancelsRow
  <2>2. db'.job[j].attempts = db.job[j].attempts
    BY <2>1, CanceledFields
  <2>3. LiveOn(db', w) = LiveOn(db, w) /\ tx' = db'
    BY <1>6, <2>1, <2>2, LiveSame DEF StepCancels
  <2> QED BY <1>1, <2>3
<1>7. ASSUME NEW v \in Workers, NEW s \in Sessions, NEW e \in Events, StepRecords(v, s, e)
      PROVE  Goal
  <2>1. db' = db
    BY <1>7 DEF StepRecords
  <2>2. LiveOn(tx', w) \in SUBSET LiveOn(tx, w)
    BY <1>0, <1>7, EventShrinks
  <2> QED BY <1>1, <2>1, <2>2, PlacesShrink
<1>8. ASSUME NEW j \in Jobs, StepOffers(j) PROVE Goal
  <2> DEFINE a == <<j, Len(tx.job[j].attempts) + 1>>
  <2>1. /\ db' = db /\ req.worker \in Workers
        /\ CurrentAllocation(Held(tx, req.worker)).active
               < WithDefaults(Capacity[req.worker]).maxParallel
    BY <1>8 DEF StepOffers, Slack
  <2>2. /\ a \notin LiveOn(tx, req.worker)
        /\ LiveOn(tx', req.worker) = LiveOn(tx, req.worker) \cup {a}
        /\ \A v : v # req.worker => LiveOn(tx', v) = LiveOn(tx, v)
    BY <1>0, <1>8, OfferAdds
  <2> HIDE DEF a
  <2>3. CASE w # req.worker
    BY <1>1, <2>1, <2>2, <2>3
  <2>4. CASE w = req.worker
    <3> DEFINE S == LiveOn(tx, w)
    <3>1. CurrentAllocation(Held(tx, w)).active = Cardinality(S)
      BY DEF CurrentAllocation, Held
    <3>2. IsFiniteSet(S) /\ a \notin S /\ LiveOn(tx', w) = S \cup {a}
      BY <1>1, <2>2, <2>4 DEF PlacesKept
    <3> HIDE DEF S
    <3>3. IsFiniteSet(S \cup {a}) /\ Cardinality(S \cup {a}) = Cardinality(S) + 1
          /\ Cardinality(S) \in Nat
      BY <3>2, FS_AddElement, FS_CardinalityType
    <3>4. WithDefaults(Capacity[w]).maxParallel \in Nat
      BY DefaultsType
    <3>5. PlacesKept(S \cup {a}, w)
      BY <2>1, <2>4, <3>1, <3>3, <3>4 DEF PlacesKept
    <3> QED BY <1>1, <2>1, <3>2, <3>5
  <2> QED BY <2>3, <2>4
<1> QED BY <1>0, <1>2, <1>3, <1>4, <1>5, <1>6, <1>7, <1>8, StepCases

LEMMA Places == Spec => []PlacesInv
BY PlacesInit, PlacesNext, PTL DEF Spec

---------------------------------------------------------------------------
(* Jobs are offered in their order *)

Known(d) == {j \in Jobs : d.job[j].state # "absent"}

\* The jobs are finitely many and no two have the same created_at.
Ranked(d) ==
    /\ IsFiniteSet(Known(d))
    /\ \A i, j \in Known(d) : i # j => d.job[i].created # d.job[j].created

LEMMA RankedKept ==
    ASSUME NEW d, NEW e, Ranked(d),
           \A j \in Jobs : /\ e.job[j].state = "absent" <=> d.job[j].state = "absent"
                           /\ e.job[j].created = d.job[j].created
    PROVE  Ranked(e)
<1>1. Known(e) = Known(d) /\ \A j \in Known(d) : e.job[j].created = d.job[j].created
  BY DEF Known
<1> QED BY <1>1 DEF Ranked

LEMMA BeforeOrders ==
    ASSUME NEW d \in Databases, NEW i \in Jobs, NEW j \in Jobs, NEW k \in Jobs
    PROVE  /\ Before(d, i, j) /\ Before(d, j, k) => Before(d, i, k)
           /\ Ranked(d) /\ i # j /\ i \in Known(d) /\ j \in Known(d)
                  => Before(d, i, j) \/ Before(d, j, i)
<1>1. \A l \in Jobs : JobSpec[l].priority \in Int /\ d.job[l].created \in Nat
  BY SpecAssumption DEF Databases, JobRows
<1>2. ASSUME Ranked(d), i # j, i \in Known(d), j \in Known(d)
      PROVE  d.job[i].created # d.job[j].created
  BY <1>2 DEF Ranked
<1> QED BY <1>1, <1>2 DEF Before

\* The jobs the sync of db, now at e, has given its worker, those it still may, and
\* those of them before job j.
Queued(e) == {j \in Jobs : Schedulable(e.job[j])}
Given(d, e) == {j \in Jobs : Len(e.job[j].attempts) > Len(d.job[j].attempts)}
Waiting(d, e) == Given(d, e) \cup Queued(e)
Ahead(d, e, j) == {k \in Waiting(d, e) : Before(e, k, j)}

Fits(e, w, j) ==
    JobFits(JobSpec[j], WithDefaults(Capacity[w]), CurrentAllocation(Held(e, w)))

LEMMA AheadFinite ==
    ASSUME NEW d \in Databases, NEW e \in Databases, RowsCoherent(e), Ranked(e), NEW j
    PROVE  /\ Waiting(d, e) \in SUBSET Known(e)
           /\ IsFiniteSet(Ahead(d, e, j)) /\ Cardinality(Ahead(d, e, j)) \in Nat
<1>1. ASSUME NEW k \in Given(d, e) PROVE k \in Known(e)
  <2>1. /\ k \in Jobs /\ Len(e.job[k].attempts) > Len(d.job[k].attempts)
        /\ e.job[k] \in JobRows /\ d.job[k] \in JobRows /\ JobCoherent(e.job[k], MaxAttempts(k))
    BY DEF Given, Databases, RowsCoherent
  <2>2. Len(e.job[k].attempts) \in Nat /\ Len(d.job[k].attempts) \in Nat
    BY <2>1 DEF JobRows
  <2> QED BY <2>1, <2>2 DEF JobCoherent, Known
<1>2. Queued(e) \in SUBSET Known(e)
  BY DEF Queued, Schedulable, Known
<1>3. Waiting(d, e) \in SUBSET Known(e)
  BY <1>1, <1>2 DEF Waiting
<1>4. Ahead(d, e, j) \in SUBSET Known(e)
  BY <1>3 DEF Ahead
<1> QED BY <1>3, <1>4, FS_Subset, FS_CardinalityType DEF Ranked

\* What the offer loop has established with `scan` still to look at.
InTurn(d, e, w, scan) ==
    /\ \A k \in Given(d, e) : HasLiveAttempt(e.job[k])
    /\ \A k \in Given(d, e) \cup scan : Cardinality(Ahead(d, e, k)) < ScanLimit
    /\ \A k \in Given(d, e), j \in scan : Before(e, k, j)
    /\ \A j \in Queued(e) :
           \/ j \in scan
           \/ Cardinality(Ahead(d, e, j)) >= ScanLimit
           \/ ~Fits(e, w, j)
           \/ ~Slack(e, w) /\ Given(d, e) = {}

\* More attempts on a worker never make room for a job.
LEMMA FitsShrinks ==
    ASSUME NoWrap, NEW w \in Workers, NEW T, Fitting(T, w), NEW S \in SUBSET T, NEW j \in Jobs,
           JobFits(JobSpec[j], WithDefaults(Capacity[w]),
                   CurrentAllocation([a \in T |-> JobSpec[a[1]].resources]))
    PROVE  JobFits(JobSpec[j], WithDefaults(Capacity[w]),
                   CurrentAllocation([a \in S |-> JobSpec[a[1]].resources]))
<1> DEFINE c == WithDefaults(Capacity[w])
           r == JobSpec[j].resources
           small == CurrentAllocation([a \in S |-> JobSpec[a[1]].resources])
           large == CurrentAllocation([a \in T |-> JobSpec[a[1]].resources])
<1>1. Fitting(S, w)
  BY FittingShrinks
<1>2. /\ S \in SUBSET AttemptIds /\ IsFiniteSet(S) /\ T \in SUBSET AttemptIds /\ IsFiniteSet(T)
      /\ c.cpu > 0 => SumFunctionOnSet(Cores, S) <= c.cpu /\ SumFunctionOnSet(Cores, T) <= c.cpu
      /\ c.memory > 0 => SumFunctionOnSet(Memory, S) <= c.memory
                         /\ SumFunctionOnSet(Memory, T) <= c.memory
      /\ SumFunctionOnSet(Slots, S) <= c.gpuSharedSlots
      /\ SumFunctionOnSet(Slots, T) <= c.gpuSharedSlots
  BY <1>1 DEF Fitting
<1>3. /\ SumFunctionOnSet(Cores, S) \in Nat /\ SumFunctionOnSet(Cores, T) \in Nat
      /\ SumFunctionOnSet(Memory, S) \in Nat /\ SumFunctionOnSet(Memory, T) \in Nat
      /\ SumFunctionOnSet(Slots, S) \in Nat /\ SumFunctionOnSet(Slots, T) \in Nat
  BY <1>2, SumsType
<1>4. /\ SumFunctionOnSet(Cores, S) <= SumFunctionOnSet(Cores, T)
      /\ SumFunctionOnSet(Memory, S) <= SumFunctionOnSet(Memory, T)
      /\ SumFunctionOnSet(Slots, S) <= SumFunctionOnSet(Slots, T)
  <2>1. \A a \in T : Cores[a] \in Nat /\ Memory[a] \in Nat /\ Slots[a] \in Nat
    BY <1>2, AmountsType
  <2> QED BY <1>2, <2>1, SumGrows
<1>5. /\ small.cpu = SumFunctionOnSet(Cores, S) % U32
      /\ small.memory = SumFunctionOnSet(Memory, S) % U64
      /\ small.slots = SumFunctionOnSet(Slots, S) % U32
      /\ small.exclusive <=> \E b \in S : AsksExclusive(RequestOf(b))
      /\ small.inUse <=> \E b \in S : RequestOf(b).gpus # << >>
  BY <1>2, AllocationSums
<1>6. /\ large.cpu = SumFunctionOnSet(Cores, T) % U32
      /\ large.memory = SumFunctionOnSet(Memory, T) % U64
      /\ large.slots = SumFunctionOnSet(Slots, T) % U32
      /\ large.exclusive <=> \E b \in T : AsksExclusive(RequestOf(b))
      /\ large.inUse <=> \E b \in T : RequestOf(b).gpus # << >>
  BY <1>2, AllocationSums
<1>7. c.cpu \in Nat /\ c.memory \in Nat /\ c.gpuSharedSlots \in Nat
  BY DefaultsType
<1>8. r.cpu \in Nat /\ r.memory \in Nat /\ Asked(r, "shared") \in Nat
      /\ GPUs(r, "shared") = Asked(r, "shared")
  BY ResourcesAssumption, AskedCounts, GPUsExact
<1>9. /\ c.cpu + r.cpu < U32 /\ c.memory + r.memory < U64
      /\ c.gpuSharedSlots + Asked(r, "shared") < U32
  BY DEF NoWrap
<1>10. /\ PlaceFits(JobSpec[j], c) /\ GPUFits(r, c, large)
       /\ c.cpu > 0 => (large.cpu + r.cpu) % U32 <= c.cpu
       /\ c.memory > 0 => (large.memory + r.memory) % U64 <= c.memory
  BY DEF JobFits, ComputeFits
<1> HIDE DEF c, r, small, large
<1>11. c.cpu > 0 => (small.cpu + r.cpu) % U32 <= c.cpu
  <2> SUFFICES ASSUME c.cpu > 0 PROVE (small.cpu + r.cpu) % U32 <= c.cpu
    OBVIOUS
  <2> DEFINE n == SumFunctionOnSet(Cores, S)
             m == SumFunctionOnSet(Cores, T)
  <2>1. /\ n \in Nat /\ m \in Nat /\ n <= m /\ m <= c.cpu /\ small.cpu = n % U32
        /\ ((m % U32) + r.cpu) % U32 <= c.cpu
    BY <1>2, <1>3, <1>4, <1>5, <1>6, <1>10
  <2> HIDE DEF n, m
  <2> QED BY <1>7, <1>8, <1>9, <2>1, WordStillFits, WidthsAssumption
<1>12. c.memory > 0 => (small.memory + r.memory) % U64 <= c.memory
  <2> SUFFICES ASSUME c.memory > 0 PROVE (small.memory + r.memory) % U64 <= c.memory
    OBVIOUS
  <2> DEFINE n == SumFunctionOnSet(Memory, S)
             m == SumFunctionOnSet(Memory, T)
  <2>1. /\ n \in Nat /\ m \in Nat /\ n <= m /\ m <= c.memory /\ small.memory = n % U64
        /\ ((m % U64) + r.memory) % U64 <= c.memory
    BY <1>2, <1>3, <1>4, <1>5, <1>6, <1>10
  <2> HIDE DEF n, m
  <2> QED BY <1>7, <1>8, <1>9, <2>1, WordStillFits, WidthsAssumption
<1>13. GPUFits(r, c, small)
  <2> DEFINE n == SumFunctionOnSet(Slots, S)
             m == SumFunctionOnSet(Slots, T)
             q == GPUs(r, "shared")
  <2>1. (small.exclusive => large.exclusive) /\ (small.inUse => large.inUse)
    BY <1>5, <1>6
  <2>2. /\ n \in Nat /\ m \in Nat /\ n <= m /\ m <= c.gpuSharedSlots /\ small.slots = n % U32
        /\ large.slots = m % U32 /\ q \in Nat /\ c.gpuSharedSlots + q < U32
    BY <1>2, <1>3, <1>4, <1>5, <1>6, <1>8, <1>9
  <2> HIDE DEF n, m
  <2>3. (large.slots + q) % U32 <= c.gpuSharedSlots
            => (small.slots + q) % U32 <= c.gpuSharedSlots
    <3> HIDE DEF q
    <3> QED BY <1>7, <2>2, WordStillFits, WidthsAssumption
  <2> QED BY <1>10, <2>1, <2>3 DEF GPUFits
<1>14. JobFits(JobSpec[j], c, small)
  BY <1>10, <1>11, <1>12, <1>13 DEF JobFits, ComputeFits, r
<1> QED BY <1>14 DEF c, small

\* An event leaves its job's place in the queue and the number of its attempts.
LEMMA EventKeeps ==
    ASSUME CoherenceInv, CoherenceInv', NEW w \in Workers, NEW s \in Sessions,
           NEW e \in Events, StepRecords(w, s, e)
    PROVE  \A i \in Jobs : /\ tx'.job[i].created = tx.job[i].created
                           /\ Len(tx'.job[i].attempts) = Len(tx.job[i].attempts)
<1> DEFINE j == e.body.attempt[1]
           n == e.body.attempt[2]
           fires == FiresOnFinish(tx, j, tx.job[j].attempts[n])
<1>1. /\ j \in Jobs /\ tx.job[j] \in JobRows /\ n \in DOMAIN tx.job[j].attempts
      /\ fires \in SUBSET Nat
      /\ EventWrites(tx.job[j], n, j, e.body, fires, tx'.job[j])
      /\ \A i \in Jobs \ {j} : tx'.job[i] = tx.job[i]
  <2>1. RecordsWell(w, e)
    BY RecordsRow
  <2> QED BY <2>1 DEF RecordsWell
<1> HIDE DEF j, n, fires
<1>2. PICK x : Effect(tx.job[j], n, j, e.body, fires, tx'.job[j], x)
  BY <1>1, EventEffect
<1>3. /\ tx'.job[j].created = tx.job[j].created
      /\ Len(tx'.job[j].attempts) = Len(tx.job[j].attempts)
  BY <1>2 DEF Effect, Replaces
<1> QED BY <1>1, <1>3

LEMMA RankedNext ==
    ASSUME CoherenceInv, CoherenceInv', Ranked(db), Ranked(tx), [Next]_vars
    PROVE  Ranked(db') /\ Ranked(tx')
<1> DEFINE Goal == Ranked(db') /\ Ranked(tx')
<1>1. CASE SameTables(db, db') /\ tx' = db'
  BY <1>1, RankedKept DEF SameTables
<1>2. CASE db' = db /\ SameTables(db, tx')
  BY <1>2, RankedKept DEF SameTables
<1>3. CASE (db' = db /\ tx' = tx) \/ (db' = tx /\ tx' = tx)
  BY <1>3
<1>4. ASSUME NEW k \in Keys, NEW j \in Jobs, NEW rank \in Nat, StepCreates(k, j, rank)
      PROVE  Goal
  <2>1. /\ tx' = db' /\ db.job[j].state = "absent" /\ \A i \in Jobs : db.job[i].created # rank
        /\ \A i \in Jobs : db'.job[i] = IF i = j THEN Submitted(rank) ELSE db.job[i]
    BY <1>4 DEF StepCreates, Wrote
  <2>2. Submitted(rank).state = "queued" /\ Submitted(rank).created = rank
    BY DEF Submitted
  <2>3. Known(db') = Known(db) \cup {j}
    BY <2>1, <2>2 DEF Known
  <2>4. IsFiniteSet(Known(db'))
    BY <2>3, FS_AddElement DEF Ranked
  <2>5. ASSUME NEW i \in Known(db'), NEW l \in Known(db'), i # l
        PROVE  db'.job[i].created # db'.job[l].created
    <3>1. \A m \in Known(db) : m # j /\ m \in Jobs /\ db'.job[m] = db.job[m]
      BY <2>1 DEF Known
    <3>2. db'.job[j].created = rank
      BY <2>1, <2>2
    <3>3. CASE i = j \/ l = j
      BY <2>1, <2>3, <2>5, <3>1, <3>2, <3>3
    <3>4. CASE i \in Known(db) /\ l \in Known(db)
      BY <2>5, <3>1, <3>4 DEF Ranked
    <3> QED BY <2>3, <3>3, <3>4
  <2> QED BY <2>1, <2>4, <2>5 DEF Ranked
<1>5. ASSUME NEW j \in Jobs, StepCancels(j) PROVE Goal
  <2>1. /\ db.job[j] \in JobRows /\ db'.job[j] = Canceled(db.job[j])
        /\ db.job[j].state \in {"queued", "running"}
        /\ db'.job[j].state \in {"canceling", "canceled"}
        /\ \A i \in Jobs \ {j} : db'.job[i] = db.job[i]
    BY <1>5, CancelsRow
  <2>2. db'.job[j].created = db.job[j].created /\ tx' = db'
    BY <1>5, <2>1, CanceledFields DEF StepCancels
  <2> QED BY <2>1, <2>2, RankedKept
<1>6. ASSUME NEW w \in Workers, NEW s \in Sessions, NEW e \in Events, StepRecords(w, s, e)
      PROVE  Goal
  <2> DEFINE j == e.body.attempt[1]
  <2>1. /\ j \in Jobs /\ tx.job[j].state # "absent" /\ tx'.job[j].state # "absent"
        /\ \A i \in Jobs \ {j} : tx'.job[i] = tx.job[i]
    <3>1. RecordsWell(w, e)
      BY <1>6, RecordsRow
    <3> QED BY <3>1 DEF RecordsWell
  <2>2. tx'.job[j].created = tx.job[j].created /\ db' = db
    BY <1>6, <2>1, EventKeeps DEF StepRecords
  <2> HIDE DEF j
  <2> QED BY <2>1, <2>2, RankedKept
<1>7. ASSUME NEW j \in Jobs, StepOffers(j) PROVE Goal
  <2>1. /\ tx.job[j] \in JobRows /\ req.worker \in Workers
        /\ tx'.job[j] = Offered(tx.job[j], req.worker)
        /\ \A i \in Jobs \ {j} : tx'.job[i] = tx.job[i]
    BY <1>7, OffersRow
  <2>2. tx'.job[j].created = tx.job[j].created /\ tx'.job[j].state = tx.job[j].state
    <3> DEFINE row == tx.job[j]
               w == req.worker
    <3>1. row \in JobRows /\ w \in Workers /\ tx'.job[j] = Offered(row, w)
      BY <2>1
    <3> HIDE DEF row, w
    <3>2. Offered(row, w).created = row.created /\ Offered(row, w).state = row.state
      BY <3>1, OfferedFields
    <3> QED BY <3>1, <3>2 DEF row
  <2>3. db' = db
    BY <1>7 DEF StepOffers
  <2> QED BY <2>1, <2>2, <2>3, RankedKept
<1> QED BY <1>1, <1>2, <1>3, <1>4, <1>5, <1>6, <1>7, StepCases

\* The steps that leave a sync in its offers.
LEMMA OfferSteps ==
    ASSUME TypeOK, [Next]_vars, req'.phase = "offers"
    PROVE  UNCHANGED vars \/ BeginOffers \/ \E j \in Jobs : OfferNext(j)
<1> DEFINE Goal == UNCHANGED vars \/ BeginOffers \/ \E j \in Jobs : OfferNext(j)
<1>1. ASSUME NEW d, Do(d) PROVE FALSE
  BY <1>1 DEF Do, Idle
<1>2. CASE Operator
  BY <1>1, <1>2 DEF Operator, CreateWorker, CreateWebhookTarget, CreateJob, CancelJob
<1>3. ASSUME NEW w \in Workers, NEW s \in Sessions, BeginSync(w, s) PROVE FALSE
  BY <1>3 DEF BeginSync
<1>4. ASSUME NEW e \in Events, RecordEvent(e) PROVE FALSE
  BY <1>4 DEF RecordEvent
<1>5. ASSUME Commit \/ Rollback PROVE FALSE
  BY <1>5 DEF Commit, Rollback, Idle
<1> QED BY <1>2, <1>3, <1>4, <1>5 DEF Next, Sync

\* The candidate query, or the early return of a worker that is full.
LEMMA TurnBegins ==
    ASSUME CoherenceInv, Ranked(tx), BeginOffers,
           \A j \in Jobs : Len(tx.job[j].attempts) = Len(db.job[j].attempts)
    PROVE  InTurn(db', tx', req'.worker, req'.scan)
<1>1. db \in Databases /\ tx \in Databases /\ req \in Requests \cup {Idle} /\ RowsCoherent(tx)
  BY DEF CoherenceInv, TypeOK
<1>2. req \in Requests /\ db' = db /\ tx' = tx
  BY <1>1 DEF BeginOffers, Idle
<1> DEFINE w == req.worker
           scan == IF Slack(tx, w) THEN Candidates(tx) ELSE {}
<1>3. req'.worker = w /\ req'.scan = scan
  BY <1>2 DEF BeginOffers, Requests
<1>4. Given(db, tx) = {}
  <2>1. \A j \in Jobs : Len(tx.job[j].attempts) \in Nat
    BY <1>1 DEF Databases, JobRows
  <2> QED BY <2>1 DEF Given
<1>5. \A j : Ahead(db, tx, j) = {k \in Queued(tx) : Before(tx, k, j)}
  BY <1>4 DEF Ahead, Waiting
<1>6. Candidates(tx) = {j \in Queued(tx) : Cardinality(Ahead(db, tx, j)) < ScanLimit}
  BY <1>5 DEF Candidates, Queued
<1>7. \A j : Cardinality(Ahead(db, tx, j)) \in Nat
  BY <1>1, AheadFinite
<1>8. \A k \in scan : Cardinality(Ahead(db, tx, k)) < ScanLimit
  BY <1>6
<1>9. ASSUME NEW j \in Queued(tx)
      PROVE  \/ j \in scan
             \/ Cardinality(Ahead(db, tx, j)) >= ScanLimit
             \/ ~Slack(tx, w) /\ Given(db, tx) = {}
  <2>1. ScanLimit \in Nat
    BY SpecAssumption
  <2> QED BY <1>4, <1>6, <1>7, <2>1
<1> HIDE DEF scan
<1>10. InTurn(db, tx, w, scan)
  BY <1>4, <1>8, <1>9 DEF InTurn
<1> QED BY <1>2, <1>3, <1>10

\* A job that does not fit is skipped.
LEMMA TurnSkips ==
    ASSUME NEW d, NEW e, NEW w, NEW scan, InTurn(d, e, w, scan), NEW j, ~Fits(e, w, j)
    PROVE  InTurn(d, e, w, scan \ {j})
BY DEF InTurn

\* The first job of the scan is offered.
LEMMA TurnOffers ==
    ASSUME NoWrap, HistoryInv, ReservedInv, ReservedInv', Ranked(tx), NEW j \in Jobs, StepOffers(j),
           j \in req.scan, \A k \in req.scan : ~Before(tx, k, j), req.scan \in SUBSET Jobs,
           InTurn(db, tx, req.worker, req.scan)
    PROVE  InTurn(db', tx', req.worker, req.scan \ {j})
<1> DEFINE w == req.worker
           scan == req.scan
           rest == scan \ {j}
<1>1. /\ CoherenceInv /\ CoherenceInv' /\ db \in Databases /\ tx \in Databases
      /\ RowsCoherent(tx) /\ scan \in SUBSET Queued(tx)
  BY DEF ReservedInv, CoherenceInv, TypeOK, StepOffers, Queued
<1>2. /\ tx.job[j] \in JobRows /\ w \in Workers /\ Schedulable(tx.job[j])
      /\ tx'.job[j] = Offered(tx.job[j], w)
      /\ \A i \in Jobs \ {j} : tx'.job[i] = tx.job[i]
  BY <1>1, OffersRow
<1>3. db' = db /\ Slack(tx, w)
  BY DEF StepOffers
<1> DEFINE N == Len(tx.job[j].attempts) + 1
<1>4. /\ tx'.job[j].created = tx.job[j].created /\ Len(tx'.job[j].attempts) = N
      /\ N \in DOMAIN tx'.job[j].attempts
      /\ tx'.job[j].attempts[N]
            = [worker |-> w, state |-> "offered", files |-> {}, fired |-> {}]
  BY <1>2, OfferedFields
<1>5. HasLiveAttempt(tx'.job[j])
  <2>1. tx'.job[j].attempts[N].state \in Live
    BY <1>4 DEF Live
  <2> QED BY <1>4, <2>1 DEF HasLiveAttempt
<1>6. \A k \in Given(db, tx) : k \in Jobs /\ ~Schedulable(tx.job[k])
  BY DEF InTurn, Schedulable, Given
<1>7. Given(db, tx') = Given(db, tx) \cup {j}
  <2>1. Len(tx'.job[j].attempts) > Len(db.job[j].attempts)
    <3>1. ~(Len(tx.job[j].attempts) > Len(db.job[j].attempts))
      BY <1>2, <1>6 DEF Given
    <3>2. Len(tx.job[j].attempts) \in Nat /\ Len(db.job[j].attempts) \in Nat
      BY <1>1 DEF Databases, JobRows
    <3>3. Len(db.job[j].attempts) = Len(tx.job[j].attempts)
      BY <3>1, <3>2 DEF HistoryInv, Extends
    <3> QED BY SMTT(30), <1>4, <3>2, <3>3
  <2> QED BY <1>2, <2>1 DEF Given
<1>8. Queued(tx') = Queued(tx) \ {j} /\ j \in Queued(tx)
  BY <1>2, <1>5 DEF Queued, Schedulable
<1>9. Waiting(db, tx') = Waiting(db, tx)
  BY <1>7, <1>8 DEF Waiting
<1>10. \A i, k \in Jobs : Before(tx', i, k) <=> Before(tx, i, k)
  BY <1>2, <1>4 DEF Before
<1>11. \A k \in Jobs : Ahead(db, tx', k) = Ahead(db, tx, k)
  <2>1. Waiting(db, tx) \in SUBSET Jobs
    BY DEF Waiting, Given, Queued
  <2> QED BY <1>9, <1>10, <2>1 DEF Ahead
<1>12. ASSUME NEW i \in Jobs, Fits(tx', w, i) PROVE Fits(tx, w, i)
  <2>1. Fitting(LiveOn(tx', w), w) /\ LiveOn(tx, w) \in SUBSET LiveOn(tx', w)
    <3>1. LiveOn(tx', w) = LiveOn(tx, w) \cup {<<j, Len(tx.job[j].attempts) + 1>>}
      BY <1>1, OfferAdds
    <3> QED BY <1>2, <3>1 DEF ReservedInv
  <2>2. /\ Held(tx, w) = [a \in LiveOn(tx, w) |-> JobSpec[a[1]].resources]
        /\ Held(tx', w) = [a \in LiveOn(tx', w) |-> JobSpec[a[1]].resources]
    BY DEF Held
  <2> DEFINE S == LiveOn(tx, w)
             T == LiveOn(tx', w)
  <2>3. /\ Fitting(T, w) /\ S \in SUBSET T
        /\ JobFits(JobSpec[i], WithDefaults(Capacity[w]),
                   CurrentAllocation([a \in T |-> JobSpec[a[1]].resources]))
    BY <1>12, <2>1, <2>2 DEF Fits
  <2> HIDE DEF S, T, w
  <2>4. JobFits(JobSpec[i], WithDefaults(Capacity[w]),
                CurrentAllocation([a \in S |-> JobSpec[a[1]].resources]))
    BY <1>2, <2>3, FitsShrinks
  <2> QED BY <2>2, <2>4 DEF Fits, S
<1>13. ASSUME NEW k \in Given(db, tx') \cup rest
       PROVE  Cardinality(Ahead(db, tx', k)) < ScanLimit
  <2>1. k \in Jobs /\ k \in Given(db, tx) \cup scan
    BY <1>6, <1>7
  <2> QED BY <1>11, <2>1 DEF InTurn
<1>14. ASSUME NEW k \in Given(db, tx'), NEW i \in rest PROVE Before(tx', k, i)
  <2>0. i \in Jobs /\ k \in Jobs /\ i # j /\ i \in scan
    BY <1>6, <1>7
  <2>1. CASE k \in Given(db, tx)
    BY <1>10, <2>0, <2>1 DEF InTurn
  <2>2. CASE k = j
    <3>1. i \in Known(tx) /\ j \in Known(tx) /\ ~Before(tx, i, j)
      BY <1>1, <2>0 DEF Queued, Schedulable, Known
    <3>2. Before(tx, j, i)
      BY <1>1, <2>0, <3>1, BeforeOrders
    <3> QED BY <1>10, <2>0, <2>2, <3>2
  <2> QED BY <1>7, <2>1, <2>2
<1>15. \A k \in Given(db, tx') : HasLiveAttempt(tx'.job[k])
  BY <1>2, <1>5, <1>6, <1>7 DEF InTurn
<1>16. ASSUME NEW i \in Queued(tx')
       PROVE  i \in rest \/ Cardinality(Ahead(db, tx', i)) >= ScanLimit \/ ~Fits(tx', w, i)
  <2>1. i \in Jobs /\ i # j /\ i \in Queued(tx)
    BY <1>8 DEF Queued
  <2>2. i \in scan \/ Cardinality(Ahead(db, tx, i)) >= ScanLimit \/ ~Fits(tx, w, i)
    BY <1>3, <2>1 DEF InTurn
  <2> QED BY <1>11, <1>12, <2>1, <2>2
<1> HIDE DEF rest
<1>17. InTurn(db, tx', w, rest)
  BY <1>13, <1>14, <1>15, <1>16 DEF InTurn
<1> QED BY <1>3, <1>17 DEF rest

\* The strengthening of OffersInOrder.  Between the events and the commit, the jobs
\* offered so far are those before the rest of the scan, each within the limit of the
\* query, and a job that left the scan does not fit what the worker has been given.
OrderInv ==
    /\ HistoryInv /\ ReservedInv
    /\ Ranked(db) /\ Ranked(tx)
    /\ req.phase = "events" =>
           \A j \in Jobs : Len(tx.job[j].attempts) = Len(db.job[j].attempts)
    /\ req.phase = "offers" => InTurn(db, tx, req.worker, req.scan)

LEMMA OrderInit == Init => OrderInv
<1> SUFFICES ASSUME Init PROVE OrderInv
  OBVIOUS
<1>1. Known(db) = {} /\ Known(tx) = {}
  BY DEF Init, EmptyDatabase, NoJobRow, Known
<1>2. Ranked(db) /\ Ranked(tx)
  BY <1>1, FS_EmptySet DEF Ranked
<1>3. req.phase = "idle"
  BY DEF Init, Idle
<1> QED BY <1>2, <1>3, HistoryInit, ReservedInit DEF OrderInv

LEMMA OrderNext ==
    ASSUME NoWrap, OrderInv, [Next]_vars PROVE OrderInv'
<1>0. /\ HistoryInv /\ HistoryInv' /\ ReservedInv /\ ReservedInv'
      /\ CoherenceInv /\ CoherenceInv' /\ TypeOK
  BY HistoryNext, ReservedNext DEF OrderInv, HistoryInv, CoherenceInv
<1>1. Ranked(db') /\ Ranked(tx') /\ Ranked(tx)
  BY <1>0, RankedNext DEF OrderInv
<1>2. ASSUME req'.phase = "events"
      PROVE  \A j \in Jobs : Len(tx'.job[j].attempts) = Len(db'.job[j].attempts)
  <2>1. CASE tx' = db'
    BY <2>1
  <2>2. CASE db' = db /\ SameTables(db, tx')
    BY <2>2 DEF SameTables
  <2>3. CASE db' = db /\ tx' = tx /\ (req' = req \/ (req # Idle /\ req'.phase = "offers"))
    BY <1>2, <2>3 DEF OrderInv
  <2>4. CASE req' = Idle
    BY <1>2, <2>4 DEF Idle
  <2>5. ASSUME NEW w \in Workers, NEW s \in Sessions, NEW e \in Events, StepRecords(w, s, e)
        PROVE  \A j \in Jobs : Len(tx'.job[j].attempts) = Len(db'.job[j].attempts)
    <3>1. \A j \in Jobs : Len(tx'.job[j].attempts) = Len(tx.job[j].attempts)
      BY <1>0, <2>5, EventKeeps
    <3>2. db' = db /\ req.phase = "events"
      BY <2>5 DEF StepRecords
    <3> QED BY <3>1, <3>2 DEF OrderInv
  <2>6. ASSUME NEW j \in Jobs, StepOffers(j) PROVE FALSE
    BY <1>2, <2>6 DEF StepOffers
  <2> QED BY <1>0, <2>1, <2>2, <2>3, <2>4, <2>5, <2>6, StepCases DEF StepCreates, StepCancels
<1>3. ASSUME req'.phase = "offers" PROVE InTurn(db', tx', req'.worker, req'.scan)
  <2>1. CASE UNCHANGED vars
    <3>1. db' = db /\ tx' = tx /\ req' = req
      BY <2>1 DEF vars
    <3> QED BY <1>3, <3>1 DEF OrderInv
  <2>2. CASE BeginOffers
    <3>1. \A j \in Jobs : Len(tx.job[j].attempts) = Len(db.job[j].attempts)
      BY <2>2 DEF OrderInv, BeginOffers
    <3> QED BY <1>0, <1>1, <2>2, <3>1, TurnBegins
  <2>3. ASSUME NEW j \in Jobs, OfferNext(j)
        PROVE  InTurn(db', tx', req'.worker, req'.scan)
    <3>1. /\ req.phase = "offers" /\ j \in req.scan /\ \A k \in req.scan : ~Before(tx, k, j)
          /\ req' = [req EXCEPT !.scan = @ \ {j}]
      BY <2>3 DEF OfferNext
    <3>2. req \in Requests
      BY <1>0, <3>1 DEF TypeOK, Idle
    <3>3. req'.worker = req.worker /\ req'.scan = req.scan \ {j} /\ req.scan \in SUBSET Jobs
      BY <3>1, <3>2 DEF Requests
    <3>4. InTurn(db, tx, req.worker, req.scan)
      BY <3>1 DEF OrderInv
    <3>5. (Fits(tx, req.worker, j) /\ StepOffers(j)) \/ (~Fits(tx, req.worker, j) /\ StepSkips)
      BY <1>0, <2>3, OfferOrSkip DEF Fits
    <3>6. CASE StepOffers(j)
      BY <1>0, <1>1, <3>1, <3>3, <3>4, <3>6, TurnOffers
    <3>7. CASE ~Fits(tx, req.worker, j) /\ StepSkips
      <4>1. db' = db /\ tx' = tx
        BY <3>7 DEF StepSkips
      <4> QED BY <3>3, <3>4, <3>7, <4>1, TurnSkips
    <3> QED BY <3>5, <3>6, <3>7
  <2> QED BY <1>0, <1>3, <2>1, <2>2, <2>3, OfferSteps
<1> QED BY <1>0, <1>1, <1>2, <1>3 DEF OrderInv

\* Unless a sum wraps, no job is passed over: when a sync's offers are made, a job
\* that still fits comes behind all that were offered, and waits only because the
\* worker is full or ScanLimit jobs were before it (offerJobs).
THEOREM OffersGoInOrder == NoWrap /\ Spec => []OffersInOrder
<1>1. ASSUME OrderInv PROVE OffersInOrder
  <2> DEFINE w == req.worker
             given == Given(db, tx)
             waiting == Waiting(db, tx)
  <2> SUFFICES ASSUME OffersDone, NEW j \in waiting \ given, Fits(tx, w, j)
               PROVE  /\ \A k \in given : Before(tx, k, j)
                      /\ \/ ~Slack(tx, w)
                         \/ Cardinality(Ahead(db, tx, j)) >= ScanLimit
    BY DEF OffersInOrder, Given, Waiting, Queued, Ahead, Fits
  <2>1. /\ InTurn(db, tx, w, req.scan) /\ Ranked(tx) /\ tx \in Databases /\ db \in Databases
        /\ RowsCoherent(tx)
    BY <1>1 DEF OrderInv, OffersDone, HistoryInv, CoherenceInv, TypeOK
  <2>2. j \in Queued(tx) /\ j \in Jobs
    BY DEF Waiting, Queued
  <2>3. \/ j \in req.scan
        \/ Cardinality(Ahead(db, tx, j)) >= ScanLimit
        \/ ~Slack(tx, w) /\ given = {}
    BY <2>1, <2>2 DEF InTurn
  <2>4. ~Slack(tx, w) \/ Cardinality(Ahead(db, tx, j)) >= ScanLimit
    BY <2>3 DEF OffersDone
  <2>5. ASSUME NEW k \in given PROVE Before(tx, k, j)
    <3>1. CASE j \in req.scan
      BY <2>1, <3>1 DEF InTurn
    <3>2. CASE Cardinality(Ahead(db, tx, j)) >= ScanLimit
      <4> SUFFICES ASSUME ~Before(tx, k, j) PROVE FALSE
        OBVIOUS
      <4>1. k \in Jobs /\ k # j /\ waiting \in SUBSET Known(tx) /\ k \in waiting
        BY <2>1, AheadFinite DEF Given, Waiting
      <4>2. Before(tx, j, k)
        BY <2>1, <2>2, <4>1, BeforeOrders
      <4>3. Ahead(db, tx, j) \in SUBSET Ahead(db, tx, k)
        <5>1. ASSUME NEW i \in waiting, Before(tx, i, j) PROVE Before(tx, i, k)
          <6>1. i \in Jobs
            BY DEF Waiting, Given, Queued
          <6> QED BY <2>1, <2>2, <4>1, <4>2, <5>1, <6>1, BeforeOrders
        <5> QED BY <5>1 DEF Ahead
      <4>4. /\ IsFiniteSet(Ahead(db, tx, k)) /\ Cardinality(Ahead(db, tx, k)) \in Nat
            /\ Cardinality(Ahead(db, tx, j)) \in Nat
        BY <2>1, AheadFinite
      <4>5. Cardinality(Ahead(db, tx, j)) <= Cardinality(Ahead(db, tx, k))
        BY <4>3, <4>4, FS_Subset
      <4>6. Cardinality(Ahead(db, tx, k)) < ScanLimit /\ ScanLimit \in Nat
        BY <2>1, SpecAssumption DEF InTurn
      <4> QED BY <3>2, <4>4, <4>5, <4>6
    <3> QED BY <2>3, <3>1, <3>2
  <2> QED BY <2>4, <2>5
<1>2. NoWrap /\ OrderInv /\ [Next]_vars => (NoWrap /\ OrderInv)'
  <2>1. NoWrap => NoWrap'
    BY DEF NoWrap
  <2> QED BY <2>1, OrderNext
<1> QED BY <1>1, <1>2, OrderInit, PTL DEF Spec

---------------------------------------------------------------------------
(* Counting *)

Of(events, a, kind) == {r \in events : r.attempt = a /\ r.kind = kind}
Count(events, a, kind) == Cardinality(Of(events, a, kind))

SamplesFor(samples, n) == {i \in DOMAIN samples : samples[i].attempt = n}

LEMMA CountType ==
    ASSUME NEW events, IsFiniteSet(events), NEW a, NEW kind
    PROVE  /\ IsFiniteSet(Of(events, a, kind)) /\ Count(events, a, kind) \in Nat
           /\ Count(events, a, kind) = 0 <=> Of(events, a, kind) = {}
<1>1. Of(events, a, kind) \in SUBSET events
  BY DEF Of
<1>2. IsFiniteSet(Of(events, a, kind))
  BY <1>1, FS_Subset
<1> QED BY <1>2, FS_CardinalityType, FS_EmptySet DEF Count

\* A new row is one more of its kind for its attempt.
LEMMA CountAdds ==
    ASSUME NEW events, IsFiniteSet(events), NEW r, r \notin events, NEW a, NEW kind
    PROVE  Count(events \cup {r}, a, kind) =
               IF r.attempt = a /\ r.kind = kind
               THEN Count(events, a, kind) + 1 ELSE Count(events, a, kind)
<1>1. CASE r.attempt = a /\ r.kind = kind
  <2>1. Of(events \cup {r}, a, kind) = Of(events, a, kind) \cup {r} /\ r \notin Of(events, a, kind)
    BY <1>1 DEF Of
  <2>2. IsFiniteSet(Of(events, a, kind))
    BY CountType
  <2>3. Cardinality(Of(events, a, kind) \cup {r}) = Cardinality(Of(events, a, kind)) + 1
    BY <2>1, <2>2, FS_AddElement
  <2> QED BY <1>1, <2>1, <2>3 DEF Count
<1>2. CASE ~(r.attempt = a /\ r.kind = kind)
  <2>1. Of(events \cup {r}, a, kind) = Of(events, a, kind)
    BY <1>2 DEF Of
  <2> QED BY <1>2, <2>1 DEF Count
<1> QED BY <1>1, <1>2

\* A row appended to metric_samples is one more for its attempt.
LEMMA SampleAppended ==
    ASSUME NEW samples \in Seq(Samples), NEW s \in Samples, NEW n
    PROVE  /\ IsFiniteSet(SamplesFor(samples, n))
           /\ Cardinality(SamplesFor(samples, n)) \in Nat
           /\ Cardinality(SamplesFor(Append(samples, s), n)) =
                  IF s.attempt = n THEN Cardinality(SamplesFor(samples, n)) + 1
                  ELSE Cardinality(SamplesFor(samples, n))
<1> DEFINE L == Len(samples)
           more == Append(samples, s)
<1>1. /\ L \in Nat /\ DOMAIN samples = 1 .. L /\ DOMAIN more = DOMAIN samples \cup {L + 1}
      /\ more[L + 1] = s /\ \A i \in DOMAIN samples : more[i] = samples[i]
      /\ L + 1 \notin DOMAIN samples
  OBVIOUS
<1> HIDE DEF more
<1>2. SamplesFor(more, n) = IF s.attempt = n THEN SamplesFor(samples, n) \cup {L + 1}
                            ELSE SamplesFor(samples, n)
  BY <1>1 DEF SamplesFor
<1>3. IsFiniteSet(SamplesFor(samples, n)) /\ L + 1 \notin SamplesFor(samples, n)
  <2>1. SamplesFor(samples, n) \in SUBSET (1 .. L)
    BY <1>1 DEF SamplesFor
  <2>2. IsFiniteSet(1 .. L)
    BY <1>1, FS_Interval
  <2> QED BY <1>1, <2>1, <2>2, FS_Subset DEF SamplesFor
<1>4. Cardinality(SamplesFor(samples, n)) \in Nat
  BY <1>3, FS_CardinalityType
<1> QED BY <1>2, <1>3, <1>4, FS_AddElement DEF more

---------------------------------------------------------------------------
(* Every event took effect exactly once *)

\* What the event table says of attempt n of job j, whose row is `row`.
AttemptTold(j, row, n, events) ==
    LET state == row.attempts[n].state
        a == <<j, n>>
    IN  /\ Cardinality(SamplesFor(row.samples, n)) = Count(events, a, "metric_sample")
        /\ Count(events, a, "attempt_finished") = IF state \in Ended THEN 1 ELSE 0
        /\ Count(events, a, "attempt_started") <= 1
        /\ state \in {"offered", "accepted"} => Count(events, a, "attempt_started") = 0
        /\ state = "running" => Count(events, a, "attempt_started") = 1

\* No event and no sample is about an attempt that was never offered.
RowTold(j, row, events) ==
    /\ \A i \in DOMAIN row.samples : row.samples[i].attempt \in DOMAIN row.attempts
    /\ \A r \in events : r.attempt[1] = j => r.attempt[2] \in DOMAIN row.attempts
    /\ \A n \in DOMAIN row.attempts : AttemptTold(j, row, n, events)

TablesTold(d) ==
    /\ IsFiniteSet(d.events)
    /\ \A j \in Jobs : RowTold(j, d.job[j], d.events)

\* The strengthening of EventsAppliedOnce: it holds of what the open transaction
\* sees as well, and an attempt that may still start has no start on record.
EventsInv == CoherenceInv /\ TablesTold(db) /\ TablesTold(tx)

LEMMA EventsInit == Init => EventsInv
<1> SUFFICES ASSUME Init PROVE EventsInv
  OBVIOUS
<1>1. TablesTold(EmptyDatabase)
  BY FS_EmptySet DEF TablesTold, RowTold, EmptyDatabase, NoJobRow
<1> QED BY <1>1, CoherenceInit DEF Init, EventsInv

LEMMA ToldKept ==
    ASSUME NEW d, NEW e, SameTables(d, e), TablesTold(d) PROVE TablesTold(e)
BY DEF SameTables, TablesTold

\* An event that applies changes what the table says of its attempt by exactly what
\* the attempt and its samples change.
LEMMA EventTold ==
    ASSUME NEW row \in JobRows, NEW n \in DOMAIN row.attempts, NEW j \in Jobs,
           NEW body, NEW fires \in SUBSET Nat, NEW new, NEW x,
           Effect(row, n, j, body, fires, new, x),
           NEW events, IsFiniteSet(events), NEW r, r \notin events,
           r.attempt = <<j, n>>, r.kind = body.kind,
           RowTold(j, row, events)
    PROVE  RowTold(j, new, events \cup {r})
<1>1. /\ DOMAIN new.attempts = DOMAIN row.attempts
      /\ \A m \in DOMAIN row.attempts : new.attempts[m] = IF m = n THEN x ELSE row.attempts[m]
  BY DEF Effect, Replaces
<1>2. n \in Nat /\ row.samples \in Seq(Samples)
  BY DEF JobRows
<1>3. \/ body.kind # "metric_sample" /\ new.samples = row.samples
      \/ /\ body.kind = "metric_sample" /\ body.point \in Points
         /\ new.samples = Append(row.samples, [attempt |-> n, point |-> body.point])
  BY DEF Effect
<1> DEFINE s == [attempt |-> n, point |-> body.point]
<1>4. body.kind = "metric_sample" => s \in Samples /\ s.attempt = n
  BY <1>2, <1>3 DEF Samples
<1> HIDE DEF s
<1>5. \/ body.kind # "metric_sample" /\ new.samples = row.samples
      \/ body.kind = "metric_sample" /\ s \in Samples /\ s.attempt = n
         /\ new.samples = Append(row.samples, s)
  BY <1>3, <1>4 DEF s
<1>6. \A i \in DOMAIN new.samples : new.samples[i].attempt \in DOMAIN new.attempts
  <2>1. \A i \in DOMAIN row.samples : row.samples[i].attempt \in DOMAIN row.attempts
    BY DEF RowTold
  <2>2. CASE new.samples = row.samples
    BY <1>1, <2>1, <2>2
  <2>3. CASE s \in Samples /\ s.attempt = n /\ new.samples = Append(row.samples, s)
    <3>1. \A i \in DOMAIN new.samples :
             new.samples[i] = s \/ (i \in DOMAIN row.samples /\ new.samples[i] = row.samples[i])
      BY <1>2, <2>3
    <3> QED BY <1>1, <2>1, <2>3, <3>1
  <2> QED BY <1>5, <2>2, <2>3
<1>7. ASSUME NEW q \in events \cup {r}, q.attempt[1] = j
      PROVE  q.attempt[2] \in DOMAIN new.attempts
  BY <1>1, <1>7 DEF RowTold
<1>8. ASSUME NEW m
      PROVE  Cardinality(SamplesFor(new.samples, m)) =
                 IF body.kind = "metric_sample" /\ m = n
                 THEN Cardinality(SamplesFor(row.samples, m)) + 1
                 ELSE Cardinality(SamplesFor(row.samples, m))
  <2>1. CASE body.kind # "metric_sample" /\ new.samples = row.samples
    BY <2>1
  <2>2. CASE body.kind = "metric_sample" /\ s \in Samples /\ s.attempt = n
             /\ new.samples = Append(row.samples, s)
    <3>1. Cardinality(SamplesFor(Append(row.samples, s), m)) =
              IF s.attempt = m THEN Cardinality(SamplesFor(row.samples, m)) + 1
              ELSE Cardinality(SamplesFor(row.samples, m))
      BY <1>2, <2>2, SampleAppended
    <3> QED BY <2>2, <3>1
  <2> QED BY <1>5, <2>1, <2>2
<1>9. ASSUME NEW m \in DOMAIN row.attempts, NEW kind
      PROVE  Count(events \cup {r}, <<j, m>>, kind) =
                 IF m = n /\ kind = body.kind THEN Count(events, <<j, m>>, kind) + 1
                 ELSE Count(events, <<j, m>>, kind)
  <2>1. r.attempt = <<j, m>> <=> m = n
    OBVIOUS
  <2> DEFINE a == <<j, m>>
  <2>2. r.attempt = a <=> m = n
    BY <2>1
  <2> HIDE DEF a
  <2>3. Count(events \cup {r}, a, kind) =
               IF r.attempt = a /\ r.kind = kind
               THEN Count(events, a, kind) + 1 ELSE Count(events, a, kind)
    BY CountAdds
  <2> QED BY <2>2, <2>3 DEF a
<1>10. ASSUME NEW m \in DOMAIN row.attempts, m # n PROVE AttemptTold(j, new, m, events \cup {r})
  <2>1. AttemptTold(j, row, m, events) /\ new.attempts[m] = row.attempts[m]
    BY <1>1, <1>10 DEF RowTold
  <2>2. Cardinality(SamplesFor(new.samples, m)) = Cardinality(SamplesFor(row.samples, m))
    BY <1>8, <1>10
  <2>3. \A kind : Count(events \cup {r}, <<j, m>>, kind) = Count(events, <<j, m>>, kind)
    BY <1>9, <1>10
  <2> QED BY <2>1, <2>2, <2>3 DEF AttemptTold
<1>11. AttemptTold(j, new, n, events \cup {r})
  <2> DEFINE old == row.attempts[n]
             samples == Cardinality(SamplesFor(row.samples, n))
             sampled == Count(events, <<j, n>>, "metric_sample")
             finished == Count(events, <<j, n>>, "attempt_finished")
             started == Count(events, <<j, n>>, "attempt_started")
  <2>1. new.attempts[n] = x
    BY <1>1
  <2>2. /\ samples = sampled
        /\ finished = IF old.state \in Ended THEN 1 ELSE 0
        /\ started <= 1
        /\ old.state \in {"offered", "accepted"} => started = 0
        /\ old.state = "running" => started = 1
    BY DEF RowTold, AttemptTold
  <2>3. samples \in Nat /\ finished \in Nat /\ started \in Nat /\ sampled \in Nat
    BY <1>2, <2>2, CountType
  <2>4. /\ Cardinality(SamplesFor(new.samples, n)) =
               IF body.kind = "metric_sample" THEN samples + 1 ELSE samples
        /\ Count(events \cup {r}, <<j, n>>, "metric_sample") =
               IF body.kind = "metric_sample" THEN sampled + 1 ELSE sampled
        /\ Count(events \cup {r}, <<j, n>>, "attempt_finished") =
               IF body.kind = "attempt_finished" THEN finished + 1 ELSE finished
        /\ Count(events \cup {r}, <<j, n>>, "attempt_started") =
               IF body.kind = "attempt_started" THEN started + 1 ELSE started
    BY <1>8, <1>9
  <2>5. /\ body.kind = "attempt_accepted" => old.state = "offered" /\ x.state = "accepted"
        /\ body.kind = "attempt_started" =>
              old.state \in {"offered", "accepted"} /\ x.state = "running"
        /\ body.kind = "attempt_finished" =>
              old.state \in {"accepted", "running"} /\ x.state \in Ended
        /\ body.kind \in {"artifacts", "metric_sample"} => x.state = old.state
        /\ body.kind \in EventKinds
    BY DEF Effect, AttemptVerdict, Ended, EventKinds
  <2> HIDE DEF samples, sampled, finished, started, old
  <2> QED BY <2>1, <2>2, <2>3, <2>4, <2>5 DEF AttemptTold, Ended, EventKinds
<1> QED BY <1>1, <1>6, <1>7, <1>10, <1>11 DEF RowTold

LEMMA EventsNext == EventsInv /\ [Next]_vars => EventsInv'
<1> SUFFICES ASSUME EventsInv, [Next]_vars PROVE TablesTold(db') /\ TablesTold(tx')
  BY CoherenceNext DEF EventsInv, TablesTold
<1> DEFINE Goal == TablesTold(db') /\ TablesTold(tx')
<1>0. CoherenceInv /\ CoherenceInv' /\ TablesTold(db) /\ TablesTold(tx)
  BY CoherenceNext DEF EventsInv
<1>1. CASE SameTables(db, db') /\ tx' = db'
  BY <1>0, <1>1, ToldKept
<1>2. CASE db' = db /\ SameTables(db, tx')
  BY <1>0, <1>2, ToldKept
<1>3. CASE (db' = db /\ tx' = tx) \/ (db' = tx /\ tx' = tx)
  BY <1>0, <1>3
<1>4. ASSUME NEW k \in Keys, NEW j \in Jobs, NEW rank \in Nat, StepCreates(k, j, rank)
      PROVE  Goal
  <2>1. /\ tx' = db' /\ db.job[j].state = "absent" /\ db'.events = db.events
        /\ \A i \in Jobs : db'.job[i] = IF i = j THEN Submitted(rank) ELSE db.job[i]
    BY <1>4 DEF StepCreates, Wrote
  <2>2. DOMAIN db.job[j].attempts = {}
    <3>1. JobCoherent(db.job[j], MaxAttempts(j)) /\ db.job[j] \in JobRows
      BY <1>0 DEF CoherenceInv, RowsCoherent, TypeOK, Databases
    <3>2. Len(db.job[j].attempts) = 0 /\ db.job[j].attempts \in Seq(Attempts)
      BY <2>1, <3>1 DEF JobCoherent, JobRows
    <3> QED BY <3>2
  <2>3. DOMAIN Submitted(rank).attempts = {} /\ DOMAIN Submitted(rank).samples = {}
    BY DEF Submitted
  <2>4. RowTold(j, db.job[j], db.events)
    BY <1>0 DEF TablesTold
  <2>5. RowTold(j, Submitted(rank), db.events)
    BY <2>2, <2>3, <2>4 DEF RowTold
  <2> QED BY <1>0, <2>1, <2>5 DEF TablesTold
<1>5. ASSUME NEW j \in Jobs, StepCancels(j) PROVE Goal
  <2>1. /\ db.job[j] \in JobRows /\ db'.job[j] = Canceled(db.job[j])
        /\ \A i \in Jobs \ {j} : db'.job[i] = db.job[i]
    BY <1>0, <1>5, CancelsRow
  <2>2. db'.job[j].attempts = db.job[j].attempts /\ db'.job[j].samples = db.job[j].samples
    BY <2>1, CanceledFields
  <2>3. tx' = db' /\ db'.events = db.events
    BY <1>5 DEF StepCancels
  <2>4. RowTold(j, db'.job[j], db.events)
    BY <1>0, <2>2 DEF TablesTold, RowTold, AttemptTold
  <2> QED BY <1>0, <2>1, <2>3, <2>4 DEF TablesTold
<1>6. ASSUME NEW w \in Workers, NEW s \in Sessions, NEW e \in Events, StepRecords(w, s, e)
      PROVE  Goal
  <2> DEFINE j == e.body.attempt[1]
             n == e.body.attempt[2]
             fires == FiresOnFinish(tx, j, tx.job[j].attempts[n])
             r == EventRow(w, s, e)
  <2>0. e.body.attempt = <<j, n>>
    BY DEF Events, EventBodies, AttemptIds
  <2>1. /\ j \in Jobs /\ tx.job[j] \in JobRows /\ n \in DOMAIN tx.job[j].attempts
        /\ fires \in SUBSET Nat
        /\ EventWrites(tx.job[j], n, j, e.body, fires, tx'.job[j])
        /\ \A i \in Jobs \ {j} : tx'.job[i] = tx.job[i]
    <3>1. RecordsWell(w, e)
      BY <1>0, <1>6, RecordsRow
    <3> QED BY <3>1 DEF RecordsWell
  <2>2. db' = db /\ tx'.events = tx.events \cup {r} /\ Fresh(tx, w, s, e)
    BY <1>6 DEF StepRecords
  <2>3. r \notin tx.events /\ r.attempt = <<j, n>> /\ r.kind = e.body.kind
    BY <2>0, <2>2 DEF Fresh, SameKey, EventRow
  <2> HIDE DEF j, n, fires, r
  <2>4. PICK x : Effect(tx.job[j], n, j, e.body, fires, tx'.job[j], x)
    BY <2>1, EventEffect
  <2>5. IsFiniteSet(tx.events) /\ IsFiniteSet(tx'.events)
    BY <1>0, <2>2, FS_AddElement DEF TablesTold
  <2>6. RowTold(j, tx'.job[j], tx'.events)
    <3> DEFINE row == tx.job[j]
               new == tx'.job[j]
               body == e.body
               events == tx.events
    <3>1. /\ row \in JobRows /\ n \in DOMAIN row.attempts /\ j \in Jobs /\ fires \in SUBSET Nat
          /\ Effect(row, n, j, body, fires, new, x) /\ IsFiniteSet(events) /\ r \notin events
          /\ r.attempt = <<j, n>> /\ r.kind = body.kind /\ RowTold(j, row, events)
      BY <1>0, <2>1, <2>3, <2>4, <2>5 DEF TablesTold
    <3> HIDE DEF row, new, body, events
    <3>2. RowTold(j, new, events \cup {r})
      BY <3>1, EventTold
    <3> QED BY <2>2, <3>2 DEF new, events
  <2>7. ASSUME NEW i \in Jobs \ {j} PROVE RowTold(i, tx'.job[i], tx'.events)
    <3>1. RowTold(i, tx.job[i], tx.events) /\ tx'.job[i] = tx.job[i]
      BY <1>0, <2>1 DEF TablesTold
    <3>2. \A q \in tx'.events : q.attempt[1] = i => q \in tx.events
      BY <2>2, <2>3
    <3>3. \A m, kind : Count(tx'.events, <<i, m>>, kind) = Count(tx.events, <<i, m>>, kind)
      <4> SUFFICES ASSUME NEW m, NEW kind
                   PROVE  Of(tx'.events, <<i, m>>, kind) = Of(tx.events, <<i, m>>, kind)
        BY DEF Count
      <4>1. r.attempt # <<i, m>>
        BY <2>3
      <4> QED BY <2>2, <4>1 DEF Of
    <3> QED BY <3>1, <3>2, <3>3 DEF RowTold, AttemptTold
  <2> QED BY <1>0, <2>2, <2>5, <2>6, <2>7 DEF TablesTold
<1>7. ASSUME NEW j \in Jobs, StepOffers(j) PROVE Goal
  <2> DEFINE N == Len(tx.job[j].attempts) + 1
  <2>1. /\ tx.job[j] \in JobRows /\ req.worker \in Workers
        /\ tx'.job[j] = Offered(tx.job[j], req.worker)
        /\ \A i \in Jobs \ {j} : tx'.job[i] = tx.job[i]
    BY <1>0, <1>7, OffersRow
  <2>2. db' = db /\ tx'.events = tx.events
    BY <1>7 DEF StepOffers
  <2>3. /\ DOMAIN tx'.job[j].attempts = DOMAIN tx.job[j].attempts \cup {N}
        /\ \A m \in DOMAIN tx.job[j].attempts :
              tx'.job[j].attempts[m] = tx.job[j].attempts[m]
        /\ tx'.job[j].attempts[N]
              = [worker |-> req.worker, state |-> "offered", files |-> {}, fired |-> {}]
        /\ tx'.job[j].samples = tx.job[j].samples
    BY <2>1, OfferedFields
  <2>4. N \notin DOMAIN tx.job[j].attempts
    <3>1. tx.job[j].attempts \in Seq(Attempts)
      BY <2>1 DEF JobRows
    <3> QED BY <3>1
  <2> HIDE DEF N
  <2>5. RowTold(j, tx.job[j], tx.events) /\ IsFiniteSet(tx.events)
    BY <1>0 DEF TablesTold
  <2>6. \A kind : Count(tx.events, <<j, N>>, kind) = 0
    <3> SUFFICES ASSUME NEW kind PROVE Of(tx.events, <<j, N>>, kind) = {}
      BY FS_EmptySet DEF Count
    <3>1. ASSUME NEW r \in tx.events PROVE r.attempt # <<j, N>>
      <4>1. r.attempt = <<j, N>> => r.attempt[1] = j /\ r.attempt[2] = N
        OBVIOUS
      <4> QED BY <2>4, <2>5, <4>1 DEF RowTold
    <3> QED BY <3>1 DEF Of
  <2>7. Cardinality(SamplesFor(tx.job[j].samples, N)) = 0
    <3>1. SamplesFor(tx.job[j].samples, N) = {}
      BY <2>4, <2>5 DEF RowTold, SamplesFor
    <3> QED BY <3>1, FS_EmptySet
  <2>8. AttemptTold(j, tx'.job[j], N, tx.events)
    BY <2>3, <2>6, <2>7 DEF AttemptTold, Ended
  <2>9. RowTold(j, tx'.job[j], tx.events)
    <3>1. ASSUME NEW m \in DOMAIN tx.job[j].attempts PROVE AttemptTold(j, tx'.job[j], m, tx.events)
      BY <2>3, <2>5 DEF RowTold, AttemptTold
    <3> QED BY <2>3, <2>5, <2>8, <3>1 DEF RowTold
  <2> QED BY <1>0, <2>1, <2>2, <2>9 DEF TablesTold
<1> QED BY <1>0, <1>1, <1>2, <1>3, <1>4, <1>5, <1>6, <1>7, StepCases

\* Every event of the event table took effect exactly once and nothing took effect
\* without one, for any number of workers, sessions, replays, duplicated keys and
\* rolled-back syncs (recordWorkerEvent, applyWorkerEvent).
THEOREM EventsTakeEffectOnce == Spec => []EventsAppliedOnce
<1>1. ASSUME EventsInv PROVE EventsAppliedOnce
  <2>1. TablesTold(db)
    BY <1>1 DEF EventsInv
  <2> SUFFICES ASSUME NEW a \in AttemptIds
      PROVE  LET row == db.job[a[1]] IN
             IF a[2] \in DOMAIN row.attempts
             THEN /\ Cardinality({i \in DOMAIN row.samples : row.samples[i].attempt = a[2]})
                         = Cardinality(EventsOf(a, "metric_sample"))
                  /\ Cardinality(EventsOf(a, "attempt_finished"))
                         = IF row.attempts[a[2]].state \in Ended THEN 1 ELSE 0
                  /\ Cardinality(EventsOf(a, "attempt_started")) <= 1
                  /\ row.attempts[a[2]].state = "running"
                         => EventsOf(a, "attempt_started") # {}
             ELSE \A kind \in EventKinds : EventsOf(a, kind) = {}
    BY DEF EventsAppliedOnce
  <2>2. a[1] \in Jobs /\ a = <<a[1], a[2]>>
    BY DEF AttemptIds
  <2> DEFINE row == db.job[a[1]]
             n == a[2]
             j == a[1]
  <2>3. RowTold(j, row, db.events)
    BY <2>1, <2>2 DEF TablesTold
  <2>4. \A kind : EventsOf(a, kind) = Of(db.events, a, kind)
    BY DEF EventsOf, Of
  <2>5. CASE n \notin DOMAIN row.attempts
    <3>1. \A r \in db.events : r.attempt # a
      BY <2>2, <2>3, <2>5 DEF RowTold
    <3> QED BY <2>5, <3>1 DEF EventsOf
  <2>6. CASE n \in DOMAIN row.attempts
    <3>1. AttemptTold(j, row, n, db.events)
      BY <2>3, <2>6 DEF RowTold
    <3>2. a = <<j, n>>
      BY <2>2
    <3>3. /\ Cardinality(SamplesFor(row.samples, n)) = Count(db.events, a, "metric_sample")
          /\ Count(db.events, a, "attempt_finished")
                = IF row.attempts[n].state \in Ended THEN 1 ELSE 0
          /\ Count(db.events, a, "attempt_started") <= 1
          /\ row.attempts[n].state = "running" => Count(db.events, a, "attempt_started") = 1
      BY <3>1, <3>2 DEF AttemptTold
    <3>4. Count(db.events, a, "attempt_started") = 1 => Of(db.events, a, "attempt_started") # {}
      BY <2>1, CountType DEF TablesTold
    <3> QED BY <2>4, <2>6, <3>3, <3>4 DEF Count, SamplesFor
  <2> QED BY <2>5, <2>6
<1> QED BY <1>1, EventsInit, EventsNext, PTL DEF Spec

---------------------------------------------------------------------------
(* The audit table tells the same story as the rows *)

InLog(audit, kinds) == {i \in DOMAIN audit : audit[i] \in kinds}

LEMMA LogFinite ==
    ASSUME NEW audit \in Seq(AuditKinds), NEW kinds
    PROVE  /\ IsFiniteSet(InLog(audit, kinds)) /\ Cardinality(InLog(audit, kinds)) \in Nat
           /\ InLog(audit, kinds) \in SUBSET (1 .. Len(audit))
<1>1. DOMAIN audit = 1 .. Len(audit) /\ Len(audit) \in Nat
  OBVIOUS
<1>2. InLog(audit, kinds) \in SUBSET (1 .. Len(audit))
  BY <1>1 DEF InLog
<1>3. IsFiniteSet(1 .. Len(audit))
  BY <1>1, FS_Interval
<1> QED BY <1>2, <1>3, FS_Subset, FS_CardinalityType

\* A row appended to the audit table counts for its kind.
LEMMA LogAppends ==
    ASSUME NEW audit \in Seq(AuditKinds), NEW k \in AuditKinds, NEW kinds
    PROVE  Cardinality(InLog(Append(audit, k), kinds))
               = Cardinality(InLog(audit, kinds)) + (IF k \in kinds THEN 1 ELSE 0)
<1> DEFINE L == Len(audit)
           more == Append(audit, k)
<1>1. /\ L \in Nat /\ DOMAIN audit = 1 .. L /\ DOMAIN more = DOMAIN audit \cup {L + 1}
      /\ more[L + 1] = k /\ \A i \in DOMAIN audit : more[i] = audit[i]
      /\ L + 1 \notin DOMAIN audit
  OBVIOUS
<1> HIDE DEF more
<1>2. InLog(more, kinds) = IF k \in kinds THEN InLog(audit, kinds) \cup {L + 1}
                           ELSE InLog(audit, kinds)
  BY <1>1 DEF InLog
<1>3. IsFiniteSet(InLog(audit, kinds)) /\ Cardinality(InLog(audit, kinds)) \in Nat
  BY LogFinite
<1>4. L + 1 \notin InLog(audit, kinds)
  BY <1>1 DEF InLog
<1>5. Cardinality(InLog(audit, kinds) \cup {L + 1}) = Cardinality(InLog(audit, kinds)) + 1
  BY <1>3, <1>4, FS_AddElement
<1> QED BY <1>2, <1>3, <1>5 DEF more

\* The rows a finish writes: one per firing, then its own.
LEMMA LogFinishes ==
    ASSUME NEW audit \in Seq(AuditKinds), NEW fires, Cardinality(fires) \in Nat, NEW kinds
    PROVE  Cardinality(InLog(audit \o FinishLog(fires), kinds))
               = Cardinality(InLog(audit, kinds))
                 + (IF "health_policy_fired" \in kinds THEN Cardinality(fires) ELSE 0)
                 + (IF "attempt_finished" \in kinds THEN 1 ELSE 0)
<1> DEFINE L == Len(audit)
           c == Cardinality(fires)
           fired == [i \in 1 .. c |-> "health_policy_fired"]
           mid == audit \o fired
           new == (L + 1) .. (L + c)
<1>1. fired \in Seq(AuditKinds) /\ Len(fired) = c
  BY DEF AuditKinds
<1>2. "attempt_finished" \in AuditKinds
  BY DEF AuditKinds
<1>3. FinishLog(fires) = fired \o <<"attempt_finished">>
  BY DEF FinishLog
<1>4. L \in Nat /\ DOMAIN audit = 1 .. L
  OBVIOUS
<1>5. \A i \in 1 .. c : fired[i] = "health_policy_fired"
  OBVIOUS
<1> HIDE DEF fired, c
<1>6. audit \o FinishLog(fires) = Append(mid, "attempt_finished") /\ mid \in Seq(AuditKinds)
  BY <1>1, <1>2, <1>3
<1>7. /\ DOMAIN mid = DOMAIN audit \cup new
      /\ \A i \in DOMAIN audit : mid[i] = audit[i]
      /\ \A i \in new : mid[i] = "health_policy_fired"
  <2>1. DOMAIN mid = 1 .. (L + c) /\ c \in Nat
    BY <1>1, <1>4 DEF c
  <2>2. \A i \in 1 .. (L + c) : mid[i] = IF i <= L THEN audit[i] ELSE fired[i - L]
    BY <1>1, <1>4, <2>1
  <2>3. \A i \in 1 .. L : i \in 1 .. (L + c) /\ i <= L
    BY <1>4, <2>1
  <2>4. \A i \in new : i \in 1 .. (L + c) /\ ~(i <= L) /\ i - L \in 1 .. c
    BY <1>4, <2>1
  <2>5. 1 .. (L + c) = (1 .. L) \cup new
    BY <1>4, <2>1
  <2> HIDE DEF mid, new
  <2> QED BY <1>4, <1>5, <2>1, <2>2, <2>3, <2>4, <2>5
<1>8. IsFiniteSet(new) /\ Cardinality(new) = c
  <2>1. c \in Nat
    BY DEF c
  <2>2. Cardinality(new) = IF L + 1 > L + c THEN 0 ELSE (L + c) - (L + 1) + 1
    <3> DEFINE lo == L + 1
               hi == L + c
    <3>1. lo \in Int /\ hi \in Int
      BY <1>4, <2>1
    <3> HIDE DEF lo, hi
    <3>2. Cardinality(lo .. hi) = IF lo > hi THEN 0 ELSE hi - lo + 1
      BY <3>1, FS_Interval
    <3> QED BY <3>2 DEF lo, hi
  <2>3. IsFiniteSet(new)
    BY <1>4, <2>1, FS_Interval
  <2> HIDE DEF new
  <2> QED BY <1>4, <2>1, <2>2, <2>3
<1>9. DOMAIN audit \cap new = {}
  BY <1>4 DEF c
<1> HIDE DEF mid, new
<1>10. InLog(mid, kinds) = IF "health_policy_fired" \in kinds THEN InLog(audit, kinds) \cup new
                           ELSE InLog(audit, kinds)
  BY <1>7 DEF InLog
<1>11. IsFiniteSet(InLog(audit, kinds)) /\ Cardinality(InLog(audit, kinds)) \in Nat
  BY LogFinite
<1>12. Cardinality(InLog(audit, kinds) \cup new) = Cardinality(InLog(audit, kinds)) + c
  <2>1. InLog(audit, kinds) \cap new = {}
    BY <1>9 DEF InLog
  <2> DEFINE old == InLog(audit, kinds)
  <2>2. IsFiniteSet(old) /\ Cardinality(old) \in Nat /\ old \cap new = {}
    BY <1>11, <2>1
  <2> HIDE DEF old
  <2>3. Cardinality(old \cup new) = Cardinality(old) + Cardinality(new) - Cardinality(old \cap new)
    BY <1>8, <2>2, FS_Union
  <2>4. Cardinality(old \cap new) = 0
    BY <2>2, FS_EmptySet
  <2>5. c \in Nat
    BY DEF c
  <2> QED BY <1>8, <2>2, <2>3, <2>4, <2>5 DEF old
<1>13. Cardinality(InLog(mid, kinds)) = Cardinality(InLog(audit, kinds))
              + (IF "health_policy_fired" \in kinds THEN c ELSE 0)
  BY <1>10, <1>11, <1>12 DEF c
<1>14. Cardinality(InLog(Append(mid, "attempt_finished"), kinds))
           = Cardinality(InLog(mid, kinds)) + (IF "attempt_finished" \in kinds THEN 1 ELSE 0)
  BY <1>2, <1>6, LogAppends
<1> QED BY <1>6, <1>13, <1>14 DEF c

\* The attempts of a row that have ended, and the firings on record for them.
EndedOf(row) == {n \in DOMAIN row.attempts : row.attempts[n].state \in Ended}
FiringsOf(row) == SumFunction([n \in EndedOf(row) |-> Cardinality(row.attempts[n].fired)])

\* A firing of the finished policy p is one row of health_firings.
LEMMA FiringsCounted ==
    ASSUME NEW fires, IsFiniteSet(fires)
    PROVE  Cardinality({<<p, "finished">> : p \in fires}) = Cardinality(fires)
<1> DEFINE T == {<<p, "finished">> : p \in fires}
           f == [p \in fires |-> <<p, "finished">>]
<1>1. f \in Bijection(fires, T)
  <2>1. f \in [fires -> T]
    OBVIOUS
  <2>2. \A p, q \in fires : f[p] = f[q] => p = q
    OBVIOUS
  <2>3. \A t \in T : \E p \in fires : f[p] = t
    OBVIOUS
  <2> QED BY <2>1, <2>2, <2>3 DEF Bijection, Injection, Surjection, IsInjective
<1> HIDE DEF f, T
<1>2. Cardinality(fires) = Cardinality(T)
  BY <1>1, FS_Bijection DEF ExistsBijection
<1> QED BY <1>2 DEF T

CancelKinds == {"job_canceled", "job_cancel_requested"}

\* What the audit table says of a row.
Audited(row) ==
    /\ row.state # "absent" <=> Cardinality(InLog(row.audit, {"job_submitted"})) = 1
    /\ Cardinality(InLog(row.audit, {"attempt_offered"})) = Len(row.attempts)
    /\ Cardinality(InLog(row.audit, {"attempt_finished"})) = Cardinality(EndedOf(row))
    /\ Cardinality(InLog(row.audit, CancelKinds))
           = IF row.state \in {"canceling", "canceled"} THEN 1 ELSE 0
    /\ Cardinality(InLog(row.audit, {"health_policy_fired"})) = FiringsOf(row)

LEMMA EndedFinite ==
    ASSUME NEW row \in JobRows
    PROVE  IsFiniteSet(EndedOf(row)) /\ Cardinality(EndedOf(row)) \in Nat
<1>1. row.attempts \in Seq(Attempts)
  BY DEF JobRows
<1>2. DOMAIN row.attempts = 1 .. Len(row.attempts) /\ Len(row.attempts) \in Nat
  BY <1>1
<1>3. EndedOf(row) \in SUBSET (1 .. Len(row.attempts)) /\ IsFiniteSet(1 .. Len(row.attempts))
  BY <1>2, FS_Interval DEF EndedOf
<1> QED BY <1>3, FS_Subset, FS_CardinalityType

\* A row whose attempts ended and fired as before has the firings it had.
LEMMA SameFirings ==
    ASSUME NEW row, NEW new, EndedOf(new) = EndedOf(row),
           \A n \in EndedOf(row) : new.attempts[n].fired = row.attempts[n].fired
    PROVE  FiringsOf(new) = FiringsOf(row)
<1>1. [n \in EndedOf(new) |-> Cardinality(new.attempts[n].fired)]
          = [n \in EndedOf(row) |-> Cardinality(row.attempts[n].fired)]
  OBVIOUS
<1> QED BY <1>1 DEF FiringsOf

\* One more ended attempt adds its firings.
LEMMA MoreFirings ==
    ASSUME NEW row \in JobRows, NEW new, NEW n, n \notin EndedOf(row),
           EndedOf(new) = EndedOf(row) \cup {n},
           \A m \in EndedOf(row) : /\ new.attempts[m].fired = row.attempts[m].fired
                                   /\ Cardinality(row.attempts[m].fired) \in Nat,
           Cardinality(new.attempts[n].fired) \in Nat
    PROVE  FiringsOf(new) = FiringsOf(row) + Cardinality(new.attempts[n].fired)
<1> DEFINE S == EndedOf(row)
           f == [m \in S |-> Cardinality(row.attempts[m].fired)]
           g == [m \in S \cup {n} |-> Cardinality(new.attempts[m].fired)]
<1>1. FiringsOf(row) = SumFunctionOnSet(f, S) /\ FiringsOf(new) = SumFunctionOnSet(g, S \cup {n})
  BY DEF FiringsOf, SumFunction
<1>2. IsFiniteSet(S) /\ n \notin S
  BY EndedFinite
<1>3. /\ \A m \in S : f[m] \in Int /\ g[m] = f[m]
      /\ \A m \in S \cup {n} : g[m] \in Int
      /\ g[n] = Cardinality(new.attempts[n].fired)
  OBVIOUS
<1> HIDE DEF S, f, g
<1>4. SumFunctionOnSet(g, S) = SumFunctionOnSet(f, S)
  BY <1>2, <1>3, SumAgrees
<1>5. /\ SumFunctionOnSet(g, S) \in Int
      /\ SumFunctionOnSet(g, S \cup {n}) = g[n] + SumFunctionOnSet(g, S)
  BY <1>2, <1>3, SumAdds
<1> QED BY <1>1, <1>3, <1>4, <1>5

\* Entries of other kinds change no count.
LEMMA SameAudited ==
    ASSUME NEW row \in JobRows, NEW new, Audited(row),
           \A kinds \in {{"job_submitted"}, {"attempt_offered"}, {"attempt_finished"},
                         CancelKinds, {"health_policy_fired"}} :
               Cardinality(InLog(new.audit, kinds)) = Cardinality(InLog(row.audit, kinds)),
           new.state = "absent" <=> row.state = "absent",
           new.state \in {"canceling", "canceled"} <=> row.state \in {"canceling", "canceled"},
           Len(new.attempts) = Len(row.attempts), EndedOf(new) = EndedOf(row),
           \A n \in EndedOf(row) : new.attempts[n].fired = row.attempts[n].fired
    PROVE  Audited(new)
<1>1. FiringsOf(new) = FiringsOf(row)
  BY SameFirings
<1> QED BY <1>1 DEF Audited

LEMMA EventAudited ==
    ASSUME NEW row \in JobRows, NEW n \in DOMAIN row.attempts, NEW j \in Jobs,
           NEW body, NEW fires \in SUBSET Nat, IsFiniteSet(fires), NEW new, NEW x,
           Effect(row, n, j, body, fires, new, x), row.state # "absent",
           \A m \in DOMAIN row.attempts : /\ Cardinality(row.attempts[m].fired) \in Nat
                                          /\ row.attempts[m].state \in Live => row.attempts[m].fired = {},
           Audited(row)
    PROVE  Audited(new)
<1> DEFINE old == row.attempts[n]
<1>1. /\ DOMAIN new.attempts = DOMAIN row.attempts /\ Len(new.attempts) = Len(row.attempts)
      /\ \A m \in DOMAIN row.attempts : new.attempts[m] = IF m = n THEN x ELSE row.attempts[m]
  BY DEF Effect, Replaces
<1>2. row.audit \in Seq(AuditKinds)
  BY DEF JobRows
<1>3. CASE body.kind # "attempt_finished"
  <2>1. /\ x.state \in Ended <=> old.state \in Ended
        /\ x.fired = old.fired
        /\ new.state = row.state \/ (row.state = "queued" /\ new.state = "running")
        /\ new.audit = row.audit \/ new.audit = Append(row.audit, "attempt_started")
    BY <1>3 DEF Effect, Ended
  <2>2. EndedOf(new) = EndedOf(row)
    BY <1>1, <2>1 DEF EndedOf
  <2>3. \A m \in EndedOf(row) : new.attempts[m].fired = row.attempts[m].fired
    BY <1>1, <2>1 DEF EndedOf
  <2>4. ASSUME NEW kinds \in {{"job_submitted"}, {"attempt_offered"}, {"attempt_finished"},
                              CancelKinds, {"health_policy_fired"}}
        PROVE  Cardinality(InLog(new.audit, kinds)) = Cardinality(InLog(row.audit, kinds))
    <3>1. "attempt_started" \in AuditKinds /\ "attempt_started" \notin kinds
      BY DEF AuditKinds, CancelKinds
    <3>2. Cardinality(InLog(Append(row.audit, "attempt_started"), kinds))
              = Cardinality(InLog(row.audit, kinds)) + 0
      BY <1>2, <3>1, LogAppends
    <3>3. Cardinality(InLog(row.audit, kinds)) \in Nat
      BY <1>2, LogFinite
    <3>4. CASE new.audit = row.audit
      BY <3>4
    <3>5. CASE new.audit = Append(row.audit, "attempt_started")
      BY <3>2, <3>3, <3>5
    <3> QED BY <2>1, <3>4, <3>5
  <2> QED BY <1>1, <2>1, <2>2, <2>3, <2>4, SameAudited
<1>4. CASE body.kind = "attempt_finished"
  <2>1. /\ old.state \in {"accepted", "running"} /\ body.ok \in BOOLEAN
        /\ x.state = AttemptVerdict(row, body.ok)
        /\ x.fired = old.fired \cup {<<p, "finished">> : p \in fires}
        /\ new.state = JobVerdict(row, n, MaxAttempts(j), body.ok)
        /\ new.audit = row.audit \o FinishLog(fires)
    BY <1>4 DEF Effect
  <2>2. x.state \in Ended /\ old.state \notin Ended /\ old.state \in Live
    BY <2>1 DEF AttemptVerdict, Ended, Live
  <2>3. /\ new.state # "absent"
        /\ new.state \in {"canceling", "canceled"} <=> row.state \in {"canceling", "canceled"}
    BY <2>1 DEF JobVerdict
  <2>4. Cardinality(x.fired) = Cardinality(fires) /\ Cardinality(fires) \in Nat
    <3>1. x.fired = {<<p, "finished">> : p \in fires}
      BY <2>1, <2>2
    <3> QED BY <3>1, FiringsCounted, FS_CardinalityType
  <2>5. EndedOf(new) = EndedOf(row) \cup {n} /\ n \notin EndedOf(row)
    BY <1>1, <2>2 DEF EndedOf
  <2>6. IsFiniteSet(EndedOf(row)) /\ Cardinality(EndedOf(row)) \in Nat
    BY EndedFinite
  <2>7. Cardinality(EndedOf(new)) = Cardinality(EndedOf(row)) + 1
    BY <2>5, <2>6, FS_AddElement
  <2>8. FiringsOf(new) = FiringsOf(row) + Cardinality(fires)
    <3>1. \A m \in EndedOf(row) : /\ new.attempts[m].fired = row.attempts[m].fired
                                  /\ Cardinality(row.attempts[m].fired) \in Nat
      BY <1>1, <2>5 DEF EndedOf
    <3>2. new.attempts[n].fired = x.fired
      BY <1>1
    <3>3. FiringsOf(new) = FiringsOf(row) + Cardinality(new.attempts[n].fired)
      BY <2>4, <2>5, <3>1, <3>2, MoreFirings
    <3> QED BY <2>4, <3>2, <3>3
  <2>9. ASSUME NEW kinds
        PROVE  /\ Cardinality(InLog(row.audit, kinds)) \in Nat
               /\ Cardinality(InLog(new.audit, kinds)) = Cardinality(InLog(row.audit, kinds))
                    + (IF "health_policy_fired" \in kinds THEN Cardinality(fires) ELSE 0)
                    + (IF "attempt_finished" \in kinds THEN 1 ELSE 0)
    BY <1>2, <2>1, <2>4, LogFinishes, LogFinite
  <2> HIDE DEF old
  <2>10. /\ Cardinality(InLog(new.audit, {"job_submitted"}))
                = Cardinality(InLog(row.audit, {"job_submitted"}))
         /\ Cardinality(InLog(new.audit, {"attempt_offered"}))
                = Cardinality(InLog(row.audit, {"attempt_offered"}))
         /\ Cardinality(InLog(new.audit, {"attempt_finished"}))
                = Cardinality(InLog(row.audit, {"attempt_finished"})) + 1
         /\ Cardinality(InLog(new.audit, CancelKinds))
                = Cardinality(InLog(row.audit, CancelKinds))
         /\ Cardinality(InLog(new.audit, {"health_policy_fired"}))
                = Cardinality(InLog(row.audit, {"health_policy_fired"})) + Cardinality(fires)
    <3> DEFINE c == Cardinality(fires)
               before(kinds) == Cardinality(InLog(row.audit, kinds))
               after(kinds) == Cardinality(InLog(new.audit, kinds))
    <3>1. \A kinds : /\ before(kinds) \in Nat
                     /\ "health_policy_fired" \notin kinds /\ "attempt_finished" \notin kinds
                            => after(kinds) = before(kinds)
                     /\ "health_policy_fired" \notin kinds /\ "attempt_finished" \in kinds
                            => after(kinds) = before(kinds) + 1
                     /\ "health_policy_fired" \in kinds /\ "attempt_finished" \notin kinds
                            => after(kinds) = before(kinds) + c
      BY <2>4, <2>9
    <3> HIDE DEF before, after, c
    <3>2. /\ after({"job_submitted"}) = before({"job_submitted"})
          /\ after({"attempt_offered"}) = before({"attempt_offered"})
          /\ after({"attempt_finished"}) = before({"attempt_finished"}) + 1
          /\ after(CancelKinds) = before(CancelKinds)
          /\ after({"health_policy_fired"}) = before({"health_policy_fired"}) + c
      BY <3>1 DEF CancelKinds
    <3> QED BY <3>2 DEF before, after, c
  <2> QED BY <1>1, <2>3, <2>7, <2>8, <2>10 DEF Audited
<1> QED BY <1>3, <1>4

LEMMA CanceledAudited ==
    ASSUME NEW row \in JobRows, CanCancel(row), Audited(row) PROVE Audited(Canceled(row))
<1> DEFINE new == Canceled(row)
<1>1. /\ new.attempts = row.attempts /\ new.state \in {"canceling", "canceled"}
      /\ \E k \in CancelKinds : new.audit = Append(row.audit, k)
  BY CanceledFields DEF CancelKinds
<1>2. row.audit \in Seq(AuditKinds) /\ row.state \in {"queued", "running"}
  BY DEF JobRows, CanCancel
<1> HIDE DEF new
<1>3. PICK k \in CancelKinds : new.audit = Append(row.audit, k)
  BY <1>1
<1>4. k \in AuditKinds
  BY DEF CancelKinds, AuditKinds
<1>5. ASSUME NEW kinds
      PROVE  /\ Cardinality(InLog(row.audit, kinds)) \in Nat
             /\ Cardinality(InLog(new.audit, kinds))
                    = Cardinality(InLog(row.audit, kinds)) + (IF k \in kinds THEN 1 ELSE 0)
  BY <1>2, <1>3, <1>4, LogAppends, LogFinite
<1>6. /\ Cardinality(InLog(new.audit, {"job_submitted"}))
             = Cardinality(InLog(row.audit, {"job_submitted"}))
      /\ Cardinality(InLog(new.audit, {"attempt_offered"}))
             = Cardinality(InLog(row.audit, {"attempt_offered"}))
      /\ Cardinality(InLog(new.audit, {"attempt_finished"}))
             = Cardinality(InLog(row.audit, {"attempt_finished"}))
      /\ Cardinality(InLog(new.audit, CancelKinds))
             = Cardinality(InLog(row.audit, CancelKinds)) + 1
      /\ Cardinality(InLog(new.audit, {"health_policy_fired"}))
             = Cardinality(InLog(row.audit, {"health_policy_fired"}))
  BY <1>5 DEF CancelKinds
<1>7. EndedOf(new) = EndedOf(row) /\ FiringsOf(new) = FiringsOf(row)
  BY <1>1 DEF EndedOf, FiringsOf
<1>8. Audited(new)
  BY <1>1, <1>2, <1>6, <1>7 DEF Audited
<1> QED BY <1>8 DEF new

LEMMA OfferedAudited ==
    ASSUME NEW row \in JobRows, NEW w \in Workers, row.state # "absent", Audited(row)
    PROVE  Audited(Offered(row, w))
<1> DEFINE new == Offered(row, w)
           N == Len(row.attempts) + 1
<1>1. /\ new.state = row.state /\ new.audit = Append(row.audit, "attempt_offered")
      /\ Len(new.attempts) = N
      /\ DOMAIN new.attempts = DOMAIN row.attempts \cup {N}
      /\ \A n \in DOMAIN row.attempts : new.attempts[n] = row.attempts[n]
      /\ new.attempts[N] = [worker |-> w, state |-> "offered", files |-> {}, fired |-> {}]
  BY OfferedFields
<1>2. /\ row.audit \in Seq(AuditKinds) /\ "attempt_offered" \in AuditKinds
      /\ row.attempts \in Seq(Attempts)
  BY DEF JobRows, AuditKinds
<1>3. N \notin DOMAIN row.attempts /\ new.attempts[N].state \notin Ended
  BY <1>1, <1>2 DEF Ended
<1> HIDE DEF new
<1>4. ASSUME NEW kinds
      PROVE  /\ Cardinality(InLog(row.audit, kinds)) \in Nat
             /\ Cardinality(InLog(new.audit, kinds)) = Cardinality(InLog(row.audit, kinds))
                    + (IF "attempt_offered" \in kinds THEN 1 ELSE 0)
  BY <1>1, <1>2, LogAppends, LogFinite
<1>5. /\ Cardinality(InLog(new.audit, {"job_submitted"}))
             = Cardinality(InLog(row.audit, {"job_submitted"}))
      /\ Cardinality(InLog(new.audit, {"attempt_offered"}))
             = Cardinality(InLog(row.audit, {"attempt_offered"})) + 1
      /\ Cardinality(InLog(new.audit, {"attempt_finished"}))
             = Cardinality(InLog(row.audit, {"attempt_finished"}))
      /\ Cardinality(InLog(new.audit, CancelKinds))
             = Cardinality(InLog(row.audit, CancelKinds))
      /\ Cardinality(InLog(new.audit, {"health_policy_fired"}))
             = Cardinality(InLog(row.audit, {"health_policy_fired"}))
  BY <1>4 DEF CancelKinds
<1>6. EndedOf(new) = EndedOf(row)
  BY <1>1, <1>3 DEF EndedOf
<1>7. \A n \in EndedOf(row) : new.attempts[n].fired = row.attempts[n].fired
  BY <1>1 DEF EndedOf
<1>8. FiringsOf(new) = FiringsOf(row)
  BY <1>6, <1>7, SameFirings
<1>9. Audited(new)
  BY <1>1, <1>5, <1>6, <1>8 DEF Audited
<1> QED BY <1>9 DEF new

LEMMA SubmittedAudited == ASSUME NEW rank PROVE Audited(Submitted(rank))
<1> DEFINE new == Submitted(rank)
<1>1. new.state = "queued" /\ new.attempts = << >> /\ new.audit = Append(<< >>, "job_submitted")
  BY DEF Submitted
<1>2. << >> \in Seq(AuditKinds) /\ "job_submitted" \in AuditKinds
  BY DEF AuditKinds
<1> HIDE DEF new
<1>3. EndedOf(new) = {} /\ Cardinality({}) = 0 /\ Len(new.attempts) = 0
  BY <1>1, FS_EmptySet DEF EndedOf
<1>4. FiringsOf(new) = 0
  <2> DEFINE f == [n \in EndedOf(new) |-> Cardinality(new.attempts[n].fired)]
  <2>1. FiringsOf(new) = SumFunctionOnSet(f, EndedOf(new))
    BY DEF FiringsOf, SumFunction
  <2> HIDE DEF f
  <2> QED BY <1>3, <2>1, SumEmpty
<1>5. ASSUME NEW kinds
      PROVE  Cardinality(InLog(new.audit, kinds)) = IF "job_submitted" \in kinds THEN 1 ELSE 0
  <2>1. InLog(<< >>, kinds) = {}
    BY DEF InLog
  <2>2. Cardinality(InLog(Append(<< >>, "job_submitted"), kinds))
            = Cardinality(InLog(<< >>, kinds)) + (IF "job_submitted" \in kinds THEN 1 ELSE 0)
    BY <1>2, LogAppends
  <2>3. Cardinality(InLog(<< >>, kinds)) = 0
    BY <1>3, <2>1
  <2>4. InLog(new.audit, kinds) = InLog(Append(<< >>, "job_submitted"), kinds)
    BY <1>1, Zenon
  <2> DEFINE before == Cardinality(InLog(<< >>, kinds))
             after == Cardinality(InLog(Append(<< >>, "job_submitted"), kinds))
  <2> HIDE DEF before, after
  <2>5. after = before + (IF "job_submitted" \in kinds THEN 1 ELSE 0) /\ before = 0
    BY <2>2, <2>3 DEF before, after
  <2>6. after = IF "job_submitted" \in kinds THEN 1 ELSE 0
    BY <2>5
  <2> QED BY <2>4, <2>6 DEF after
<1>6. /\ Cardinality(InLog(new.audit, {"job_submitted"})) = 1
      /\ Cardinality(InLog(new.audit, {"attempt_offered"})) = 0
      /\ Cardinality(InLog(new.audit, {"attempt_finished"})) = 0
      /\ Cardinality(InLog(new.audit, CancelKinds)) = 0
      /\ Cardinality(InLog(new.audit, {"health_policy_fired"})) = 0
  BY <1>5 DEF CancelKinds
<1>7. Audited(new)
  BY <1>1, <1>3, <1>4, <1>6 DEF Audited
<1> QED BY <1>7 DEF new

LEMMA NoRowAudited == Audited(NoJobRow)
<1> DEFINE new == NoJobRow
<1>1. new.state = "absent" /\ new.attempts = << >> /\ new.audit = << >>
  BY DEF NoJobRow
<1> HIDE DEF new
<1>2. EndedOf(new) = {} /\ Cardinality({}) = 0 /\ Len(new.attempts) = 0
  BY <1>1, FS_EmptySet DEF EndedOf
<1>3. FiringsOf(new) = 0
  <2> DEFINE f == [n \in EndedOf(new) |-> Cardinality(new.attempts[n].fired)]
  <2>1. FiringsOf(new) = SumFunctionOnSet(f, EndedOf(new))
    BY DEF FiringsOf, SumFunction
  <2> HIDE DEF f
  <2> QED BY <1>2, <2>1, SumEmpty
<1>4. \A kinds : Cardinality(InLog(new.audit, kinds)) = 0
  BY <1>1, <1>2 DEF InLog
<1>5. Audited(new)
  BY <1>1, <1>2, <1>3, <1>4 DEF Audited
<1> QED BY <1>5 DEF new

\* The strengthening of AuditAgrees: the rows of the open transaction agree with
\* their log too, and an attempt that has not ended has fired nothing, so that a
\* finish logs exactly the firings it adds.
AuditInv ==
    /\ PoliciesInv
    /\ \A j \in Jobs : Audited(db.job[j]) /\ Audited(tx.job[j])

LEMMA AuditInit == Init => AuditInv
<1> SUFFICES ASSUME Init PROVE AuditInv
  OBVIOUS
<1>1. \A j \in Jobs : db.job[j] = NoJobRow /\ tx.job[j] = NoJobRow
  BY DEF Init, EmptyDatabase
<1> QED BY <1>1, NoRowAudited, PoliciesInit DEF AuditInv

LEMMA AuditNext == AuditInv /\ [Next]_vars => AuditInv'
<1> SUFFICES ASSUME AuditInv, [Next]_vars
             PROVE  \A i \in Jobs : Audited(db'.job[i]) /\ Audited(tx'.job[i])
  BY PoliciesNext DEF AuditInv
<1> DEFINE Goal == \A i \in Jobs : Audited(db'.job[i]) /\ Audited(tx'.job[i])
<1>0. /\ CoherenceInv /\ CoherenceInv' /\ PoliciesFired(tx)
      /\ \A i \in Jobs : Audited(db.job[i]) /\ Audited(tx.job[i])
  BY CoherenceNext DEF AuditInv, PoliciesInv
<1>1. CASE SameTables(db, db') /\ tx' = db'
  BY <1>0, <1>1 DEF SameTables
<1>2. CASE db' = db /\ SameTables(db, tx')
  BY <1>0, <1>2 DEF SameTables
<1>3. CASE (db' = db /\ tx' = tx) \/ (db' = tx /\ tx' = tx)
  BY <1>0, <1>3
<1>4. ASSUME NEW k \in Keys, NEW j \in Jobs, NEW rank \in Nat, StepCreates(k, j, rank)
      PROVE  Goal
  BY <1>0, <1>4, SubmittedAudited DEF StepCreates, Wrote
<1>5. ASSUME NEW j \in Jobs, StepCancels(j) PROVE Goal
  <2>1. /\ db.job[j] \in JobRows /\ db'.job[j] = Canceled(db.job[j]) /\ CanCancel(db.job[j])
        /\ \A i \in Jobs \ {j} : db'.job[i] = db.job[i]
    BY <1>0, <1>5, CancelsRow
  <2>2. Audited(db'.job[j]) /\ tx' = db'
    BY <1>0, <1>5, <2>1, CanceledAudited DEF StepCancels
  <2> QED BY <1>0, <2>1, <2>2
<1>6. ASSUME NEW w \in Workers, NEW s \in Sessions, NEW e \in Events, StepRecords(w, s, e)
      PROVE  Goal
  <2> DEFINE j == e.body.attempt[1]
             n == e.body.attempt[2]
             fires == FiresOnFinish(tx, j, tx.job[j].attempts[n])
  <2>1. /\ j \in Jobs /\ tx.job[j] \in JobRows /\ n \in DOMAIN tx.job[j].attempts
        /\ fires \in SUBSET Nat /\ tx.job[j].state # "absent"
        /\ EventWrites(tx.job[j], n, j, e.body, fires, tx'.job[j])
        /\ \A i \in Jobs \ {j} : tx'.job[i] = tx.job[i]
    <3>1. RecordsWell(w, e)
      BY <1>0, <1>6, RecordsRow
    <3> QED BY <3>1 DEF RecordsWell
  <2>2. db' = db
    BY <1>6 DEF StepRecords
  <2>3. fires \in SUBSET Policies(j)
    BY DEF FiresOnFinish
  <2> HIDE DEF j, n, fires
  <2>4. PICK x : Effect(tx.job[j], n, j, e.body, fires, tx'.job[j], x)
    BY <2>1, EventEffect
  <2>5. IsFiniteSet(Policies(j)) /\ IsFiniteSet(fires)
    <3>1. Policies(j) = 1 .. Len(JobSpec[j].health) /\ Len(JobSpec[j].health) \in Nat
      BY <2>1, SpecAssumption DEF Policies
    <3>2. IsFiniteSet(Policies(j))
      BY <3>1, FS_Interval
    <3> QED BY <2>3, <3>2, FS_Subset
  <2>6. \A m \in DOMAIN tx.job[j].attempts :
            /\ Cardinality(tx.job[j].attempts[m].fired) \in Nat
            /\ tx.job[j].attempts[m].state \in Live => tx.job[j].attempts[m].fired = {}
    <3> SUFFICES ASSUME NEW m \in DOMAIN tx.job[j].attempts
                 PROVE  /\ Cardinality(tx.job[j].attempts[m].fired) \in Nat
                        /\ tx.job[j].attempts[m].state \in Live => tx.job[j].attempts[m].fired = {}
      OBVIOUS
    <3>1. tx.job[j].attempts[m].fired = FiredBy(j, tx.job[j].attempts[m].state)
      BY <1>0, <2>1 DEF PoliciesFired, RowFired
    <3>2. Cardinality({}) \in Nat /\ Cardinality(FinishedPolicies(j) \X {"finished"}) \in Nat
      <4>1. IsFiniteSet(FinishedPolicies(j))
        <5>1. FinishedPolicies(j) \in SUBSET Policies(j)
          BY DEF FinishedPolicies
        <5> QED BY <2>5, <5>1, FS_Subset
      <4>2. FinishedPolicies(j) \X {"finished"} = {<<p, "finished">> : p \in FinishedPolicies(j)}
        OBVIOUS
      <4> QED BY <4>1, <4>2, FiringsCounted, FS_CardinalityType, FS_EmptySet
    <3> QED BY <3>1, <3>2 DEF FiredBy, Live, Ended
  <2>7. Audited(tx'.job[j])
    <3> DEFINE row == tx.job[j]
               new == tx'.job[j]
               body == e.body
    <3>1. /\ row \in JobRows /\ n \in DOMAIN row.attempts /\ j \in Jobs /\ fires \in SUBSET Nat
          /\ IsFiniteSet(fires) /\ Effect(row, n, j, body, fires, new, x)
          /\ row.state # "absent" /\ Audited(row)
          /\ \A m \in DOMAIN row.attempts :
                /\ Cardinality(row.attempts[m].fired) \in Nat
                /\ row.attempts[m].state \in Live => row.attempts[m].fired = {}
      BY <1>0, <2>1, <2>4, <2>5, <2>6
    <3> HIDE DEF row, new, body
    <3>2. Audited(new)
      BY <3>1, EventAudited
    <3> QED BY <3>2 DEF new
  <2> QED BY <1>0, <2>1, <2>2, <2>7
<1>7. ASSUME NEW j \in Jobs, StepOffers(j) PROVE Goal
  <2>1. /\ tx.job[j] \in JobRows /\ req.worker \in Workers /\ tx.job[j].state = "queued"
        /\ tx'.job[j] = Offered(tx.job[j], req.worker)
        /\ \A i \in Jobs \ {j} : tx'.job[i] = tx.job[i]
    BY <1>0, <1>7, OffersRow
  <2>2. Audited(tx'.job[j]) /\ db' = db
    BY <1>0, <1>7, <2>1, OfferedAudited DEF StepOffers
  <2> QED BY <1>0, <2>1, <2>2
<1> QED BY <1>0, <1>1, <1>2, <1>3, <1>4, <1>5, <1>6, <1>7, StepCases

\* The audit table tells the story the rows tell: one entry per submission, offer,
\* ended attempt and firing, and one per cancellation, whichever transactions roll
\* back (CreateJob, CancelJob, offerJobs, applyWorkerEvent, fireHealthPolicyTx).
THEOREM AuditAlwaysAgrees == Spec => []AuditAgrees
<1>1. ASSUME AuditInv PROVE AuditAgrees
  BY <1>1 DEF AuditInv, Audited, AuditAgrees, Logged, InLog, EndedOf, FiringsOf, CancelKinds
<1> QED BY <1>1, AuditInit, AuditNext, PTL DEF Spec
=============================================================================
