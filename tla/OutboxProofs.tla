------------------------------ MODULE OutboxProofs ------------------------------
(* Nothing a worker has to say is lost, skipped or taken out of order, for every  *)
(* number of workers, jobs, faults and retries and every batch size: the chain    *)
(* from a worker's outbox over its requests to the event table has no gap.        *)
EXTENDS SyncSystem, FiniteSetTheorems, SequenceTheorems, WellFoundedInduction, TLAPS

---------------------------------------------------------------------------
(* Runs of consecutive events *)

Sequenced(es) == es \in Seq({es[i] : i \in DOMAIN es})

\* The events es are those that w numbered b + 1, b + 2, ...
Consecutive(es, w, b) ==
    /\ Sequenced(es)
    /\ \A i \in 1 .. Len(es) : es[i].seq = b + i /\ es[i].id = <<w, b + i>>

\* The sequence numbers of w that a database has, and how many they are.
Seen(d, w) == {r.seq : r \in {q \in d.events : q.worker = w}}
Top(d, w)  == Cardinality(Seen(d, w))

\* An outbox that goes on behind event b of w and up to the newest.
Box(st, w, b) ==
    /\ st \in [cmds : {st.cmds}, outbox : {st.outbox}, next : Nat]
    /\ Consecutive(st.outbox, w, b)
    /\ b + Len(st.outbox) + 1 = st.next

\* Every row is numbered by its worker, from one and without a gap.
Gapless(d) ==
    /\ d \in [job : {d.job}, worker : {d.worker}, keys : {d.keys},
              targets : {d.targets}, events : {d.events}]
    /\ \A r \in d.events : r.worker \in Workers /\ r.id = <<r.worker, r.seq>>
    /\ \A w \in Workers : Top(d, w) \in Nat /\ Seen(d, w) = 1 .. Top(d, w)

\* A request carries consecutive events of its worker, the first of them not later
\* than the one the control plane waits for.
Carried(r) ==
    /\ r \in [worker : Workers, session : {r.session}, events : {r.events},
              live : BOOLEAN]
    /\ \E b \in 0 .. Top(db, r.worker) :
          Consecutive(r.events, r.worker, b) /\ b + Len(r.events) < store[r.worker].next

Linked(w) ==
    /\ Top(db, w) <= Top(tx, w) /\ Top(tx, w) < store[w].next
    /\ \E b \in 0 .. Top(db, w) : Box(store[w], w, b)

Heard(w) ==
    /\ "inbox" \in DOMAIN agent[w]
    /\ agent[w].inbox.through \in 0 .. Top(db, w)
    /\ IsFiniteSet(agent[w].inbox.run)

Serving ==
    /\ call \in [live : BOOLEAN, rest : {call.rest}]
    /\ \/ req = Idle
       \/ req \in [phase : {"events", "offers"}, worker : Workers,
                   session : {req.session}, scan : {req.scan}]
    /\ req.phase = "events" =>
          \E b \in 0 .. Top(tx, req.worker) :
             /\ Consecutive(call.rest, req.worker, b)
             /\ b + Len(call.rest) < store[req.worker].next

\* The inductive invariant.
ChainInv ==
    /\ DOMAIN store = Workers /\ DOMAIN agent = Workers
    /\ Gapless(db) /\ Gapless(tx)
    /\ \A w \in Workers : Linked(w) /\ Heard(w)
    /\ \A r \in wire : Carried(r)
    /\ Serving

---------------------------------------------------------------------------
(* Sequences *)

LEMMA SequencedIs ==
    ASSUME NEW S, NEW es \in Seq(S)
    PROVE  Sequenced(es)
<1>1. Len(es) \in Nat /\ DOMAIN es = 1 .. Len(es)
  OBVIOUS
<1>2. es = [i \in 1 .. Len(es) |-> es[i]]
  OBVIOUS
<1> DEFINE T == {es[i] : i \in DOMAIN es}
<1>3. \A i \in 1 .. Len(es) : es[i] \in T
  BY <1>1
<1> HIDE DEF T
<1>4. [i \in 1 .. Len(es) |-> es[i]] \in Seq(T)
  BY <1>1, <1>3, IsASeq
<1>5. es \in Seq(T)
  BY <1>2, <1>4
<1> QED BY <1>5 DEF Sequenced, T

LEMMA SequencedFacts ==
    ASSUME NEW es, Sequenced(es)
    PROVE  Len(es) \in Nat /\ DOMAIN es = 1 .. Len(es)
BY DEF Sequenced

LEMMA ConsecutiveEmpty ==
    ASSUME NEW w, NEW b PROVE Consecutive(<< >>, w, b) /\ Len(<< >>) = 0
<1>1. << >> \in Seq({})
  OBVIOUS
<1>2. Sequenced(<< >>)
  BY <1>1, SequencedIs
<1> QED BY <1>2 DEF Consecutive

LEMMA ConsecutiveAppend ==
    ASSUME NEW w, NEW b \in Nat, NEW es, Consecutive(es, w, b), NEW e,
           e.seq = b + Len(es) + 1, e.id = <<w, b + Len(es) + 1>>
    PROVE  /\ Consecutive(Append(es, e), w, b)
           /\ Len(Append(es, e)) = Len(es) + 1
<1> DEFINE S == {es[i] : i \in DOMAIN es} \cup {e}
<1>1. es \in Seq({es[i] : i \in DOMAIN es}) /\ Len(es) \in Nat
  BY SequencedFacts DEF Consecutive, Sequenced
<1>2. es \in Seq(S) /\ e \in S
  BY <1>1
<1> HIDE DEF S
<1>3. /\ Append(es, e) \in Seq(S) /\ Len(Append(es, e)) = Len(es) + 1
      /\ \A i \in 1 .. Len(es) : Append(es, e)[i] = es[i]
      /\ Append(es, e)[Len(es) + 1] = e
  BY <1>2
<1>4. Sequenced(Append(es, e))
  BY <1>3, SequencedIs
<1> DEFINE new == Append(es, e)
<1>5. ASSUME NEW i \in 1 .. Len(es) + 1
      PROVE  new[i].seq = b + i /\ new[i].id = <<w, b + i>>
  <2>1. CASE i \in 1 .. Len(es)
    BY <1>3, <2>1 DEF Consecutive
  <2>2. CASE i = Len(es) + 1
    <3>1. b + i = b + Len(es) + 1
      BY <1>1, <2>2
    <3> QED BY <1>3, <2>2, <3>1
  <2> QED BY <1>1, <2>1, <2>2
<1> QED BY <1>3, <1>4, <1>5 DEF Consecutive

\* The first of the events is number b + 1 of w, the others follow it.
Popped(es, w, b) ==
    /\ Head(es).seq = b + 1 /\ Head(es).id = <<w, b + 1>>
    /\ Consecutive(Tail(es), w, b + 1)
    /\ Len(es) \in Nat \ {0} /\ Len(Tail(es)) = Len(es) - 1

LEMMA ConsecutiveTail ==
    ASSUME NEW w, NEW b \in Nat, NEW es, Consecutive(es, w, b), es # << >>
    PROVE  Popped(es, w, b)
<1> DEFINE S == {es[i] : i \in DOMAIN es}
<1>1. es \in Seq(S) /\ Len(es) \in Nat
  BY SequencedFacts DEF Consecutive, Sequenced
<1> HIDE DEF S
<1>2. /\ Tail(es) \in Seq(S) /\ Len(es) > 0 /\ Len(Tail(es)) = Len(es) - 1
      /\ \A i \in 1 .. Len(es) - 1 : Tail(es)[i] = es[i + 1]
      /\ Head(es) = es[1]
  BY <1>1
<1>3. Sequenced(Tail(es))
  BY <1>2, SequencedIs
<1> DEFINE new == Tail(es)
<1>4. ASSUME NEW i \in 1 .. Len(es) - 1
      PROVE  new[i].seq = b + 1 + i /\ new[i].id = <<w, b + 1 + i>>
  <2>1. i + 1 \in 1 .. Len(es) /\ b + (i + 1) = b + 1 + i
    BY <1>1
  <2>2. es[i + 1].seq = b + (i + 1) /\ es[i + 1].id = <<w, b + (i + 1)>>
    BY <2>1 DEF Consecutive
  <2> QED BY <1>2, <2>1, <2>2
<1>5. 1 \in 1 .. Len(es)
  BY <1>1, <1>2
<1>6. Head(es).seq = b + 1 /\ Head(es).id = <<w, b + 1>>
  BY <1>2, <1>5 DEF Consecutive
<1> QED BY <1>1, <1>2, <1>3, <1>4, <1>6 DEF Consecutive, Popped

\* A part of a run is a run.
LEMMA ConsecutivePart ==
    ASSUME NEW w, NEW b \in Nat, NEW es, Consecutive(es, w, b),
           NEW k \in Nat, NEW l \in Nat, k <= l, l <= Len(es)
    PROVE  /\ Consecutive(SubSeq(es, k + 1, l), w, b + k)
           /\ Len(SubSeq(es, k + 1, l)) = l - k
<1> DEFINE S == {es[i] : i \in DOMAIN es}
           new == SubSeq(es, k + 1, l)
<1>1. es \in Seq(S) /\ Len(es) \in Nat
  BY SequencedFacts DEF Consecutive, Sequenced
<1> HIDE DEF S
<1>2. /\ new \in Seq(S) /\ Len(new) = l - k
      /\ \A i \in 1 .. l - k : new[i] = es[k + i]
  <2>1. \A i \in (k + 1) .. l : i \in 1 .. Len(es)
    BY <1>1
  <2>2. \A i \in (k + 1) .. l : es[i] \in S
    BY <1>1, <2>1
  <2>3. /\ new \in Seq(S)
        /\ Len(new) = IF k + 1 <= l THEN l - (k + 1) + 1 ELSE 0
        /\ \A i \in 1 .. l - (k + 1) + 1 : new[i] = es[(k + 1) + i - 1]
    BY <1>1, <2>2, SubSeqProperties
  <2>4. Len(new) = l - k /\ l - (k + 1) + 1 = l - k
    BY <2>3
  <2>5. \A i \in 1 .. l - k : (k + 1) + i - 1 = k + i
    OBVIOUS
  <2> QED BY <2>3, <2>4, <2>5
<1>3. Sequenced(new)
  BY <1>2, SequencedIs
<1>4. ASSUME NEW i \in 1 .. l - k
      PROVE  new[i].seq = b + k + i /\ new[i].id = <<w, b + k + i>>
  <2>1. k + i \in 1 .. Len(es) /\ b + (k + i) = b + k + i
    BY <1>1
  <2>2. es[k + i].seq = b + (k + i) /\ es[k + i].id = <<w, b + (k + i)>>
    BY <2>1 DEF Consecutive
  <2> QED BY <1>2, <2>1, <2>2
<1> QED BY <1>2, <1>3, <1>4 DEF Consecutive

\* A part that is appended.
LEMMA ConsecutiveConcat ==
    ASSUME NEW w, NEW b \in Nat, NEW es, Consecutive(es, w, b),
           NEW fs, Consecutive(fs, w, b + Len(es))
    PROVE  /\ Consecutive(es \o fs, w, b)
           /\ Len(es \o fs) = Len(es) + Len(fs)
<1> DEFINE S == {es[i] : i \in DOMAIN es} \cup {fs[i] : i \in DOMAIN fs}
           new == es \o fs
<1>1. /\ es \in Seq({es[i] : i \in DOMAIN es}) /\ Len(es) \in Nat
      /\ fs \in Seq({fs[i] : i \in DOMAIN fs}) /\ Len(fs) \in Nat
  BY SequencedFacts DEF Consecutive, Sequenced
<1>2. es \in Seq(S) /\ fs \in Seq(S)
  BY <1>1
<1> HIDE DEF S
<1>3. /\ new \in Seq(S) /\ Len(new) = Len(es) + Len(fs)
      /\ \A i \in 1 .. Len(es) + Len(fs) :
            new[i] = IF i <= Len(es) THEN es[i] ELSE fs[i - Len(es)]
  BY <1>2, ConcatProperties
<1>4. Sequenced(new)
  BY <1>3, SequencedIs
<1>5. ASSUME NEW i \in 1 .. Len(es) + Len(fs)
      PROVE  new[i].seq = b + i /\ new[i].id = <<w, b + i>>
  <2>1. CASE i <= Len(es)
    <3>1. i \in 1 .. Len(es)
      BY <1>1, <2>1
    <3> QED BY <1>3, <2>1, <3>1 DEF Consecutive
  <2>2. CASE ~(i <= Len(es))
    <3> DEFINE k == i - Len(es)
    <3>1. k \in 1 .. Len(fs) /\ b + Len(es) + k = b + i
      BY <1>1, <2>2
    <3>2. fs[k].seq = b + Len(es) + k /\ fs[k].id = <<w, b + Len(es) + k>>
      BY <3>1 DEF Consecutive
    <3> QED BY <1>3, <2>2, <3>1, <3>2
  <2> QED BY <2>1, <2>2
<1> QED BY <1>3, <1>4, <1>5 DEF Consecutive

\* What an acknowledgement leaves of an outbox is the run behind it.
LEMMA ConsecutiveAfter ==
    ASSUME NEW w, NEW b \in Nat, NEW es, Consecutive(es, w, b),
           NEW through \in Nat, through <= b + Len(es)
    PROVE  \E c \in Nat :
              /\ c = IF through <= b THEN b ELSE through
              /\ Consecutive(After(es, through), w, c)
              /\ c + Len(After(es, through)) = b + Len(es)
<1> DEFINE gone == {i \in DOMAIN es : es[i].seq <= through}
           k == IF through <= b THEN 0 ELSE through - b
<1>1. Len(es) \in Nat /\ DOMAIN es = 1 .. Len(es)
  BY SequencedFacts DEF Consecutive
<1>2. k \in Nat /\ k <= Len(es)
  BY <1>1
<1>3. gone = 1 .. k
  <2>1. \A i \in 1 .. Len(es) : es[i].seq <= through <=> i <= k
    <3> TAKE i \in 1 .. Len(es)
    <3>1. es[i].seq = b + i
      BY DEF Consecutive
    <3> QED BY <3>1
  <2> QED BY <1>1, <1>2, <2>1
<1>4. Cardinality(gone) = k
  <2> HIDE DEF k, gone
  <2>1. Cardinality(1 .. k) = IF 1 > k THEN 0 ELSE k - 1 + 1
    BY <1>2, FS_Interval
  <2> QED BY <1>2, <1>3, <2>1
<1>5. After(es, through) = SubSeq(es, k + 1, Len(es))
  <2> HIDE DEF k
  <2>1. 1 + Cardinality(gone) = k + 1
    BY <1>2, <1>4
  <2> QED BY <2>1 DEF After
<1>6. /\ Consecutive(After(es, through), w, b + k)
      /\ Len(After(es, through)) = Len(es) - k
  <2> DEFINE l == Len(es)
             part == SubSeq(es, k + 1, l)
  <2>1. l \in Nat /\ k <= l /\ l <= Len(es)
    BY <1>1, <1>2
  <2> HIDE DEF k, l
  <2>2. Consecutive(part, w, b + k) /\ Len(part) = l - k
    BY <1>2, <2>1, ConsecutivePart
  <2>3. After(es, through) = part
    BY <1>5 DEF l
  <2> QED BY <2>2, <2>3 DEF l
<1>7. /\ b + k \in Nat /\ b + k = IF through <= b THEN b ELSE through
      /\ b + k + (Len(es) - k) = b + Len(es)
  BY <1>1, <1>2
<1> HIDE DEF k
<1> QED BY <1>6, <1>7

---------------------------------------------------------------------------
(* What the statements of the worker's store do to its outbox *)

\* st is changed in its commands only.
Touched(st, mid) == mid \in [cmds : {mid.cmds}, outbox : {st.outbox}, next : {st.next}]

LEMMA BoxEnqueue ==
    ASSUME NEW w, NEW b \in Nat, NEW st, Box(st, w, b), NEW body
    PROVE  /\ Box(Enqueue(st, w, body), w, b)
           /\ Enqueue(st, w, body).next = st.next + 1
<1> DEFINE e == [seq |-> st.next, id |-> <<w, st.next>>, body |-> body]
           es == st.outbox
           new == Enqueue(st, w, body)
<1>1. /\ st.next \in Nat /\ Consecutive(es, w, b) /\ b + Len(es) + 1 = st.next
  BY DEF Box
<1>2. Len(es) \in Nat
  BY <1>1, SequencedFacts DEF Consecutive
<1>3. /\ new.outbox = Append(es, e) /\ new.next = st.next + 1
      /\ new \in [cmds : {new.cmds}, outbox : {new.outbox}, next : {new.next}]
  BY DEF Box, Enqueue
<1>4. e.seq = b + Len(es) + 1 /\ e.id = <<w, b + Len(es) + 1>>
  BY <1>1
<1> HIDE DEF e, es, new
<1>5. Consecutive(Append(es, e), w, b) /\ Len(Append(es, e)) = Len(es) + 1
  BY <1>1, <1>4, ConsecutiveAppend
<1>6. b + Len(new.outbox) + 1 = new.next /\ new.next \in Nat
  BY <1>1, <1>2, <1>3, <1>5
<1>7. Box(new, w, b)
  BY <1>3, <1>5, <1>6 DEF Box
<1> QED BY <1>3, <1>7 DEF new

\* One of the statements that change a command and report it.
LEMMA BoxReports ==
    ASSUME NEW w, NEW b \in Nat, NEW st, Box(st, w, b), NEW mid, Touched(st, mid), NEW body
    PROVE  /\ Box(mid, w, b) /\ mid.next = st.next
           /\ Box(Enqueue(mid, w, body), w, b)
           /\ Enqueue(mid, w, body).next = st.next + 1
<1>1. Box(mid, w, b) /\ mid.next = st.next
  BY DEF Box, Touched
<1>2. Box(Enqueue(mid, w, body), w, b) /\ Enqueue(mid, w, body).next = mid.next + 1
  BY <1>1, BoxEnqueue
<1> QED BY <1>1, <1>2

\* SetToSeq lists a finite set, each member once.
LEMMA SetListed ==
    ASSUME NEW S, IsFiniteSet(S)
    PROVE  LET list == SetToSeq(S)
           IN  /\ Cardinality(S) \in Nat /\ Len(list) = Cardinality(S)
               /\ DOMAIN list = 1 .. Cardinality(S) /\ list \in Seq(S)
               /\ \A x \in S : \E i \in DOMAIN list : list[i] = x
<1> DEFINE N == Cardinality(S)
           list == SetToSeq(S)
<1>1. N \in Nat
  BY FS_CardinalityType
<1>2. PICK n \in Nat : ExistsBijection(1 .. n, S)
  BY FS_NatBijection
<1>3. n = N
  BY <1>2, FS_CountingElements
<1> HIDE DEF N
<1>4. PICK f : f \in Bijection(1 .. N, S)
  BY <1>2, <1>3 DEF ExistsBijection
<1>5. \E g \in [1 .. N -> S] : IsInjective(g)
  BY <1>4 DEF Bijection, Injection
<1>6. list \in [1 .. N -> S] /\ IsInjective(list)
  BY <1>5 DEF SetToSeq, N
<1> HIDE DEF list
<1>7. list \in Seq(S) /\ DOMAIN list = 1 .. N
  BY <1>1, <1>6
<1>8. Len(list) = N
  BY <1>1, <1>7
<1>9. \A x \in S : \E i \in 1 .. N : list[i] = x
  <2> DEFINE D == 1 .. N
  <2>1. Cardinality(D) = Cardinality(S)
    <3>1. Cardinality(1 .. N) = IF 1 > N THEN 0 ELSE N - 1 + 1
      BY <1>1, FS_Interval
    <3> QED BY <1>1, <3>1 DEF N
  <2>2. list \in Injection(D, S)
    BY <1>6 DEF IsInjective, Injection
  <2> HIDE DEF D
  <2>3. list \in Surjection(D, S)
    BY <2>1, <2>2, FS_Injection
  <2> QED BY <2>3 DEF Surjection, D
<1> QED BY <1>1, <1>7, <1>8, <1>9 DEF N, list

\* AcceptCommands reports every command that is new.
LEMMA BoxAccepts ==
    ASSUME NEW w, NEW b \in Nat, NEW st, Box(st, w, b),
           NEW run, IsFiniteSet(run), NEW cancel
    PROVE  LET new == WithCommands(st, w, run, cancel)
           IN  Box(new, w, b) /\ new.next \in Nat /\ new.next >= st.next
<1> DEFINE fresh == {r \in run : r.attempt \notin DOMAIN st.cmds}
           rows == SetToSeq(fresh)
           N == Cardinality(fresh)
           es == st.outbox
           fs == [i \in DOMAIN rows |->
                    [seq |-> st.next + i - 1, id |-> <<w, st.next + i - 1>>,
                     body |-> [kind |-> "attempt_accepted", attempt |-> rows[i].attempt]]]
           new == WithCommands(st, w, run, cancel)
<1>1. IsFiniteSet(fresh) /\ N \in Nat
  <2>1. fresh \subseteq run
    OBVIOUS
  <2> HIDE DEF fresh
  <2> QED BY <2>1, FS_Subset, FS_CardinalityType
<1>3. DOMAIN rows = 1 .. N /\ Len(rows) = N
  <2> HIDE DEF fresh
  <2> QED BY <1>1, SetListed
<1>4. /\ st.next \in Nat /\ Consecutive(es, w, b) /\ b + Len(es) + 1 = st.next
      /\ Len(es) \in Nat
  BY SequencedFacts DEF Box, Consecutive
<1>5. Consecutive(fs, w, b + Len(es)) /\ Len(fs) = N
  <2>1. DOMAIN fs = 1 .. N
    BY <1>3
  <2>2. fs \in Seq({fs[i] : i \in 1 .. N})
    <3>1. fs \in [1 .. N -> {fs[i] : i \in 1 .. N}]
      BY <1>3
    <3> HIDE DEF fs, N
    <3> QED BY <1>1, <3>1
  <2>3. Sequenced(fs)
    <3> HIDE DEF fs
    <3> QED BY <2>2, SequencedIs
  <2>4. Len(fs) = N
    <3> HIDE DEF fs, N
    <3> QED BY <1>1, <2>1, <2>2
  <2>5. ASSUME NEW i \in 1 .. N
        PROVE  fs[i].seq = b + Len(es) + i /\ fs[i].id = <<w, b + Len(es) + i>>
    <3>1. st.next + i - 1 = b + Len(es) + i
      <4> HIDE DEF es, N
      <4> QED BY <1>1, <1>4
    <3>2. fs[i].seq = st.next + i - 1 /\ fs[i].id = <<w, st.next + i - 1>>
      BY <1>3
    <3> HIDE DEF fs, es
    <3> QED BY <3>1, <3>2
  <2> HIDE DEF fs, N, es
  <2> QED BY <2>3, <2>4, <2>5 DEF Consecutive
<1>6. new.outbox = es \o fs /\ new.next = st.next + Len(rows)
  BY DEF WithCommands
<1>7. new \in [cmds : {new.cmds}, outbox : {new.outbox}, next : {new.next}]
  BY DEF WithCommands
<1> HIDE DEF rows, fresh, N, es, fs, new
<1>8. Consecutive(es \o fs, w, b) /\ Len(es \o fs) = Len(es) + Len(fs)
  BY <1>4, <1>5, ConsecutiveConcat
<1>9. /\ new.next \in Nat /\ new.next >= st.next
      /\ b + Len(new.outbox) + 1 = new.next
  BY <1>1, <1>3, <1>4, <1>5, <1>6, <1>8
<1>10. Box(new, w, b)
  BY <1>6, <1>7, <1>8, <1>9 DEF Box
<1> QED BY <1>9, <1>10 DEF new

---------------------------------------------------------------------------
(* The acknowledgement *)

\* The largest of a set of numbers up to n.
LEMMA MaxBelow ==
    ASSUME NEW n \in Nat, NEW S \in SUBSET (0 .. n), S # {}
    PROVE  Max(S) \in S
<1> DEFINE T == {n - x : x \in S}
<1>1. T \in SUBSET Nat /\ T # {}
  <2>1. \A x \in S : x \in 0 .. n
    OBVIOUS
  <2>2. \A x \in S : n - x \in Nat
    BY <2>1
  <2> QED BY <2>2
<1>2. PICK k \in T : \A y \in T : <<y, k>> \notin OpToRel(<, Nat)
  <2>1. IsWellFoundedOn(OpToRel(<, Nat), Nat)
    BY NatLessThanWellFounded
  <2> HIDE DEF T
  <2> QED BY <1>1, <2>1, WFMin
<1>3. PICK x \in S : k = n - x
  OBVIOUS
<1>4. ASSUME NEW y \in S PROVE x >= y
  <2>1. n - y \in T /\ n - y \in Nat /\ k \in Nat
    BY <1>1
  <2>2. ~(n - y < k)
    BY <1>2, <2>1 DEF OpToRel
  <2> QED BY <1>3, <2>1, <2>2
<1> QED BY <1>4 DEF Max

\* A function takes finitely many values on a finite set.
LEMMA ImageFinite ==
    ASSUME NEW S, IsFiniteSet(S), NEW f
    PROVE  IsFiniteSet({f[x] : x \in S})
<1> DEFINE T == {f[x] : x \in S}
           g == [x \in S |-> f[x]]
<1>1. g \in Surjection(S, T)
  BY DEF Surjection
<1> HIDE DEF T, g
<1>2. IsFiniteSet(T)
  BY <1>1, FS_Surjection
<1> QED BY <1>2 DEF T

\* The jobs are finitely many, and so are their attempts.
LEMMA FiniteIds == IsFiniteSet(AttemptIds)
<1> DEFINE F(j) == {j} \X (1 .. MaxAttempts(j))
           all == {F(j) : j \in Jobs}
<1>1. IsFiniteSet(all)
  <2> DEFINE f == [j \in Jobs |-> F(j)]
  <2>1. IsFiniteSet({f[j] : j \in Jobs})
    <3> HIDE DEF f
    <3> QED BY JobsAssumption, ImageFinite
  <2>2. all = {f[j] : j \in Jobs}
    OBVIOUS
  <2> HIDE DEF all, f
  <2> QED BY <2>1, <2>2
<1>2. \A j \in Jobs : IsFiniteSet(F(j))
  <2> TAKE j \in Jobs
  <2>1. MaxAttempts(j) \in Nat
    BY SpecAssumption
  <2>2. IsFiniteSet(1 .. MaxAttempts(j)) /\ IsFiniteSet({j})
    <3> DEFINE max == MaxAttempts(j)
    <3>1. max \in Int
      BY <2>1
    <3> HIDE DEF max
    <3>2. IsFiniteSet(1 .. max)
      BY <3>1, FS_Interval
    <3> QED BY <3>2, FS_Singleton DEF max
  <2> QED BY <2>2, FS_Product
<1>3. \A x \in all : IsFiniteSet(x)
  BY <1>2
<1>4. AttemptIds = UNION all
  BY DEF AttemptIds
<1> HIDE DEF all
<1> QED BY <1>1, <1>3, <1>4, FS_UNION

\* No sequence above those recorded is acknowledged.
LEMMA AnswerFits ==
    ASSUME NEW d, Gapless(d), NEW w \in Workers, NEW s
    PROVE  /\ Answer(d, w, s).through \in 0 .. Top(d, w)
           /\ IsFiniteSet(Answer(d, w, s).run)
<1> DEFINE S == {0} \cup {r.seq : r \in {q \in d.events : q.worker = w /\ q.session = s}}
           m == Top(d, w)
<1>1. m \in Nat /\ Seen(d, w) = 1 .. m
  BY DEF Gapless
<1>2. S \in SUBSET (0 .. m) /\ S # {}
  <2>1. \A r \in d.events : r.worker = w => r.seq \in Seen(d, w)
    BY DEF Seen
  <2> HIDE DEF m
  <2> QED BY <1>1, <2>1
<1>3. Max(S) \in 0 .. m
  <2> HIDE DEF S, m
  <2> QED BY <1>1, <1>2, MaxBelow
<1>4. Answer(d, w, s).through = Max(S)
  BY DEF Answer
<1>6. IsFiniteSet(Answer(d, w, s).run)
  <2> DEFINE offered == {a \in LiveOn(d, w) : d.job[a[1]].attempts[a[2]].state = "offered"}
             run == {[attempt |-> a, rev |-> d.job[a[1]].rev] : a \in offered}
  <2>1. offered \subseteq AttemptIds
    BY DEF LiveOn
  <2>2. IsFiniteSet(offered)
    <3> HIDE DEF offered
    <3> QED BY <2>1, FiniteIds, FS_Subset
  <2>3. IsFiniteSet(run)
    <3> DEFINE f == [a \in offered |-> [attempt |-> a, rev |-> d.job[a[1]].rev]]
    <3>1. run = {f[a] : a \in offered}
      OBVIOUS
    <3> HIDE DEF offered, run, f
    <3> QED BY <2>2, <3>1, ImageFinite
  <2>4. Answer(d, w, s).run = run
    BY DEF Answer
  <2> QED BY <2>3, <2>4
<1> QED BY <1>3, <1>4, <1>6

---------------------------------------------------------------------------
(* The steps on a worker's machine *)

LEMMA BoxStarted ==
    ASSUME NEW w, NEW b \in Nat, NEW st, Box(st, w, b), NEW a, NEW pid
    PROVE  /\ Box(MarkStarted(st, w, a, pid), w, b)
           /\ MarkStarted(st, w, a, pid).next = st.next + 1
<1> DEFINE mid == [st EXCEPT !.cmds[a] =
                      [@ EXCEPT !.state = "running", !.pid = pid]]
           body == [kind |-> "attempt_started", attempt |-> a]
<1>1. MarkStarted(st, w, a, pid) = Enqueue(mid, w, body)
  BY DEF MarkStarted
<1>2. Touched(st, mid)
  BY DEF Box, Touched
<1> HIDE DEF mid, body
<1> QED BY <1>1, <1>2, BoxReports

LEMMA BoxFinished ==
    ASSUME NEW w, NEW b \in Nat, NEW st, Box(st, w, b),
           NEW a, NEW ok, NEW tail, NEW outputs
    PROVE  /\ Box(MarkFinished(st, w, a, ok, tail, outputs), w, b)
           /\ MarkFinished(st, w, a, ok, tail, outputs).next = st.next + 1
<1> DEFINE mid == [st EXCEPT !.cmds[a].state = "finished"]
           body == [kind |-> "attempt_finished", attempt |-> a, ok |-> ok,
                    tailFits |-> tail, files |-> outputs]
<1>1. MarkFinished(st, w, a, ok, tail, outputs) = Enqueue(mid, w, body)
  BY DEF MarkFinished
<1>2. Touched(st, mid)
  BY DEF Box, Touched
<1> HIDE DEF mid, body
<1> QED BY <1>1, <1>2, BoxReports

LEMMA BoxAnnounced ==
    ASSUME NEW w, NEW b \in Nat, NEW st, Box(st, w, b), NEW a, NEW changed
    PROVE  LET new == AnnounceArtifacts(st, w, a, changed)
           IN  Box(new, w, b) /\ new.next \in {st.next, st.next + 1}
<1> DEFINE body == [kind |-> "artifacts", attempt |-> a, files |-> changed]
<1>1. AnnounceArtifacts(st, w, a, changed) \in {st, Enqueue(st, w, body)}
  BY DEF AnnounceArtifacts
<1> HIDE DEF body
<1> QED BY <1>1, BoxEnqueue

LEMMA BoxLine ==
    ASSUME NEW w, NEW b \in Nat, NEW st, Box(st, w, b), NEW a, NEW line
    PROVE  LET new == TakeLine(st, w, a, line)
           IN  Box(new, w, b) /\ new.next \in {st.next, st.next + 1}
<1> DEFINE mid == [st EXCEPT !.cmds[a].offset = @ + 1]
           body == [kind |-> "metric_sample", attempt |-> a, point |-> line]
<1>1. TakeLine(st, w, a, line) \in {mid, Enqueue(mid, w, body)}
  BY DEF TakeLine
<1>2. Touched(st, mid)
  BY DEF Box, Touched
<1> HIDE DEF mid, body
<1>3. /\ Box(mid, w, b) /\ mid.next = st.next
      /\ Box(Enqueue(mid, w, body), w, b)
      /\ Enqueue(mid, w, body).next = st.next + 1
  BY <1>2, BoxReports
<1> QED BY <1>1, <1>3

\* What a step on a worker's machine does to the stores: outboxes go on without a
\* gap, and what they drop is recorded.
StoresGo ==
    /\ DOMAIN store' = Workers
    /\ \A v \in Workers : /\ store'[v].next >= store[v].next
                          /\ \E b \in 0 .. Top(db, v) : Box(store'[v], v, b)

\* And to the agents' knowledge of replies.
AgentsGo ==
    /\ DOMAIN agent' = Workers
    /\ \A v \in Workers : /\ "inbox" \in DOMAIN agent'[v]
                          /\ agent'[v].inbox \in {agent[v].inbox, NoReply}

LEMMA StoresStay == ChainInv /\ UNCHANGED store => StoresGo
<1> SUFFICES ASSUME ChainInv, store' = store PROVE StoresGo
  OBVIOUS
<1>1. \A v \in Workers : /\ \E b \in 0 .. Top(db, v) : Box(store[v], v, b)
                         /\ store[v].next \in Nat
  BY DEF ChainInv, Linked, Box
<1> QED BY <1>1 DEF StoresGo, ChainInv

LEMMA StorePut ==
    ASSUME ChainInv, NEW w \in Workers, NEW st, store' = [store EXCEPT ![w] = st],
           NEW c \in 0 .. Top(db, w), Box(st, w, c), st.next >= store[w].next
    PROVE  StoresGo
<1>1. \A v \in Workers : /\ \E b \in 0 .. Top(db, v) : Box(store[v], v, b)
                         /\ store[v].next \in Nat
  BY DEF ChainInv, Linked, Box
<1>2. DOMAIN store' = Workers /\ \A v \in Workers : store'[v] = IF v = w THEN st ELSE store[v]
  BY DEF ChainInv
<1>3. ASSUME NEW v \in Workers
      PROVE  /\ store'[v].next >= store[v].next
             /\ \E b \in 0 .. Top(db, v) : Box(store'[v], v, b)
  <2>1. CASE v = w
    BY <1>2, <2>1
  <2>2. CASE v # w
    BY <1>1, <1>2, <2>2
  <2> QED BY <2>1, <2>2
<1> QED BY <1>2, <1>3 DEF StoresGo

LEMMA AgentsStay == ChainInv /\ UNCHANGED agent => AgentsGo
BY DEF AgentsGo, ChainInv, Heard

\* The row of one agent changes, its reply stays or is forgotten.
LEMMA AgentPut ==
    ASSUME ChainInv, NEW w \in Workers, NEW x, agent' = [agent EXCEPT ![w] = x],
           "inbox" \in DOMAIN x, x.inbox \in {agent[w].inbox, NoReply}
    PROVE  AgentsGo
<1>1. /\ DOMAIN agent' = Workers
      /\ \A v \in Workers : agent'[v] = IF v = w THEN x ELSE agent[v]
  BY DEF ChainInv
<1>2. \A v \in Workers : "inbox" \in DOMAIN agent[v]
  BY DEF ChainInv, Heard
<1> QED BY <1>1, <1>2 DEF AgentsGo

LEMMA AgentMoves ==
    ASSUME ChainInv, NEW w \in Workers
    PROVE  /\ \A phase : Goto(w, phase) => AgentsGo
           /\ \A phase : NextOf(w, phase) => AgentsGo
           /\ GotError(w) => AgentsGo
<1>1. DOMAIN agent = Workers /\ \A v \in Workers : "inbox" \in DOMAIN agent[v]
  BY DEF ChainInv, Heard
<1>2. ASSUME NEW phase, Goto(w, phase) PROVE AgentsGo
  BY <1>1, <1>2 DEF Goto, AgentsGo
<1>3. ASSUME NEW phase, NextOf(w, phase) PROVE AgentsGo
  BY <1>1, <1>3 DEF NextOf, AgentsGo
<1>4. ASSUME GotError(w) PROVE AgentsGo
  BY <1>1, <1>4 DEF GotError, AgentsGo
<1> QED BY <1>2, <1>3, <1>4

LEMMA PutStarted ==
    ASSUME ChainInv, NEW w \in Workers, NEW a, NEW pid,
           store' = [store EXCEPT ![w] = MarkStarted(@, w, a, pid)]
    PROVE  StoresGo
<1> DEFINE old == store[w]
           st == MarkStarted(old, w, a, pid)
<1>1. PICK b \in 0 .. Top(db, w) : Box(old, w, b)
  BY DEF ChainInv, Linked
<1>2. b \in Nat /\ old.next \in Nat
  BY <1>1 DEF Box
<1>3. store' = [store EXCEPT ![w] = st]
  OBVIOUS
<1> HIDE DEF old
<1>4. Box(st, w, b) /\ st.next \in {old.next, old.next + 1}
  BY <1>1, <1>2, BoxStarted
<1> HIDE DEF st
<1>5. st.next >= store[w].next
  BY <1>2, <1>4 DEF old
<1> QED BY <1>1, <1>3, <1>4, <1>5, StorePut

LEMMA PutFinished ==
    ASSUME ChainInv, NEW w \in Workers, NEW a, NEW ok, NEW tail, NEW outputs,
           store' = [store EXCEPT ![w] = MarkFinished(@, w, a, ok, tail, outputs)]
    PROVE  StoresGo
<1> DEFINE old == store[w]
           st == MarkFinished(old, w, a, ok, tail, outputs)
<1>1. PICK b \in 0 .. Top(db, w) : Box(old, w, b)
  BY DEF ChainInv, Linked
<1>2. b \in Nat /\ old.next \in Nat
  BY <1>1 DEF Box
<1>3. store' = [store EXCEPT ![w] = st]
  OBVIOUS
<1> HIDE DEF old
<1>4. Box(st, w, b) /\ st.next \in {old.next, old.next + 1}
  BY <1>1, <1>2, BoxFinished
<1> HIDE DEF st
<1>5. st.next >= store[w].next
  BY <1>2, <1>4 DEF old
<1> QED BY <1>1, <1>3, <1>4, <1>5, StorePut

LEMMA PutAnnounced ==
    ASSUME ChainInv, NEW w \in Workers, NEW a, NEW changed,
           store' = [store EXCEPT ![w] = AnnounceArtifacts(@, w, a, changed)]
    PROVE  StoresGo
<1> DEFINE old == store[w]
           st == AnnounceArtifacts(old, w, a, changed)
<1>1. PICK b \in 0 .. Top(db, w) : Box(old, w, b)
  BY DEF ChainInv, Linked
<1>2. b \in Nat /\ old.next \in Nat
  BY <1>1 DEF Box
<1>3. store' = [store EXCEPT ![w] = st]
  OBVIOUS
<1> HIDE DEF old
<1>4. Box(st, w, b) /\ st.next \in {old.next, old.next + 1}
  BY <1>1, <1>2, BoxAnnounced
<1> HIDE DEF st
<1>5. st.next >= store[w].next
  BY <1>2, <1>4 DEF old
<1> QED BY <1>1, <1>3, <1>4, <1>5, StorePut

LEMMA PutLine ==
    ASSUME ChainInv, NEW w \in Workers, NEW a, NEW line,
           store' = [store EXCEPT ![w] = TakeLine(@, w, a, line)]
    PROVE  StoresGo
<1> DEFINE old == store[w]
           st == TakeLine(old, w, a, line)
<1>1. PICK b \in 0 .. Top(db, w) : Box(old, w, b)
  BY DEF ChainInv, Linked
<1>2. b \in Nat /\ old.next \in Nat
  BY <1>1 DEF Box
<1>3. store' = [store EXCEPT ![w] = st]
  OBVIOUS
<1> HIDE DEF old
<1>4. Box(st, w, b) /\ st.next \in {old.next, old.next + 1}
  BY <1>1, <1>2, BoxLine
<1> HIDE DEF st
<1>5. st.next >= store[w].next
  BY <1>2, <1>4 DEF old
<1> QED BY <1>1, <1>3, <1>4, <1>5, StorePut

\* The agent's own steps.
LEMMA AgentStepGoes ==
    ASSUME ChainInv, NEW w \in Workers, AgentStep(w)
    PROVE  StoresGo /\ AgentsGo
<1>1. PICK b \in 0 .. Top(db, w) : Box(store[w], w, b)
  BY DEF ChainInv, Linked
<1>2. /\ b \in Nat /\ store[w].next \in Nat /\ Top(db, w) \in Nat
      /\ Top(db, w) < store[w].next
  BY <1>1 DEF Box, ChainInv, Linked, Gapless
<1>3. DOMAIN agent = Workers /\ \A v \in Workers : "inbox" \in DOMAIN agent[v]
  BY DEF ChainInv, Heard
<1>4. CASE ReapWithdrawn(w)
  <2> DEFINE ok == FALSE
             tail == TRUE
             none == {}
  <2>1. PICK a \in Withdrawn(store[w]) :
             store' = [store EXCEPT ![w] = MarkFinished(@, w, a, ok, tail, none)]
    BY <1>4 DEF ReapWithdrawn
  <2>2. UNCHANGED agent
    BY <1>4 DEF ReapWithdrawn
  <2> HIDE DEF ok, tail, none
  <2> QED BY <2>1, <2>2, PutFinished, AgentsStay
<1>5. CASE ListRunning(w)
  <2>1. AgentsGo
    BY <1>3, <1>5 DEF ListRunning, AgentsGo
  <2> QED BY <1>5, <2>1, StoresStay DEF ListRunning
<1>6. CASE Ingest(w)
  <2>1. CASE UNCHANGED store
    BY <1>6, <2>1, StoresStay, AgentMoves, AgentsStay DEF Ingest
  <2>2. CASE ~UNCHANGED store
    <3> DEFINE a == Now(w)
               line == files[w][a].lines[store[w].cmds[a].offset + 1]
    <3>1. store' = [store EXCEPT ![w] = TakeLine(@, w, a, line)] /\ UNCHANGED agent
      BY <1>6, <2>2 DEF Ingest
    <3> HIDE DEF a, line
    <3> QED BY <3>1, PutLine, AgentsStay
  <2> QED BY <2>1, <2>2
<1>7. CASE AllReconciled(w)
  BY <1>7, StoresStay, AgentMoves DEF AllReconciled
<1>8. CASE ReadRunStatus(w)
  <2>1. AgentsGo
    BY <1>3, <1>8 DEF ReadRunStatus, AgentsGo
  <2> QED BY <1>8, <2>1, StoresStay DEF ReadRunStatus
<1>9. CASE CheckAlive(w)
  <2>1. CASE WatchProgress(w)
    <3> DEFINE a == Now(w)
               found == Listed(w, a)
               changed == IF found # << >> /\ Head(found) = agent[w].seen[a]
                          THEN Tail(found) ELSE found
               new == ToSet(changed)
    <3>1. \/ UNCHANGED store
          \/ store' = [store EXCEPT ![w] = AnnounceArtifacts(@, w, a, new)]
      BY <2>1 DEF WatchProgress
    <3>2. AgentsGo
      <4> DEFINE next == [agent[w] EXCEPT !.pc = "ingest", !.todo = Tail(@),
                                          !.sampling = @ \cup {a}]
                 swept == [next EXCEPT !.swept[a] = @ + 1,
                                       !.seen[a] = IF found = << >> THEN @ ELSE Last(found)]
      <4>1. agent' = [agent EXCEPT ![w] = next] \/ agent' = [agent EXCEPT ![w] = swept]
        BY <2>1 DEF WatchProgress
      <4>2. "inbox" \in DOMAIN next /\ next.inbox = agent[w].inbox
        BY <1>3
      <4>3. "inbox" \in DOMAIN swept /\ swept.inbox = next.inbox
        <5> HIDE DEF next, found
        <5> QED BY <4>2
      <4> HIDE DEF next, swept
      <4> QED BY <4>1, <4>2, <4>3, AgentPut
    <3> HIDE DEF a, new
    <3> QED BY <3>1, <3>2, PutAnnounced, StoresStay
  <2>2. CASE ~WatchProgress(w)
    <3>1. UNCHANGED store /\ ((\E phase : Goto(w, phase)) \/ (\E phase : NextOf(w, phase)))
      BY <1>9, <2>2 DEF CheckAlive, SignalCancel
    <3> QED BY <3>1, StoresStay, AgentMoves
  <2> QED BY <2>1, <2>2
<1>10. CASE Finish(w)
  <2>1. AgentsGo
    BY <1>3, <1>10 DEF Finish, AgentsGo
  <2>2. PICK tail, collected, sent :
           store' = [store EXCEPT ![w] =
                       MarkFinished(@, w, Now(w), ExitedZero(w, collected), tail, sent)]
    BY <1>10 DEF Finish
  <2> DEFINE ok == ExitedZero(w, collected)
             a == Now(w)
  <2>3. store' = [store EXCEPT ![w] = MarkFinished(@, w, a, ok, tail, sent)]
    BY <2>2
  <2> HIDE DEF ok, a
  <2> QED BY <2>1, <2>3, PutFinished
<1>11. CASE AcceptCommands(w)
  <2> DEFINE reply == agent[w].inbox
             st == WithCommands(store[w], w, reply.run, reply.cancel)
  <2>1. CASE CommandsChanged(store[w], reply.run)
    BY <1>11, <2>1, StoresStay, AgentMoves DEF AcceptCommands
  <2>2. CASE ~CommandsChanged(store[w], reply.run)
    <3>1. store' = [store EXCEPT ![w] = st] /\ Goto(w, "ack")
      BY <1>11, <2>2 DEF AcceptCommands
    <3>2. IsFiniteSet(reply.run)
      BY DEF ChainInv, Heard
    <3>3. Box(st, w, b) /\ st.next \in Nat /\ st.next >= store[w].next
      <4> HIDE DEF reply
      <4> QED BY <1>1, <1>2, <3>2, BoxAccepts
    <3> HIDE DEF st, reply
    <3> QED BY <1>1, <3>1, <3>3, StorePut, AgentMoves
  <2> QED BY <2>1, <2>2
<1>12. CASE Acknowledge(w)
  <2> DEFINE through == agent[w].inbox.through
             es == store[w].outbox
             st == [store[w] EXCEPT !.outbox = After(es, through)]
  <2>1. AgentsGo
    BY <1>3, <1>12 DEF Acknowledge, ListPending, AgentsGo
  <2>2. store' = [store EXCEPT ![w] = st]
    BY <1>12 DEF Acknowledge
  <2>3. /\ through \in Nat /\ through <= Top(db, w)
        /\ Consecutive(es, w, b) /\ b + Len(es) + 1 = store[w].next /\ Len(es) \in Nat
    BY <1>1, SequencedFacts DEF ChainInv, Heard, Box, Consecutive
  <2>4. through <= b + Len(es)
    <3> HIDE DEF through, es
    <3> QED BY <1>2, <2>3
  <2>5. PICK c \in Nat :
              /\ c = IF through <= b THEN b ELSE through
              /\ Consecutive(After(es, through), w, c)
              /\ c + Len(After(es, through)) = b + Len(es)
    <3> HIDE DEF through, es
    <3> QED BY <1>2, <2>3, <2>4, ConsecutiveAfter
  <2>6. c \in 0 .. Top(db, w)
    <3> HIDE DEF through, es
    <3> QED BY <1>1, <1>2, <2>3, <2>5
  <2>7. st \in [cmds : {st.cmds}, outbox : {After(es, through)}, next : {store[w].next}]
    BY <1>1 DEF Box
  <2> HIDE DEF st, es, through
  <2>8. Box(st, w, c) /\ st.next >= store[w].next
    <3>1. c + Len(st.outbox) + 1 = st.next
      BY <2>3, <2>5, <2>7
    <3> QED BY <1>2, <2>5, <2>7, <3>1 DEF Box
  <2> QED BY <2>1, <2>2, <2>6, <2>8, StorePut
<1>13. CASE Launched(w)
  BY <1>13, StoresStay, AgentMoves DEF Launched
<1>14. CASE StartProcess(w)
  BY <1>14, StoresStay, AgentMoves DEF StartProcess
<1>15. CASE RecordStarted(w)
  <2> DEFINE a == Now(w)
             pid == Len(procs[w])
  <2>1. store' = [store EXCEPT ![w] = MarkStarted(@, w, a, pid)] /\ NextOf(w, "launch")
    BY <1>15 DEF RecordStarted
  <2> HIDE DEF a, pid
  <2> QED BY <2>1, PutStarted, AgentMoves
<1>16. CASE FailBeforeLaunch(w)
  <2> DEFINE a == Now(w)
             pid == 0
  <2>1. store' = [store EXCEPT ![w] = MarkStarted(@, w, a, pid)] /\ Goto(w, "unstarted")
    BY <1>16 DEF FailBeforeLaunch
  <2> HIDE DEF a, pid
  <2> QED BY <2>1, PutStarted, AgentMoves
<1>17. CASE FinishUnstarted(w)
  <2> DEFINE a == Now(w)
             ok == FALSE
             tail == TRUE
             none == {}
  <2>1. /\ store' = [store EXCEPT ![w] = MarkFinished(@, w, a, ok, tail, none)]
        /\ NextOf(w, "launch")
    BY <1>17 DEF FinishUnstarted
  <2> HIDE DEF a, ok, tail, none
  <2> QED BY <2>1, PutFinished, AgentMoves
<1> QED BY <1>4, <1>5, <1>6, <1>7, <1>8, <1>9, <1>10, <1>11, <1>12, <1>13, <1>14,
           <1>15, <1>16, <1>17 DEF AgentStep

\* Jobs, supervisors, the sampler and the passing of time.
LEMMA JobStepGoes ==
    ASSUME ChainInv, NEW w \in Workers, JobStep(w)
    PROVE  StoresGo /\ AgentsGo
<1>1. CASE UNCHANGED <<store, agent>>
  BY <1>1, StoresStay, AgentsStay
<1>2. CASE \E a \in DOMAIN store[w].cmds : GracePasses(w, a)
  <2>1. PICK a \in DOMAIN store[w].cmds : GracePasses(w, a)
    BY <1>2
  <2>2. PICK b \in 0 .. Top(db, w) : Box(store[w], w, b)
    BY DEF ChainInv, Linked
  <2> DEFINE st == [store[w] EXCEPT !.cmds[a].cancel = "overdue"]
  <2>3. store' = [store EXCEPT ![w] = st] /\ UNCHANGED agent
    BY <2>1 DEF GracePasses
  <2>4. Box(st, w, b) /\ st.next = store[w].next /\ st.next \in Nat
    BY <2>2 DEF Box
  <2> HIDE DEF st
  <2>5. st.next >= store[w].next
    BY <2>4
  <2> QED BY <2>2, <2>3, <2>4, <2>5, StorePut, AgentsStay
<1>3. UNCHANGED <<store, agent>> \/ \E a \in DOMAIN store[w].cmds : GracePasses(w, a)
  BY DEF JobStep, JobWrites, JobBeginsLine, JobSaves, ReportStatus, SupervisorExits,
         Sample, AppendLine
<1> QED BY <1>1, <1>2, <1>3

---------------------------------------------------------------------------
(* The event table *)

\* A statement that does not write the event table.
LEMMA SameEvents ==
    ASSUME NEW d, Gapless(d), NEW new,
           new \in [job : {new.job}, worker : {new.worker}, keys : {new.keys},
                    targets : {new.targets}, events : {d.events}]
    PROVE  Gapless(new) /\ \A w \in Workers : Top(new, w) = Top(d, w)
<1>1. new.events = d.events
  OBVIOUS
<1>2. \A w : Seen(new, w) = Seen(d, w) /\ Top(new, w) = Top(d, w)
  BY <1>1 DEF Seen, Top
<1> QED BY <1>1, <1>2 DEF Gapless

\* recordWorkerEvent inserts the event that is next, or one that is there already.
LEMMA RecordedGapless ==
    ASSUME NEW d, Gapless(d), NEW w \in Workers, NEW s, NEW e,
           NEW b \in 0 .. Top(d, w), e.seq = b + 1, e.id = <<w, b + 1>>
    PROVE  LET new == Recorded(d, w, s, e)
           IN  /\ Gapless(new)
               /\ \A v \in Workers : Top(new, v) >= Top(d, v)
               /\ \A v \in Workers \ {w} : Top(new, v) = Top(d, v)
               /\ Top(new, w) >= b + 1
               /\ Top(new, w) = Top(d, w) \/ Top(new, w) = b + 1
<1> DEFINE new == Recorded(d, w, s, e)
           m == Top(d, w)
<1>1. /\ \A v \in Workers : Top(d, v) \in Nat /\ Seen(d, v) = 1 .. Top(d, v)
      /\ \A r \in d.events : r.worker \in Workers /\ r.id = <<r.worker, r.seq>>
  BY DEF Gapless
<1>2. m \in Nat /\ b \in Nat /\ b <= m
  BY <1>1
<1>3. CASE ~Fresh(d, w, s, e)
  <2>1. PICK r \in d.events : SameKey(r, w, s, e) \/ r.id = e.id
    BY <1>3 DEF Fresh
  <2>2. r.worker = w /\ r.seq = b + 1
    BY <1>1, <2>1 DEF SameKey
  <2>3. b + 1 \in Seen(d, w)
    BY <2>1, <2>2 DEF Seen
  <2>4. b + 1 <= m
    <3> HIDE DEF m
    <3> QED BY <1>1, <1>2, <2>3 DEF m
  <2>5. new = d
    BY <1>3 DEF Recorded
  <2> HIDE DEF new
  <2> QED BY <1>1, <1>2, <2>4, <2>5 DEF new
<1>4. CASE Fresh(d, w, s, e)
  <2> DEFINE row == EventRow(w, s, e)
  <2>1. /\ new \in [job : {new.job}, worker : {new.worker}, keys : {new.keys},
                    targets : {new.targets}, events : {new.events}]
        /\ new.events = d.events \cup {row}
    BY <1>4 DEF Recorded, Gapless
  <2>2. row.worker = w /\ row.seq = b + 1 /\ row.id = <<w, b + 1>>
    BY DEF EventRow
  <2> HIDE DEF row, new
  <2>3. /\ Seen(new, w) = Seen(d, w) \cup {b + 1}
        /\ \A v \in Workers \ {w} : Seen(new, v) = Seen(d, v)
    BY <2>1, <2>2 DEF Seen
  <2>4. b + 1 \notin Seen(d, w)
    <3> SUFFICES ASSUME b + 1 \in Seen(d, w) PROVE FALSE
      OBVIOUS
    <3>1. PICK r \in d.events : r.worker = w /\ r.seq = b + 1
      BY DEF Seen
    <3>2. r.id = e.id
      BY <1>1, <3>1
    <3> QED BY <1>4, <3>1, <3>2 DEF Fresh
  <2>5. b = m
    <3> HIDE DEF m
    <3> QED BY <1>1, <1>2, <2>4 DEF m
  <2>6. Seen(new, w) = 1 .. m + 1
    <3>1. Seen(d, w) = 1 .. m
      BY <1>1
    <3> HIDE DEF m
    <3> QED BY <1>2, <2>3, <2>5, <3>1
  <2>7. Top(new, w) = m + 1
    <3> DEFINE n == m + 1
    <3>1. n \in Int /\ n >= 1
      BY <1>2
    <3>2. Top(new, w) = Cardinality(1 .. n)
      BY <2>6 DEF Top
    <3> HIDE DEF n
    <3>3. Cardinality(1 .. n) = IF 1 > n THEN 0 ELSE n - 1 + 1
      BY <3>1, FS_Interval
    <3>4. Cardinality(1 .. n) = n
      BY <3>1, <3>3
    <3> QED BY <3>2, <3>4 DEF n
  <2>8. \A v \in Workers \ {w} : Top(new, v) = Top(d, v)
    BY <2>3 DEF Top
  <2>9. \A r \in new.events : r.worker \in Workers /\ r.id = <<r.worker, r.seq>>
    BY <1>1, <2>1, <2>2
  <2>10. \A v \in Workers : Top(new, v) \in Nat /\ Seen(new, v) = 1 .. Top(new, v)
    <3> TAKE v \in Workers
    <3>1. CASE v = w
      <4> HIDE DEF m
      <4> QED BY <1>2, <2>6, <2>7, <3>1
    <3>2. CASE v # w
      BY <1>1, <2>3, <2>8, <3>2
    <3> QED BY <3>1, <3>2
  <2>11. Gapless(new)
    BY <2>1, <2>9, <2>10 DEF Gapless
  <2>12. \A v \in Workers : Top(new, v) >= Top(d, v)
    <3> TAKE v \in Workers
    <3>1. CASE v = w
      BY <1>2, <2>7, <3>1
    <3>2. CASE v # w
      BY <1>1, <2>8, <3>2
    <3> QED BY <3>1, <3>2
  <2>13. Top(new, w) = b + 1 /\ Top(new, w) >= b + 1
    BY <1>2, <2>5, <2>7
  <2> QED BY <2>8, <2>11, <2>12, <2>13 DEF new
<1> QED BY <1>3, <1>4

---------------------------------------------------------------------------
(* The steps of the system *)

\* What has to be shown of a step.
LEMMA Assemble ==
    ASSUME ChainInv, StoresGo, DOMAIN agent' = Workers, \A v \in Workers : Heard(v)',
           Gapless(db)', Gapless(tx)',
           \A v \in Workers : /\ Top(db, v) <= Top(db', v)
                              /\ Top(db', v) <= Top(tx', v)
                              /\ Top(tx', v) < store'[v].next,
           \A r \in wire' : Carried(r), Serving'
    PROVE  ChainInv'
<1>1. \A v \in Workers : Top(db, v) \in Nat /\ Top(db', v) \in Nat
  BY DEF ChainInv, Gapless
<1>2. ASSUME NEW v \in Workers PROVE Linked(v)'
  <2>1. PICK b \in 0 .. Top(db, v) : Box(store'[v], v, b)
    BY DEF StoresGo
  <2>2. b \in 0 .. Top(db', v)
    BY <1>1
  <2> QED BY <2>1, <2>2 DEF Linked
<1>3. ASSUME NEW r \in wire' PROVE Carried(r)'
  <2>1. Carried(r)
    OBVIOUS
  <2>2. /\ r \in [worker : Workers, session : {r.session}, events : {r.events},
                  live : BOOLEAN]
        /\ r.worker \in Workers
    BY <2>1 DEF Carried
  <2>3. PICK b \in 0 .. Top(db, r.worker) :
            /\ Consecutive(r.events, r.worker, b)
            /\ b + Len(r.events) < store[r.worker].next
    BY <2>1 DEF Carried
  <2>4. b \in 0 .. Top(db', r.worker) /\ Len(r.events) \in Nat
    BY <1>1, <2>2, <2>3, SequencedFacts DEF Consecutive
  <2>5. /\ store[r.worker].next \in Nat /\ store'[r.worker].next \in Nat
        /\ store'[r.worker].next >= store[r.worker].next
    BY <2>2 DEF ChainInv, Linked, Box, StoresGo
  <2>6. b + Len(r.events) < store'[r.worker].next
    BY <2>3, <2>4, <2>5
  <2> QED BY <2>2, <2>3, <2>4, <2>6 DEF Carried
<1> QED BY <1>2, <1>3 DEF ChainInv, StoresGo

LEMMA HeardKept ==
    ASSUME ChainInv, AgentsGo, NEW v \in Workers, Top(db', v) \in Nat,
           Top(db, v) <= Top(db', v)
    PROVE  Heard(v)'
<1>1. /\ agent[v].inbox.through \in 0 .. Top(db, v) /\ Top(db, v) \in Nat
      /\ IsFiniteSet(agent[v].inbox.run)
  BY DEF ChainInv, Heard, Gapless
<1>2. /\ "inbox" \in DOMAIN agent'[v]
      /\ agent'[v].inbox = agent[v].inbox \/ agent'[v].inbox = NoReply
  BY DEF AgentsGo
<1>3. NoReply.through = 0 /\ NoReply.run = {} /\ IsFiniteSet({})
  BY FS_EmptySet DEF NoReply
<1>4. agent'[v].inbox.through \in 0 .. Top(db', v) /\ IsFiniteSet(agent'[v].inbox.run)
  <2>1. CASE agent'[v].inbox = agent[v].inbox
    BY <1>1, <2>1
  <2>2. CASE agent'[v].inbox = NoReply
    BY <1>3, <2>2
  <2> QED BY <1>2, <2>1, <2>2
<1> QED BY <1>2, <1>4 DEF Heard

\* A step on a machine or of the network.
LEMMA MachineKeeps ==
    ASSUME ChainInv, StoresGo, AgentsGo, UNCHANGED <<db, tx, req, call>>,
           \A r \in wire' : Carried(r)
    PROVE  ChainInv'
<1>1. \A v \in Workers : /\ Top(db', v) = Top(db, v) /\ Top(tx', v) = Top(tx, v)
                         /\ Top(db, v) \in Nat /\ Top(tx, v) \in Nat
                         /\ Top(db, v) <= Top(tx, v) /\ Top(tx, v) < store[v].next
                         /\ store[v].next \in Nat /\ store'[v].next \in Nat
                         /\ store'[v].next >= store[v].next
  BY DEF ChainInv, Linked, Gapless, Box, StoresGo
<1>2. \A v \in Workers : Heard(v)'
  BY <1>1, HeardKept
<1>3. Serving'
  <2>1. Serving
    BY DEF ChainInv
  <2>2. CASE req.phase # "events"
    BY <2>1, <2>2 DEF Serving
  <2>3. CASE req.phase = "events"
    <3>1. req.worker \in Workers
      BY <2>1, <2>3 DEF Serving, Idle
    <3>2. PICK b \in 0 .. Top(tx, req.worker) :
             /\ Consecutive(call.rest, req.worker, b)
             /\ b + Len(call.rest) < store[req.worker].next
      BY <2>1, <2>3 DEF Serving
    <3>3. b \in Nat /\ Len(call.rest) \in Nat
      BY <1>1, <3>1, <3>2, SequencedFacts DEF Consecutive
    <3>4. b + Len(call.rest) < store'[req.worker].next
      BY <1>1, <3>1, <3>2, <3>3
    <3> QED BY <2>1, <3>1, <3>2, <3>4 DEF Serving
  <2> QED BY <2>2, <2>3
<1>4. \A v \in Workers : /\ Top(db, v) <= Top(db', v)
                         /\ Top(db', v) <= Top(tx', v)
                         /\ Top(tx', v) < store'[v].next
  BY <1>1
<1>5. Gapless(db)' /\ Gapless(tx)'
  BY DEF ChainInv
<1> QED BY <1>2, <1>3, <1>4, <1>5, Assemble DEF AgentsGo

\* A step of the control plane that leaves the stores and the agents alone, or makes
\* an agent forget what it waited for; no sync has events to record after it.
LEMMA PlaneKeeps ==
    ASSUME ChainInv, UNCHANGED store, AgentsGo, wire' \subseteq wire,
           Gapless(db)', Gapless(tx)', Serving',
           \A v \in Workers : /\ Top(db, v) <= Top(db', v)
                              /\ Top(db', v) <= Top(tx', v)
                              /\ Top(tx', v) < store[v].next
    PROVE  ChainInv'
<1>1. \A v \in Workers : Heard(v)'
  BY HeardKept DEF Gapless
<1>2. \A r \in wire' : Carried(r)
  BY DEF ChainInv
<1>3. StoresGo
  BY StoresStay
<1> QED BY <1>1, <1>2, <1>3, Assemble DEF AgentsGo

LEMMA TopsType ==
    ASSUME ChainInv
    PROVE  \A v \in Workers : /\ Top(db, v) \in Nat /\ Top(tx, v) \in Nat
                              /\ Top(db, v) <= Top(tx, v) /\ Top(tx, v) < store[v].next
                              /\ store[v].next \in Nat
BY DEF ChainInv, Linked, Gapless, Box

LEMMA OperateKeeps == ChainInv /\ Operate => ChainInv'
<1> SUFFICES ASSUME ChainInv, Operate PROVE ChainInv'
  OBVIOUS
<1>1. /\ req = Idle /\ req' = Idle /\ tx' = db' /\ UNCHANGED <<store, agent, wire, call>>
      /\ db' \in [job : {db'.job}, worker : {db'.worker}, keys : {db'.keys},
                  targets : {db'.targets}, events : {db.events}]
  BY DEF Operate, CreateWorker, CreateWebhookTarget, CreateJob, CancelJob, Do, agentVars,
         netVars, ChainInv, Gapless
<1>2. Gapless(db') /\ \A w \in Workers : Top(db', w) = Top(db, w)
  <2>1. Gapless(db)
    BY DEF ChainInv
  <2> QED BY <1>1, <2>1, SameEvents
<1>3. Serving'
  BY <1>1 DEF ChainInv, Serving, Idle
<1>4. \A v \in Workers : /\ Top(db, v) <= Top(db', v)
                         /\ Top(db', v) <= Top(tx', v)
                         /\ Top(tx', v) < store[v].next
  BY <1>1, <1>2, TopsType
<1> QED BY <1>1, <1>2, <1>3, <1>4, AgentsStay, PlaneKeeps

\* A worker posts the first events of its outbox.
LEMMA PostKeeps ==
    ASSUME ChainInv, NEW w \in Workers, Post(w)
    PROVE  ChainInv'
<1> DEFINE r == [worker |-> w, session |-> agent[w].session, events |-> Batch(w),
                 live |-> TRUE]
<1>1. /\ UNCHANGED <<db, tx, req, call, store>> /\ wire' = wire \cup {r}
      /\ Goto(w, "wait")
  BY DEF Post, Aside, PostSync
<1>2. PICK b \in 0 .. Top(db, w) : Box(store[w], w, b)
  BY DEF ChainInv, Linked
<1> DEFINE es == store[w].outbox
           l == IF Len(es) < MaxBatch THEN Len(es) ELSE MaxBatch
<1>3. /\ Consecutive(es, w, b) /\ Len(es) \in Nat /\ b \in Nat
      /\ b + Len(es) < store[w].next
  <2>1. Consecutive(es, w, b) /\ b + Len(es) + 1 = store[w].next /\ b \in Nat
    BY <1>2 DEF Box
  <2>2. Len(es) \in Nat
    BY <2>1, SequencedFacts DEF Consecutive
  <2> HIDE DEF es
  <2> QED BY <2>1, <2>2
<1>4. l \in Nat /\ l <= Len(es)
  BY <1>3, AgentAssumption
<1>5. Batch(w) = SubSeq(es, 0 + 1, l)
  BY DEF Batch
<1>6. Consecutive(Batch(w), w, b) /\ b + Len(Batch(w)) < store[w].next
  <2> DEFINE k == 0
  <2>1. k \in Nat /\ k <= l
    BY <1>4
  <2> HIDE DEF k, l, es
  <2>2. Consecutive(SubSeq(es, k + 1, l), w, b + k) /\ Len(SubSeq(es, k + 1, l)) = l - k
    BY <1>3, <1>4, <2>1, ConsecutivePart
  <2>3. Batch(w) = SubSeq(es, k + 1, l) /\ b + k = b /\ l - k = l
    BY <1>3, <1>4, <1>5 DEF k
  <2>4. Consecutive(Batch(w), w, b) /\ Len(Batch(w)) = l
    BY <2>2, <2>3
  <2>5. store[w].next \in Nat
    BY TopsType
  <2> QED BY <1>3, <1>4, <2>4, <2>5
<1>7. Carried(r)
  <2>1. /\ r \in [worker : Workers, session : {r.session}, events : {r.events},
                  live : BOOLEAN]
        /\ r.worker = w /\ r.events = Batch(w)
    OBVIOUS
  <2> HIDE DEF r
  <2> QED BY <1>2, <1>6, <2>1 DEF Carried
<1>8. \A q \in wire' : Carried(q)
  <2> HIDE DEF r
  <2> QED BY <1>1, <1>7 DEF ChainInv
<1> QED BY <1>1, <1>8, StoresStay, AgentMoves, MachineKeeps

\* Requests that are given up still carry what they carried.
LEMMA AbandonCarries ==
    ASSUME ChainInv, NEW w \in Workers, Abandon(w)
    PROVE  \A r \in wire' : Carried(r)
<1>1. ASSUME NEW r \in wire PROVE Carried(r) /\ Carried([r EXCEPT !.live = FALSE])
  <2> DEFINE q == [r EXCEPT !.live = FALSE]
  <2>1. Carried(r)
    BY DEF ChainInv
  <2>2. /\ q \in [worker : Workers, session : {q.session}, events : {q.events},
                  live : BOOLEAN]
        /\ q.worker = r.worker /\ q.events = r.events
    BY <2>1 DEF Carried
  <2> HIDE DEF q
  <2>3. Carried(q)
    BY <2>1, <2>2 DEF Carried
  <2> QED BY <2>1, <2>3 DEF q
<1>2. ASSUME NEW r \in wire'
      PROVE  r \in wire \/ \E q \in wire : r = [q EXCEPT !.live = FALSE]
  BY DEF Abandon
<1> QED BY <1>1, <1>2

LEMMA FaultsKeep ==
    ASSUME ChainInv, NEW w \in Workers, Faults(w)
    PROVE  ChainInv'
<1>1. /\ UNCHANGED <<db, tx, req, call, store>> /\ Abandon(w)
      /\ \/ GotError(w)
         \/ agent' = [agent EXCEPT ![w] = Stopped(@.session)]
  BY DEF Faults, Aside, TimeOut, Crash, Reboot
<1>2. AgentsGo
  <2>1. CASE GotError(w)
    BY <2>1, AgentMoves
  <2>2. CASE agent' = [agent EXCEPT ![w] = Stopped(@.session)]
    <3> DEFINE x == Stopped(agent[w].session)
    <3>1. "inbox" \in DOMAIN x /\ x.inbox = NoReply
      BY DEF Stopped
    <3>2. agent' = [agent EXCEPT ![w] = x]
      BY <2>2
    <3> HIDE DEF x
    <3> QED BY <3>1, <3>2, AgentPut
  <2> QED BY <1>1, <2>1, <2>2
<1> QED BY <1>1, <1>2, AbandonCarries, StoresStay, MachineKeeps

LEMMA StartKeeps ==
    ASSUME ChainInv, NEW w \in Workers, Start(w)
    PROVE  ChainInv'
<1> DEFINE x == [Stopped(agent[w].session + 1) EXCEPT !.up = TRUE]
<1>1. UNCHANGED <<db, tx, req, call, store, wire>> /\ agent' = [agent EXCEPT ![w] = x]
  BY DEF Start, Aside, StartAgent, netVars
<1>2. "inbox" \in DOMAIN x /\ x.inbox = NoReply
  BY DEF Stopped
<1> HIDE DEF x
<1>3. AgentsGo
  BY <1>1, <1>2, AgentPut
<1>4. \A r \in wire' : Carried(r)
  BY <1>1 DEF ChainInv
<1> QED BY <1>1, <1>3, <1>4, StoresStay, MachineKeeps

\* The server takes up a request, be anyone waiting for it or not.
LEMMA ServeKeeps ==
    ASSUME ChainInv, NEW r \in wire, Serve(r)
    PROVE  ChainInv'
<1>1. /\ Carried(r) /\ r.worker \in Workers /\ r.live \in BOOLEAN
  BY DEF ChainInv, Carried
<1>2. /\ UNCHANGED <<db, store, agent>> /\ wire' \subseteq wire
      /\ req' = [phase |-> "events", worker |-> r.worker, session |-> r.session,
                 scan |-> {}]
      /\ call' = [live |-> r.live, rest |-> r.events]
      /\ tx' = [db EXCEPT !.worker[r.worker] = "online"]
  BY DEF Serve, BeginSync, agentVars
<1>3. Gapless(db) /\ Gapless(db)'
  BY <1>2 DEF ChainInv
<1>4. /\ tx' \in [job : {tx'.job}, worker : {tx'.worker}, keys : {tx'.keys},
                  targets : {tx'.targets}, events : {db.events}]
  BY <1>2, <1>3 DEF Gapless
<1>5. Gapless(tx') /\ \A v \in Workers : Top(tx', v) = Top(db, v)
  BY <1>3, <1>4, SameEvents
<1>6. /\ req'.phase = "events" /\ req'.worker = r.worker
      /\ req' \in [phase : {"events", "offers"}, worker : Workers,
                   session : {req'.session}, scan : {req'.scan}]
      /\ call' \in [live : BOOLEAN, rest : {call'.rest}] /\ call'.rest = r.events
  BY <1>1, <1>2
<1>7. \E b \in 0 .. Top(tx', r.worker) :
         Consecutive(r.events, r.worker, b) /\ b + Len(r.events) < store[r.worker].next
  BY <1>1, <1>5 DEF Carried
<1>8. Serving'
  BY <1>2, <1>6, <1>7 DEF Serving
<1>9. \A v \in Workers : /\ Top(db, v) <= Top(db', v)
                         /\ Top(db', v) <= Top(tx', v)
                         /\ Top(tx', v) < store[v].next
  BY <1>2, <1>5, TopsType
<1> QED BY <1>2, <1>3, <1>5, <1>8, <1>9, AgentsStay, PlaneKeeps

\* One event of the request is recorded.
LEMMA RecordKeeps == ChainInv /\ RecordNext => ChainInv'
<1> SUFFICES ASSUME ChainInv, RecordNext PROVE ChainInv'
  OBVIOUS
<1>1. Serving /\ Gapless(tx) /\ Gapless(db)
  BY DEF ChainInv
<1>2. /\ UNCHANGED <<db, req, store, agent, wire>> /\ call.rest # << >>
      /\ req.phase = "events"
      /\ tx' = Recorded(tx, req.worker, req.session, Head(call.rest))
      /\ call' = [call EXCEPT !.rest = Tail(@)]
  BY DEF RecordNext, RecordEvent, agentVars
<1>3. /\ req \in [phase : {"events", "offers"}, worker : Workers,
                  session : {req.session}, scan : {req.scan}]
      /\ call' \in [live : BOOLEAN, rest : {call'.rest}]
      /\ call'.rest = Tail(call.rest)
  BY <1>1, <1>2 DEF Serving, Idle
<1>w. PICK w \in Workers : w = req.worker
  BY <1>3
<1>4. PICK s, es : w = req.worker /\ s = req.session /\ es = call.rest
  BY <1>w
<1>5. PICK b \in 0 .. Top(tx, w) : Consecutive(es, w, b) /\ b + Len(es) < store[w].next
  BY <1>1, <1>2, <1>4 DEF Serving
<1>6. PICK e, new : e = Head(es) /\ new = Recorded(tx, w, s, e)
  OBVIOUS
<1>7. /\ b \in Nat /\ Top(tx, w) \in Nat /\ Top(tx, w) < store[w].next
      /\ store[w].next \in Nat
  BY <1>5, TopsType
<1>8. /\ Head(es).seq = b + 1 /\ Head(es).id = <<w, b + 1>>
      /\ Consecutive(Tail(es), w, b + 1)
      /\ Len(es) \in Nat \ {0} /\ Len(Tail(es)) = Len(es) - 1
  <2>1. es # << >> /\ Consecutive(es, w, b)
    BY <1>2, <1>4, <1>5
  <2>2. Popped(es, w, b)
    BY <1>7, <2>1, ConsecutiveTail
  <2> QED BY <2>2 DEF Popped
<1>9. /\ Gapless(new)
      /\ \A v \in Workers : Top(new, v) >= Top(tx, v)
      /\ \A v \in Workers \ {w} : Top(new, v) = Top(tx, v)
      /\ Top(new, w) >= b + 1
      /\ Top(new, w) = Top(tx, w) \/ Top(new, w) = b + 1
  <2>1. e.seq = b + 1 /\ e.id = <<w, b + 1>>
    BY <1>6, <1>8
  <2> QED BY <1>1, <1>5, <1>6, <2>1, RecordedGapless
<1>10. b + 1 + Len(Tail(es)) < store[w].next /\ b + 1 < store[w].next
  BY <1>5, <1>7, <1>8
<1>11. b + 1 \in 0 .. Top(new, w)
  BY <1>7, <1>9 DEF Gapless
<1>12. tx' = new
  BY <1>2, <1>4, <1>6
<1>13. Serving'
  <2>1. \E c \in 0 .. Top(tx', w) :
           Consecutive(call'.rest, w, c) /\ c + Len(call'.rest) < store'[w].next
    BY <1>2, <1>3, <1>4, <1>8, <1>10, <1>11, <1>12
  <2> QED BY <1>2, <1>3, <1>4, <2>1 DEF Serving
<1>14. \A v \in Workers : /\ Top(db, v) <= Top(db', v)
                          /\ Top(db', v) <= Top(tx', v)
                          /\ Top(tx', v) < store[v].next
  <2> TAKE v \in Workers
  <2>1. /\ Top(db, v) \in Nat /\ Top(tx, v) \in Nat /\ Top(new, v) \in Nat
        /\ Top(db, v) <= Top(tx, v) /\ Top(tx, v) < store[v].next
        /\ store[v].next \in Nat /\ Top(new, v) >= Top(tx, v)
    BY <1>9, TopsType DEF Gapless
  <2>2. Top(new, v) < store[v].next
    <3>1. CASE v = w
      BY <1>7, <1>9, <1>10, <3>1
    <3>2. CASE v # w
      BY <1>9, <2>1, <3>2
    <3> QED BY <3>1, <3>2
  <2> QED BY <1>2, <1>12, <2>1, <2>2
<1>15. Gapless(db)' /\ Gapless(tx)'
  BY <1>1, <1>2, <1>9, <1>12
<1> QED BY <1>2, <1>13, <1>14, <1>15, AgentsStay, PlaneKeeps

\* The transaction is dropped.
LEMMA FailKeeps == ChainInv /\ Fail => ChainInv'
<1> SUFFICES ASSUME ChainInv, Fail PROVE ChainInv'
  OBVIOUS
<1>1. /\ UNCHANGED <<db, store, wire>> /\ tx' = db /\ req' = Idle /\ call' = NoCall
      /\ req # Idle /\ (UNCHANGED agent \/ GotError(req.worker))
  BY DEF Fail, Rollback
<1>2. req.worker \in Workers
  BY <1>1 DEF ChainInv, Serving
<1>3. AgentsGo
  BY <1>1, <1>2, AgentsStay, AgentMoves
<1>4. Serving'
  BY <1>1 DEF Serving, Idle, NoCall
<1>5. Gapless(db)' /\ Gapless(tx)'
  BY <1>1 DEF ChainInv
<1>6. \A v \in Workers : /\ Top(db, v) <= Top(db', v)
                         /\ Top(db', v) <= Top(tx', v)
                         /\ Top(tx', v) < store[v].next
  BY <1>1, TopsType
<1> QED BY <1>1, <1>3, <1>4, <1>5, <1>6, PlaneKeeps

\* The offers of a sync.
LEMMA OffersKeep == ChainInv /\ (StartOffers \/ \E j \in Jobs : Offer(j)) => ChainInv'
<1> SUFFICES ASSUME ChainInv, StartOffers \/ \E j \in Jobs : Offer(j) PROVE ChainInv'
  OBVIOUS
<1>1. /\ UNCHANGED <<db, store, agent, wire, call>>
      /\ req.phase \in {"events", "offers"}
      /\ DOMAIN req' = DOMAIN req /\ req'.phase = "offers" /\ req'.worker = req.worker
      /\ req' \in [phase : {"events", "offers"}, worker : Workers,
                   session : {req'.session}, scan : {req'.scan}]
  <2>1. /\ req.phase \in {"events", "offers"}
        /\ req \in [phase : {"events", "offers"}, worker : Workers,
                    session : {req.session}, scan : {req.scan}]
    BY DEF ChainInv, Serving, Idle, StartOffers, Offer, BeginOffers, OfferNext
  <2>2. CASE StartOffers
    BY <2>1, <2>2 DEF StartOffers, BeginOffers, agentVars, netVars
  <2>3. CASE \E j \in Jobs : Offer(j)
    BY <2>1, <2>3 DEF Offer, OfferNext, agentVars, netVars
  <2> QED BY <2>2, <2>3
<1>2. tx' \in [job : {tx'.job}, worker : {tx'.worker}, keys : {tx'.keys},
               targets : {tx'.targets}, events : {tx.events}]
  BY DEF StartOffers, BeginOffers, Offer, OfferNext, ChainInv, Gapless
<1>3. Gapless(tx') /\ \A v \in Workers : Top(tx', v) = Top(tx, v)
  <2>1. Gapless(tx)
    BY DEF ChainInv
  <2> QED BY <1>2, <2>1, SameEvents
<1>4. Serving'
  <2>1. call \in [live : BOOLEAN, rest : {call.rest}]
    BY DEF ChainInv, Serving
  <2> QED BY <1>1, <2>1 DEF Serving
<1>5. Gapless(db)'
  BY <1>1 DEF ChainInv
<1>6. \A v \in Workers : /\ Top(db, v) <= Top(db', v)
                         /\ Top(db', v) <= Top(tx', v)
                         /\ Top(tx', v) < store[v].next
  BY <1>1, <1>3, TopsType
<1> QED BY <1>1, <1>3, <1>4, <1>5, <1>6, AgentsStay, PlaneKeeps

\* The transaction is committed and answered.
LEMMA ReplyKeeps == ChainInv /\ Reply => ChainInv'
<1> SUFFICES ASSUME ChainInv, Reply PROVE ChainInv'
  OBVIOUS
<1>1. /\ UNCHANGED <<tx, store, wire>> /\ db' = tx /\ req' = Idle /\ call' = NoCall
      /\ req.phase = "offers"
      /\ \/ UNCHANGED agent
         \/ GotReply(req.worker, Answer(tx, req.worker, req.session))
  BY DEF Reply, Commit, OffersDone
<1>w. PICK w \in Workers : w = req.worker
  BY <1>1 DEF ChainInv, Serving, Idle
<1>2. PICK s, reply :
         w = req.worker /\ s = req.session /\ reply = Answer(tx, w, s)
  BY <1>w
<1>3. Gapless(tx) /\ Gapless(db)' /\ Gapless(tx)'
  BY <1>1 DEF ChainInv
<1>4. reply.through \in 0 .. Top(tx, w) /\ IsFiniteSet(reply.run)
  BY <1>2, <1>3, AnswerFits
<1>5. \A v \in Workers : /\ Top(db, v) <= Top(db', v)
                         /\ Top(db', v) <= Top(tx', v)
                         /\ Top(tx', v) < store[v].next
                         /\ Top(db', v) \in Nat
  BY <1>1, TopsType
<1>6. DOMAIN agent' = Workers /\ \A v \in Workers : Heard(v)'
  <2>1. CASE UNCHANGED agent
    BY <1>5, <2>1, AgentsStay, HeardKept DEF ChainInv
  <2>2. CASE GotReply(w, reply)
    <3>1. \A v \in Workers : "inbox" \in DOMAIN agent[v]
      BY DEF ChainInv, Heard
    <3>2. /\ DOMAIN agent' = Workers /\ "inbox" \in DOMAIN agent'[w]
          /\ agent'[w].inbox = reply
          /\ \A v \in Workers \ {w} : agent'[v] = agent[v]
      BY <1>2, <2>2, <3>1 DEF GotReply, ChainInv
    <3>3. Heard(w)'
      <4>1. agent'[w].inbox.through \in 0 .. Top(db', w)
        BY <1>1, <1>4, <3>2
      <4>2. IsFiniteSet(agent'[w].inbox.run)
        BY <1>4, <3>2
      <4> QED BY <3>2, <4>1, <4>2 DEF Heard
    <3>4. ASSUME NEW v \in Workers \ {w} PROVE Heard(v)'
      <4>1. /\ agent[v].inbox.through \in 0 .. Top(db, v) /\ Top(db, v) \in Nat
            /\ IsFiniteSet(agent[v].inbox.run)
        BY TopsType DEF ChainInv, Heard
      <4>2. agent[v].inbox.through \in 0 .. Top(db', v)
        BY <1>5, <4>1
      <4>3. agent'[v].inbox = agent[v].inbox /\ "inbox" \in DOMAIN agent'[v]
        BY <3>1, <3>2
      <4>4. IsFiniteSet(agent'[v].inbox.run)
        BY <4>1, <4>3
      <4> QED BY <4>2, <4>3, <4>4 DEF Heard
    <3> QED BY <3>2, <3>3, <3>4
  <2> QED BY <1>1, <1>2, <2>1, <2>2
<1>7. Serving'
  BY <1>1 DEF Serving, Idle, NoCall
<1>8. StoresGo
  BY <1>1, StoresStay
<1>9. \A r \in wire' : Carried(r)
  BY <1>1 DEF ChainInv
<1>10. \A v \in Workers : Top(tx', v) < store'[v].next
  BY <1>1, <1>5
<1> QED BY <1>3, <1>5, <1>6, <1>7, <1>8, <1>9, <1>10, Assemble

---------------------------------------------------------------------------
(* The theorems *)

LEMMA ChainInit == SyncInit => ChainInv
<1> SUFFICES ASSUME SyncInit PROVE ChainInv
  OBVIOUS
<1> USE DEF SyncInit, Init, AgentInit
<1>1. db.events = {} /\ tx.events = {}
  BY DEF EmptyDatabase
<1>2. \A w : /\ Seen(db, w) = {} /\ Seen(tx, w) = {} /\ Top(db, w) = 0 /\ Top(tx, w) = 0
  BY <1>1, FS_EmptySet DEF Seen, Top
<1>3. Gapless(db) /\ Gapless(tx)
  <2>1. {} = 1 .. 0 /\ 0 \in Nat
    OBVIOUS
  <2>2. /\ db \in [job : {db.job}, worker : {db.worker}, keys : {db.keys},
                   targets : {db.targets}, events : {db.events}]
        /\ tx \in [job : {tx.job}, worker : {tx.worker}, keys : {tx.keys},
                   targets : {tx.targets}, events : {tx.events}]
    BY DEF EmptyDatabase
  <2> QED BY <1>1, <1>2, <2>1, <2>2 DEF Gapless
<1>4. ASSUME NEW w \in Workers PROVE Linked(w)
  <2> DEFINE b == 0
             none == << >>
  <2>1. /\ store[w].outbox = none /\ store[w].next = 1
        /\ store[w] \in [cmds : {store[w].cmds}, outbox : {store[w].outbox}, next : Nat]
    OBVIOUS
  <2>2. Consecutive(none, w, b) /\ Len(none) = 0
    BY ConsecutiveEmpty
  <2>3. b + 0 + 1 = 1 /\ b \in 0 .. Top(db, w)
    BY <1>2
  <2> HIDE DEF b, none
  <2>4. Box(store[w], w, b)
    BY <2>1, <2>2, <2>3 DEF Box
  <2> QED BY <1>2, <2>1, <2>3, <2>4 DEF Linked
<1>5. ASSUME NEW w \in Workers PROVE Heard(w)
  <2>1. /\ "inbox" \in DOMAIN agent[w] /\ agent[w].inbox.through = 0
        /\ agent[w].inbox.run = {}
    BY DEF Stopped, NoReply
  <2>2. IsFiniteSet(agent[w].inbox.run)
    BY <2>1, FS_EmptySet
  <2> QED BY <1>2, <2>1, <2>2 DEF Heard
<1>6. Serving
  BY DEF Serving, Idle, NoCall
<1> QED BY <1>3, <1>4, <1>5, <1>6 DEF ChainInv

LEMMA ChainNext == ChainInv /\ [SyncNext]_sysVars => ChainInv'
<1> SUFFICES ASSUME ChainInv, [SyncNext]_sysVars PROVE ChainInv'
  OBVIOUS
<1>1. CASE Operate
  BY <1>1, OperateKeeps
<1>2. ASSUME NEW w \in Workers, AgentAlone(w) \/ JobAlone(w) PROVE ChainInv'
  <2>1. UNCHANGED <<db, tx, req, call, wire>> /\ (AgentStep(w) \/ JobStep(w))
    BY <1>2 DEF AgentAlone, JobAlone, Aside, netVars
  <2>2. \A r \in wire' : Carried(r)
    BY <2>1 DEF ChainInv
  <2>3. StoresGo /\ AgentsGo
    BY <2>1, AgentStepGoes, JobStepGoes
  <2> QED BY <2>1, <2>2, <2>3, MachineKeeps
<1>3. ASSUME NEW w \in Workers, Post(w) \/ Start(w) \/ Faults(w) PROVE ChainInv'
  BY <1>3, PostKeeps, StartKeeps, FaultsKeep
<1>4. CASE Server
  BY <1>4, ServeKeeps, RecordKeeps, FailKeeps, OffersKeep, ReplyKeeps DEF Server, RefuseNext
<1>5. CASE ServerFault
  BY <1>5, FailKeeps DEF ServerFault
<1>6. CASE UNCHANGED sysVars
  <2>1. UNCHANGED <<db, tx, req, store, agent, wire, call>>
    BY <1>6 DEF sysVars
  <2> QED BY <2>1, StoresStay, AgentsStay, MachineKeeps DEF ChainInv
<1> QED BY <1>1, <1>2, <1>3, <1>4, <1>5, <1>6 DEF SyncNext

LEMMA Chained == SyncSpec => []ChainInv
BY ChainInit, ChainNext, PTL DEF SyncSpec

\* The control plane learns every worker's events in the order they happened and
\* without a gap, for every number of workers, jobs and faults and every batch size
\* (recordWorkerEvent, SyncWorker's rollback, the worker's retries).
THEOREM EventsRecordedInOrder == SyncSpec => []RecordedInOrder
<1>1. ChainInv => RecordedInOrder
  BY DEF ChainInv, Gapless, Seen, Top, RecordedInOrder
<1> QED BY <1>1, Chained, PTL

\* No event a worker ever enqueued is lost, whatever is retried, given up, restarted
\* or rolled back: it is in the outbox until it is committed (Acknowledge, SyncWorker).
THEOREM NoEventLost == SyncSpec => []EventsNeverLost
<1>1. ASSUME ChainInv PROVE EventsNeverLost
  <2> SUFFICES ASSUME NEW w \in Workers, NEW n \in 1 .. store[w].next - 1
               PROVE  \/ \E i \in DOMAIN store[w].outbox : store[w].outbox[i].seq = n
                      \/ \E r \in db.events : r.id = <<w, n>>
    BY DEF EventsNeverLost
  <2>1. PICK b \in 0 .. Top(db, w) : Box(store[w], w, b)
    BY <1>1 DEF ChainInv, Linked
  <2> DEFINE es == store[w].outbox
  <2>2. Consecutive(es, w, b) /\ b + Len(es) + 1 = store[w].next /\ b \in Nat
    BY <2>1 DEF Box
  <2>3. Len(es) \in Nat /\ DOMAIN es = 1 .. Len(es)
    BY <2>2, SequencedFacts DEF Consecutive
  <2>4. CASE n > b
    <3> DEFINE i == n - b
    <3>1. i \in 1 .. Len(es) /\ b + i = n
      <4> HIDE DEF es
      <4> QED BY <2>2, <2>3, <2>4
    <3>2. es[i].seq = n
      BY <2>2, <3>1 DEF Consecutive
    <3> QED BY <2>3, <3>1, <3>2
  <2>5. CASE n <= b
    <3>1. n \in Seen(db, w)
      BY <1>1, <2>1, <2>5 DEF ChainInv, Gapless
    <3>2. PICK r \in db.events : r.worker = w /\ r.seq = n
      BY <3>1 DEF Seen
    <3>3. r.id = <<w, n>>
      BY <1>1, <3>2 DEF ChainInv, Gapless
    <3> QED BY <3>3
  <2> QED BY <2>2, <2>4, <2>5
<1> QED BY <1>1, Chained, PTL
=============================================================================
