---------------------------- MODULE TimestampsProofs ----------------------------
(* What the order of written times says about the order of the times. *)
EXTENDS Timestamps, TLAPS

\* A time is its second and two digits.
LEMMA Parts ==
    ASSUME NEW t \in Nat
    PROVE  /\ SecondOf(t) \in Nat /\ Tenths(t) \in 0 .. 1 /\ Hundredths(t) \in 0 .. 1
           /\ t = 4 * SecondOf(t) + 2 * Tenths(t) + Hundredths(t)
           /\ t % Second = 2 * Tenths(t) + Hundredths(t)
  BY DEF SecondOf, Tenths, Hundredths, Second

\* Later times are not in earlier seconds.
LEMMA SecondsGrow ==
    ASSUME NEW t \in Nat, NEW u \in Nat, t <= u
    PROVE  SecondOf(t) <= SecondOf(u)
  BY DEF SecondOf, Second

\* Both formats begin with the second.
LEMMA WrittenSecond ==
    ASSUME NEW t \in Nat
    PROVE  /\ formatTime(t)[1] = SecondOf(t)
           /\ formatSortableTime(t)[1] = SecondOf(t)
           /\ Len(formatTime(t)) \in Nat /\ Len(formatTime(t)) >= 1
  BY DEF formatTime, formatSortableTime

\* Trimmed strings (formatTime) never put a time before one of an earlier second,
\* which is all that the comparison of next_attempt_at in DueWebhookDeliveries and
\* of created_at in offerJobs can rely on.
THEOREM TrimmedOrderBySeconds ==
    ASSUME NEW t \in Nat, NEW u \in Nat
    PROVE  /\ NotAfter(formatTime(t), formatTime(u)) => SecondOf(t) <= SecondOf(u)
           /\ SecondOf(t) < SecondOf(u) => Precedes(formatTime(t), formatTime(u))
  <1> DEFINE s == formatTime(t)
             r == formatTime(u)
  <1>1. /\ SecondOf(t) \in Nat /\ s[1] = SecondOf(t)
        /\ SecondOf(u) \in Nat /\ r[1] = SecondOf(u)
        /\ Len(s) \in Nat /\ Len(s) >= 1 /\ Len(r) \in Nat /\ Len(r) >= 1
    BY Parts, WrittenSecond
  <1> HIDE DEF s, r
  <1>2. ASSUME NotAfter(s, r) PROVE SecondOf(t) <= SecondOf(u)
    <2>1. CASE s = r
      BY <1>1, <2>1
    <2>2. CASE Precedes(s, r)
      <3>1. PICK i \in 1 .. Len(s) : i <= Len(r) /\ s[i] < r[i] /\ \A k \in 1 .. i - 1 : s[k] = r[k]
        BY <2>2 DEF Precedes
      <3>2. CASE i = 1
        BY <1>1, <3>1, <3>2
      <3>3. CASE i > 1
        <4>1. 1 \in 1 .. i - 1
          BY <1>1, <3>1, <3>3
        <4> QED BY <1>1, <3>1, <4>1
      <3> QED BY <1>1, <3>1, <3>2, <3>3
    <2> QED BY <1>2, <2>1, <2>2 DEF NotAfter
  <1>3. ASSUME SecondOf(t) < SecondOf(u) PROVE Precedes(s, r)
    <2>1. 1 \in 1 .. Len(s) /\ 1 <= Len(r) /\ s[1] < r[1] /\ \A k \in 1 .. 1 - 1 : s[k] = r[k]
      BY <1>1, <1>3
    <2> QED BY <2>1 DEF Precedes
  <1> QED BY <1>2, <1>3 DEF s, r

\* What the two digits of a sortable string are.
LEMMA WrittenDigits ==
    ASSUME NEW t \in Nat
    PROVE  LET s == formatSortableTime(t)
           IN  /\ Len(s) = 5
               /\ s[1] = SecondOf(t) /\ s[2] = Point
               /\ s[3] = Tenths(t) + 1 /\ s[4] = Hundredths(t) + 1 /\ s[5] = Zulu
  BY DEF formatSortableTime, Digit

\* Strings that keep their zeros (formatSortableTime) are in the order of time, so
\* expires_at > now in AuthenticateBrowserSession is exact.
THEOREM SortableOrderIsTime ==
    ASSUME NEW t \in Nat, NEW u \in Nat
    PROVE  Precedes(formatSortableTime(t), formatSortableTime(u)) <=> t < u
  <1> DEFINE s == formatSortableTime(t)
             r == formatSortableTime(u)
  <1>1. /\ Len(s) = 5 /\ s[1] = SecondOf(t) /\ s[2] = Point
        /\ s[3] = Tenths(t) + 1 /\ s[4] = Hundredths(t) + 1 /\ s[5] = Zulu
    BY WrittenDigits
  <1>2. /\ Len(r) = 5 /\ r[1] = SecondOf(u) /\ r[2] = Point
        /\ r[3] = Tenths(u) + 1 /\ r[4] = Hundredths(u) + 1 /\ r[5] = Zulu
    BY WrittenDigits
  <1>3. /\ SecondOf(t) \in Nat /\ Tenths(t) \in 0 .. 1 /\ Hundredths(t) \in 0 .. 1
        /\ t = 4 * SecondOf(t) + 2 * Tenths(t) + Hundredths(t)
    BY Parts
  <1>4. /\ SecondOf(u) \in Nat /\ Tenths(u) \in 0 .. 1 /\ Hundredths(u) \in 0 .. 1
        /\ u = 4 * SecondOf(u) + 2 * Tenths(u) + Hundredths(u)
    BY Parts
  <1> HIDE DEF s, r
  <1>5. ASSUME Precedes(s, r) PROVE t < u
    <2>1. PICK i \in 1 .. 5 : s[i] < r[i] /\ \A k \in 1 .. i - 1 : s[k] = r[k]
      BY <1>1, <1>5 DEF Precedes
    <2>2. i # 2 /\ i # 5
      BY <1>1, <1>2, <2>1 DEF Point, Zulu
    <2>3. CASE i = 1
      BY <1>1, <1>2, <1>3, <1>4, <2>1, <2>3
    <2>4. CASE i = 3
      <3>1. s[1] = r[1]
        BY <2>1, <2>4
      <3> QED BY <1>1, <1>2, <1>3, <1>4, <2>1, <2>4, <3>1
    <2>5. CASE i = 4
      <3>1. s[1] = r[1] /\ s[3] = r[3]
        BY <2>1, <2>5
      <3> QED BY <1>1, <1>2, <1>3, <1>4, <2>1, <2>5, <3>1
    <2> QED BY <2>2, <2>3, <2>4, <2>5
  <1>6. ASSUME t < u PROVE Precedes(s, r)
    <2>1. \/ SecondOf(t) < SecondOf(u)
          \/ SecondOf(t) = SecondOf(u) /\ Tenths(t) < Tenths(u)
          \/ SecondOf(t) = SecondOf(u) /\ Tenths(t) = Tenths(u) /\ Hundredths(t) < Hundredths(u)
      BY <1>3, <1>4, <1>6
    <2>2. CASE SecondOf(t) < SecondOf(u)
      <3>1. 1 <= Len(r) /\ s[1] < r[1] /\ \A k \in 1 .. 1 - 1 : s[k] = r[k]
        BY <1>1, <1>2, <2>2
      <3> QED BY <1>1, <3>1 DEF Precedes
    <2>3. CASE SecondOf(t) = SecondOf(u) /\ Tenths(t) < Tenths(u)
      <3>1. 3 <= Len(r) /\ s[3] < r[3] /\ \A k \in 1 .. 3 - 1 : s[k] = r[k]
        BY <1>1, <1>2, <1>3, <1>4, <2>3
      <3> QED BY <1>1, <3>1 DEF Precedes
    <2>4. CASE /\ SecondOf(t) = SecondOf(u) /\ Tenths(t) = Tenths(u)
               /\ Hundredths(t) < Hundredths(u)
      <3>1. 4 <= Len(r) /\ s[4] < r[4] /\ \A k \in 1 .. 4 - 1 : s[k] = r[k]
        BY <1>1, <1>2, <1>3, <1>4, <2>4
      <3> QED BY <1>1, <3>1 DEF Precedes
    <2> QED BY <2>1, <2>2, <2>3, <2>4
  <1> QED BY <1>5, <1>6 DEF s, r
=============================================================================
