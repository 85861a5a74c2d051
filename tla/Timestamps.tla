------------------------------- MODULE Timestamps -------------------------------
(* Times as the control plane writes them into its database, and the order in  *)
(* which SQLite compares what was written.  formatTime trims the zeros at the   *)
(* end of a fraction (time.RFC3339Nano); formatSortableTime keeps them.         *)
(*                                                                              *)
(* A time is a number of ticks, four to the second: two binary digits stand for *)
(* the nine decimal ones.  Everything before the fraction has a fixed width and  *)
(* is compared as the number of the second; behind it come characters, as ranks *)
(* in the order of their codes: the point, the digits, the final Z.             *)
EXTENDS Integers, Sequences

Second == 4

SecondOf(t) == t \div Second
Tenths(t)     == (t % Second) \div 2
Hundredths(t) == t % 2

Point    == 0
Digit(d) == d + 1
Zulu     == 3

formatSortableTime(t) ==
    <<SecondOf(t), Point, Digit(Tenths(t)), Digit(Hundredths(t)), Zulu>>

formatTime(t) ==
    IF t % Second = 0 THEN <<SecondOf(t), Zulu>>
    ELSE IF Hundredths(t) = 0 THEN <<SecondOf(t), Point, Digit(Tenths(t)), Zulu>>
    ELSE formatSortableTime(t)

\* Strings compared byte by byte.  The final Z keeps any of them from being the
\* beginning of another.
Precedes(s, u) ==
    \E i \in 1 .. Len(s) :
        /\ i <= Len(u)
        /\ s[i] < u[i]
        /\ \A k \in 1 .. i - 1 : s[k] = u[k]

NotAfter(s, u) == s = u \/ Precedes(s, u)
=============================================================================
