------------------------------ MODULE MCUptime ------------------------------
(* Instances of UptimeCalculator for TLC: minutes and days, the days short,*)
(* since hours are treated as minutes are.                                 *)
EXTENDS UptimeCalculator, TLC

Widths == <<1, 3>>
Limits == <<5, 2>>

\* Nothing, or a beat under maintenance and one that was up in each of the
\* three minutes before.
OneEach == [up |-> 1, down |-> 0, maintenance |-> 1]
TwoEach == [up |-> 2, down |-> 0, maintenance |-> 2]

NewOrOld ==
    {<<Nowhere, Nowhere>>,
     <<[k \in 4 .. 6 |-> OneEach], [k \in {3, 6} |-> IF k = 3 THEN TwoEach ELSE OneEach]>>}

Alike == Permutations(User) \cup Permutations(Object)
=============================================================================
