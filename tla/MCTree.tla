------------------------------- MODULE MCTree -------------------------------
(* Instances of MonitorTree for TLC.                                       *)
EXTENDS MonitorTree

CONSTANTS m1, m2, m3, m4

At(p, g) == [parent |-> p, group |-> g, active |-> TRUE]

\* A group in a group in a group; m4 is not used yet.
ThreeLevels == [m \in {m1, m2, m3} |->
                  At(IF m = m1 THEN None ELSE IF m = m2 THEN m1 ELSE m2, TRUE)]

\* Two groups at the root, and a monitor in one.
TwoGroups == [m \in {m1, m2, m3} |-> IF m = m3 THEN At(m2, FALSE) ELSE At(None, TRUE)]

\* A group in a group, and two ids to be given.
TwoLevels == [m \in {m1, m2} |-> At(IF m = m1 THEN None ELSE m1, TRUE)]

Three == {ThreeLevels, TwoGroups, TwoLevels}
=============================================================================
