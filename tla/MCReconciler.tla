---------------------------- MODULE MCReconciler ----------------------------
(* Instances of Reconciler for TLC.                                        *)
EXTENDS Reconciler, TLC

CONSTANTS b, n1, n2   \* a probe and names

Row(n, par, v) == [name |-> n, parent |-> par, ver |-> v, active |-> TRUE]

\* A group, 1, and a monitor, 2, that starts in it.
GroupAndChild == 1 :> Row(n1, NoId, 1) @@ 2 :> Row(n2, 1, 1)

\* The group's settings change; the child moves out, and back.
MoveChild == 1 :> {Row(n1, NoId, 1), Row(n1, NoId, 2)}
          @@ 2 :> {Row(n2, 1, 1), Row(n2, NoId, 2), Row(n2, 1, 3)}

Off(c) == [c EXCEPT !.active = FALSE]

\* Besides, the child can be paused and resumed.
PauseAndMove == 1 :> {Row(n1, NoId, 1), Row(n1, NoId, 2)}
             @@ 2 :> {Row(n2, 1, 1), Off(Row(n2, 1, 1)), Row(n2, NoId, 2)}

\* The child comes before its group in the master's ids.
ChildAndGroup == 1 :> Row(n1, 2, 1) @@ 2 :> Row(n2, NoId, 1)
EditChild     == 1 :> {Row(n1, 2, 1), Row(n1, 2, 2), Off(Row(n1, 2, 1))} @@ 2 :> {Row(n2, NoId, 1)}

\* The second probe runs the child alone, with its group.
ChildOnly == [pr \in Probe |-> IF pr = b THEN {1} ELSE MasterId]

\* The filters select the child; the group comes with it.
ChildAlone == [pr \in Probe |-> {2}]

All == [pr \in Probe |-> MasterId]
=============================================================================
