------------------------------- MODULE Forest -------------------------------
(***************************************************************************)
(* What the groups of a server promise: monitors form a forest.  A monitor *)
(* is added at the root or below another, moved to where it does not come  *)
(* to be below itself, the children of one are set free together, and one  *)
(* that is removed sets its children free.                                 *)
(***************************************************************************)
CONSTANTS Monitor, None

\* What the constants must satisfy: no monitor is called None.
NoneIsNoMonitor == None \notin Monitor

VARIABLE parent    \* the parent of each monitor that exists

Present == DOMAIN parent

Children(m) == {c \in Present : parent[c] = m}

\* A set that holds the children of its members.
ClosedBelow(S) == \A c \in Present : parent[c] \in S => c \in S

\* p is not m, nor below it: some closed set holds m and not p.
Apart(p, m) == \E S \in SUBSET Present : m \in S /\ p \notin S /\ ClosedBelow(S)

Place == Present \cup {None}

Freed(f, g) == [c \in DOMAIN f |-> IF f[c] = g THEN None ELSE f[c]]

Init == parent \in UNION {[S -> S \cup {None}] : S \in SUBSET Monitor}

Add(m, p) ==
    /\ m \notin Present /\ p \in Place
    /\ parent' = [c \in Present \cup {m} |-> IF c = m THEN p ELSE parent[c]]

Move(m, p) ==
    /\ m \in Present /\ p \in Place
    /\ p # None => Apart(p, m)
    /\ parent' = [parent EXCEPT ![m] = p]

Free(g) ==
    /\ g \in Monitor
    /\ parent' = Freed(parent, g)

Remove(m) ==
    /\ m \in Present
    /\ parent' = [c \in Present \ {m} |-> Freed(parent, m)[c]]

\* No monitor is among its own ancestors: whatever monitors are taken, one of
\* them has its parent outside.
Acyclic ==
    \A S \in SUBSET Present : S # {} => \E m \in S : parent[m] \notin S

Next ==
    \/ \E m \in Monitor, p \in Monitor \cup {None} : Add(m, p) \/ Move(m, p)
    \/ \E m \in Monitor : Free(m) \/ Remove(m)

Spec == Init /\ Acyclic /\ [][Next]_parent

TypeOK == parent \in UNION {[S -> S \cup {None}] : S \in SUBSET Monitor}
=============================================================================
