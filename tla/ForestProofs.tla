---------------------------- MODULE ForestProofs ----------------------------
(* Whatever the monitors and however they are moved, they form a forest.   *)
EXTENDS Forest, TLAPS

\* A parent is a monitor that exists, or none.
LEMMA ParentsExist ==
    ASSUME TypeOK
    PROVE  /\ Present \subseteq Monitor
           /\ parent = [c \in Present |-> parent[c]]
           /\ \A c \in Present : parent[c] \in Place
  <1>1. PICK S \in SUBSET Monitor : parent \in [S -> S \cup {None}]
    BY DEF TypeOK
  <1> QED BY <1>1 DEF Present, Place

\* Types of a function given by its values.
LEMMA TypeFromValues ==
    ASSUME NEW S \in SUBSET Monitor, NEW f, f = [c \in S |-> f[c]],
           \A c \in S : f[c] \in S \cup {None}
    PROVE  f \in UNION {[T -> T \cup {None}] : T \in SUBSET Monitor}
  <1>1. f \in [S -> S \cup {None}]  OBVIOUS
  <1> QED BY <1>1

\* A step keeps the types.
LEMMA NextTypes == ASSUME NoneIsNoMonitor, TypeOK, Next PROVE TypeOK'
  <1> USE ParentsExist DEF NoneIsNoMonitor
  <1>1. ASSUME NEW m \in Monitor, NEW p \in Monitor \cup {None}, Add(m, p)
        PROVE  TypeOK'
    <2> DEFINE S == Present \cup {m}
    <2>1. S \in SUBSET Monitor  OBVIOUS
    <2>2. parent' = [c \in S |-> parent'[c]] /\ \A c \in S : parent'[c] \in S \cup {None}
      BY <1>1 DEF Add, Place
    <2> QED BY <2>1, <2>2, TypeFromValues DEF TypeOK
  <1>2. ASSUME NEW m \in Monitor, NEW p \in Monitor \cup {None}, Move(m, p)
        PROVE  TypeOK'
    <2>1. parent' = [c \in Present |-> parent'[c]]
          /\ \A c \in Present : parent'[c] \in Present \cup {None}
      BY <1>2 DEF Move, Place, Present
    <2> QED BY <2>1, TypeFromValues DEF TypeOK
  <1>3. ASSUME NEW m \in Monitor, Free(m)  PROVE TypeOK'
    <2>1. parent' = [c \in Present |-> parent'[c]]
          /\ \A c \in Present : parent'[c] \in Present \cup {None}
      BY <1>3 DEF Free, Freed, Place, Present
    <2> QED BY <2>1, TypeFromValues DEF TypeOK
  <1>4. ASSUME NEW m \in Monitor, Remove(m)  PROVE TypeOK'
    <2> DEFINE S == Present \ {m}
    <2>1. S \in SUBSET Monitor  OBVIOUS
    <2>2. parent' = [c \in S |-> parent'[c]] /\ \A c \in S : parent'[c] \in S \cup {None}
      BY <1>4 DEF Remove, Freed, Place, Present
    <2> QED BY <2>1, <2>2, TypeFromValues DEF TypeOK
  <1> QED BY <1>1, <1>2, <1>3, <1>4 DEF Next

\* A new monitor is nobody's parent yet.
LEMMA AddKeeps ==
    ASSUME NoneIsNoMonitor, TypeOK, Acyclic, NEW m \in Monitor, NEW p, Add(m, p)
    PROVE  Acyclic'
  <1> USE ParentsExist DEF NoneIsNoMonitor
  <1>1. Present' = Present \cup {m} /\ parent'[m] = p
        /\ \A c \in Present : parent'[c] = parent[c] /\ parent'[c] # m
    BY DEF Add, Place, Present
  <1>2. p # m  BY DEF Add, Place
  <1>3. ASSUME NEW S \in SUBSET Present', S # {}
        PROVE  \E x \in S : parent'[x] \notin S
    <2>1. CASE S \ {m} # {}
      <3>1. PICK x \in S \ {m} : parent[x] \notin S \ {m}
        BY <1>1, <1>3, <2>1 DEF Acyclic
      <3> QED BY <1>1, <3>1
    <2>2. CASE S = {m}  BY <1>1, <1>2, <2>2
    <2> QED BY <1>3, <2>1, <2>2
  <1> QED BY <1>3 DEF Acyclic

\* What moves takes all that is below it along, and goes to none of that.
LEMMA MoveKeeps ==
    ASSUME NoneIsNoMonitor, TypeOK, Acyclic, NEW m \in Monitor, NEW p, Move(m, p)
    PROVE  Acyclic'
  <1> USE ParentsExist DEF NoneIsNoMonitor
  <1>1. Present' = Present /\ parent'[m] = p /\ m \in Present
        /\ \A c \in Present \ {m} : parent'[c] = parent[c]
    BY DEF Move, Present
  <1>2. PICK D \in SUBSET Present : m \in D /\ p \notin D /\ ClosedBelow(D)
    <2>1. CASE p = None
      <3>1. ClosedBelow(Present)  BY DEF ClosedBelow
      <3> QED BY <1>1, <2>1, <3>1
    <2>2. CASE p # None  BY <2>2 DEF Move, Apart
    <2> QED BY <2>1, <2>2
  <1>3. ASSUME NEW S \in SUBSET Present, S # {}
        PROVE  \E x \in S : parent'[x] \notin S
    <2>1. CASE S \ D # {}
      <3>1. PICK x \in S \ D : parent[x] \notin S \ D
        BY <2>1 DEF Acyclic
      <3>2. parent[x] \notin D  BY <1>2, <3>1 DEF ClosedBelow
      <3>3. x # m /\ parent'[x] = parent[x]  BY <1>1, <1>2, <3>1
      <3> QED BY <3>1, <3>2, <3>3
    <2>2. CASE S \subseteq D /\ m \in S  BY <1>1, <1>2, <2>2
    <2>3. CASE S \subseteq D /\ m \notin S
      <3>1. PICK x \in S : parent[x] \notin S  BY <1>3 DEF Acyclic
      <3> QED BY <1>1, <2>3, <3>1
    <2> QED BY <2>1, <2>2, <2>3
  <1> QED BY <1>1, <1>3 DEF Acyclic

\* A monitor that is set free is among no other's descendants.
LEMMA FreeKeeps ==
    ASSUME NoneIsNoMonitor, TypeOK, Acyclic, NEW g \in Monitor, Free(g)
    PROVE  Acyclic'
  <1> USE ParentsExist DEF NoneIsNoMonitor
  <1>1. Present' = Present
        /\ \A c \in Present : parent'[c] = parent[c] \/ parent'[c] = None
    BY DEF Free, Freed, Present
  <1>2. ASSUME NEW S \in SUBSET Present, S # {}
        PROVE  \E x \in S : parent'[x] \notin S
    <2>1. PICK x \in S : parent[x] \notin S  BY <1>2 DEF Acyclic
    <2> QED BY <1>1, <2>1
  <1> QED BY <1>1, <1>2 DEF Acyclic

LEMMA RemoveKeeps ==
    ASSUME NoneIsNoMonitor, TypeOK, Acyclic, NEW m \in Monitor, Remove(m)
    PROVE  Acyclic'
  <1> USE ParentsExist DEF NoneIsNoMonitor
  <1>1. Present' = Present \ {m}
        /\ \A c \in Present' : parent'[c] = parent[c] \/ parent'[c] = None
    BY DEF Remove, Freed, Present
  <1>2. ASSUME NEW S \in SUBSET Present', S # {}
        PROVE  \E x \in S : parent'[x] \notin S
    <2>1. PICK x \in S : parent[x] \notin S  BY <1>1, <1>2 DEF Acyclic
    <2> QED BY <1>1, <2>1
  <1> QED BY <1>2 DEF Acyclic

\* The groups of a server form a forest for good: no monitor is ever above
\* itself, whatever is added, moved, set free and removed.
THEOREM AlwaysAForest == NoneIsNoMonitor => (Spec => [](TypeOK /\ Acyclic))
  <1> SUFFICES ASSUME NoneIsNoMonitor PROVE Spec => [](TypeOK /\ Acyclic)  OBVIOUS
  <1>1. Init => TypeOK  BY DEF Init, TypeOK
  <1>2. TypeOK /\ Acyclic /\ [Next]_parent => (TypeOK /\ Acyclic)'
    <2> SUFFICES ASSUME TypeOK, Acyclic, [Next]_parent PROVE (TypeOK /\ Acyclic)'
      OBVIOUS
    <2>1. CASE Next
      <3>1. TypeOK'  BY <2>1, NextTypes
      <3>2. Acyclic'
        BY <2>1, AddKeeps, MoveKeeps, FreeKeeps, RemoveKeeps DEF Next
      <3> QED BY <3>1, <3>2
    <2>2. CASE UNCHANGED parent
      BY <2>2 DEF TypeOK, Acyclic, Present
    <2> QED BY <2>1, <2>2
  <1> QED BY <1>1, <1>2, PTL DEF Spec
=============================================================================
