-------------------------- MODULE MonitorTreeProofs --------------------------
(***************************************************************************)
(* For any monitors, any number of requests at once and any number of      *)
(* lost connections: the types of MonitorTree, that it implements Forest   *)
(* up to the first race or loop, that only groups have children, that none *)
(* is too deep, that deletions stay below what was to be deleted, and that *)
(* the copy of a client follows.                                           *)
(***************************************************************************)
EXTENDS MonitorTree, FiniteSetTheorems, TLAPS

\* A parent is a row of the table: what the foreign key is for.
Placed == \A m \in DOMAIN tab : tab[m].parent \in DOMAIN tab \cup {None}

\* Up to the first race or loop, the forest is that of the table.
Keeps == ~raced /\ ~looped => kept = Parents(tab)

\* Requests that name a monitor; a check begins with nothing seen.
Named(q) ==
    /\ q.at = "find" => q.seen = {}
    /\ q.at \in {"find", "unlink", "restart", "switch"} => q.m \in Monitor
    /\ q.op \in {"edit", "delete", "deleteAll"} => q.m \in Monitor

\* What a check that was not overtaken knows: all whose children were asked for
\* have them among those seen, and at the end the new parent is not there.
Checks(q) == /\ q.op = "edit" /\ q.new.parent # None
             /\ q.at \in {"walk", "depth", "store"}

Explored(t, q) ==
    /\ \A x \in (q.seen \cup {q.m}) \ q.todo : ChildrenOf(t, x) \subseteq q.seen
    /\ q.at # "walk" => q.todo = {} /\ q.new.parent \notin q.seen

Knows(r) == /\ Named(req[r])
            /\ Checks(req[r]) /\ ~changed[r] => Explored(tab, req[r])

ServerOK == /\ tab \in Table /\ born \in SUBSET Monitor /\ DOMAIN tab \subseteq born
            /\ Placed

RequestsOK == req \in [Socket -> Request]

ClientOK == /\ requests \in Nat /\ drops \in Nat
            /\ list \in [at : {"none", "due", "read"}, data : Table]
            /\ mirror \in Table

FlagsOK == /\ connected \in BOOLEAN
           /\ changed \in [Socket -> BOOLEAN] /\ raced \in BOOLEAN
           /\ looped \in BOOLEAN
           /\ tall \in BOOLEAN /\ mistyped \in BOOLEAN /\ late \in BOOLEAN

GhostsOK == /\ silent \in SUBSET Monitor
            /\ under \in [Socket -> SUBSET Monitor]
            /\ kept \in UNION {[S -> S \cup {None}] : S \in SUBSET Monitor}

Inv == /\ ServerOK /\ RequestsOK /\ ClientOK /\ FlagsOK /\ GhostsOK /\ Keeps
       /\ \A r \in Socket : Knows(r)
-----------------------------------------------------------------------------
(* Tables                                                                  *)

LEMMA TableValues ==
    ASSUME NEW t \in Table
    PROVE  /\ DOMAIN t \in SUBSET Monitor /\ t = [m \in DOMAIN t |-> t[m]]
           /\ \A m \in DOMAIN t : t[m] \in Row
  <1>1. PICK S \in SUBSET Monitor : t \in [S -> Row]  BY DEF Table
  <1> QED BY <1>1

LEMMA TableFromValues ==
    ASSUME NEW t, DOMAIN t \in SUBSET Monitor, t = [m \in DOMAIN t |-> t[m]],
           \A m \in DOMAIN t : t[m] \in Row
    PROVE  t \in Table
  <1>1. t \in [DOMAIN t -> Row]  OBVIOUS
  <1> QED BY <1>1 DEF Table

LEMMA FreshIsRow == Fresh \in Row
  BY DEF Fresh, Row

\* A row with a field changed is a row.
LEMMA RowFields ==
    ASSUME NEW row \in Row
    PROVE  /\ row.parent \in Monitor \cup {None} /\ row.active \in BOOLEAN
           /\ \A a \in BOOLEAN :
                /\ [row EXCEPT !.active = a] \in Row
                /\ [row EXCEPT !.active = a].parent = row.parent
  BY DEF Row

\* The list and the updates that are sent hold rows.
LEMMA UpdatedIsRow ==
    ASSUME NEW t \in Table, NEW m \in DOMAIN t PROVE Updated(t, m) \in Row
  <1> DEFINE a == t[m].active /\ t[m].parent \in {None, m}
  <1>1. a \in BOOLEAN  BY Zenon
  <1>2. t[m] \in Row  BY TableValues
  <1>3. Updated(t, m) = [t[m] EXCEPT !.active = a]  BY DEF Updated
  <1> HIDE DEF a
  <1> QED BY <1>1, <1>2, <1>3 DEF Row

LEMMA ListedIsTable == ASSUME NEW t \in Table PROVE Listed(t) \in Table
  <1> DEFINE l == Listed(t)
  <1>1. DOMAIN l = DOMAIN t /\ l = [m \in DOMAIN l |-> l[m]]  BY DEF Listed
  <1>2. \A m \in DOMAIN t : l[m] \in Row
    <2> TAKE m \in DOMAIN t
    <2> DEFINE a == t[m].active /\ ParentActive(t, m)
    <2>1. a \in BOOLEAN  BY Zenon
    <2>2. t[m] \in Row  BY TableValues
    <2>3. l[m] = [t[m] EXCEPT !.active = a]  BY DEF Listed
    <2> HIDE DEF a, l
    <2> QED BY <2>1, <2>2, <2>3 DEF Row
  <1> HIDE DEF l
  <1>3. l \in Table  BY <1>1, <1>2, TableValues, TableFromValues
  <1> QED BY <1>3 DEF l

\* No monitor gets a child.
Shrinks == \A x \in Monitor : ChildrenOf(tab', x) \subseteq ChildrenOf(tab, x)

\* Nothing changes.
LEMMA SameTable ==
    ASSUME ServerOK, UNCHANGED <<tab, born>>
    PROVE  ServerOK' /\ Shrinks /\ Parents(tab') = Parents(tab)
  BY DEF ServerOK, Placed, Shrinks

\* A field that is not the parent is set.
LEMMA ActiveTable ==
    ASSUME ServerOK, UNCHANGED born, NEW m \in DOMAIN tab, NEW a \in BOOLEAN,
           tab' = [tab EXCEPT ![m] = [@ EXCEPT !.active = a]]
    PROVE  ServerOK' /\ Shrinks /\ Parents(tab') = Parents(tab)
  <1> DEFINE row == [tab[m] EXCEPT !.active = a]
  <1>1. tab[m] \in Row  BY TableValues DEF ServerOK
  <1>2. row \in Row /\ row.parent = tab[m].parent  BY <1>1, RowFields
  <1>3. tab' = [tab EXCEPT ![m] = row]  OBVIOUS
  <1> HIDE DEF row
  <1>4. DOMAIN tab' = DOMAIN tab /\ tab' = [x \in DOMAIN tab' |-> tab'[x]]
    BY <1>3, TableValues DEF ServerOK
  <1>5. \A x \in DOMAIN tab : tab'[x] \in Row /\ tab'[x].parent = tab[x].parent
    BY <1>2, <1>3, TableValues DEF ServerOK
  <1>6. tab' \in Table
    <2>1. DOMAIN tab' \in SUBSET Monitor  BY <1>4, TableValues DEF ServerOK
    <2> QED BY <1>4, <1>5, <2>1, TableFromValues
  <1>7. ServerOK'  BY <1>4, <1>5, <1>6 DEF ServerOK, Placed
  <1>8. Shrinks  BY <1>4, <1>5 DEF Shrinks, ChildrenOf
  <1>9. Parents(tab') = Parents(tab)  BY <1>4, <1>5 DEF Parents
  <1> QED BY <1>7, <1>8, <1>9

\* The children of g are set free.
LEMMA UnlinkedTable ==
    ASSUME ServerOK, UNCHANGED born, NEW g, tab' = Unlinked(tab, g)
    PROVE  /\ ServerOK' /\ Shrinks
           /\ Parents(tab') = F!Freed(Parents(tab), g)
  <1>1. DOMAIN tab' = DOMAIN tab /\ tab' = [x \in DOMAIN tab' |-> tab'[x]]
    BY DEF Unlinked
  <1>2. \A x \in DOMAIN tab :
          /\ tab'[x] \in Row
          /\ tab'[x].parent = IF tab[x].parent = g THEN None ELSE tab[x].parent
    <2> TAKE x \in DOMAIN tab
    <2>1. tab[x] \in Row  BY TableValues DEF ServerOK
    <2>2. tab'[x] = IF tab[x].parent = g THEN [tab[x] EXCEPT !.parent = None]
                    ELSE tab[x]
      BY DEF Unlinked
    <2> QED BY <2>1, <2>2 DEF Row
  <1>3. tab' \in Table
    <2>1. DOMAIN tab' \in SUBSET Monitor  BY <1>1, TableValues DEF ServerOK
    <2> QED BY <1>1, <1>2, <2>1, TableFromValues
  <1>4. ServerOK'  BY <1>1, <1>2, <1>3 DEF ServerOK, Placed
  <1>5. Shrinks  BY <1>1, <1>2, TreeAssumption DEF Shrinks, ChildrenOf
  <1>6. Parents(tab') = F!Freed(Parents(tab), g)
    BY <1>1, <1>2 DEF Parents, F!Freed
  <1> QED BY <1>4, <1>5, <1>6

\* A row is deleted, if it is there.
LEMMA RemovedTable ==
    ASSUME ServerOK, UNCHANGED born, NEW m, tab' = Without(tab, m)
    PROVE  /\ ServerOK' /\ Shrinks
           /\ Parents(tab') = [c \in DOMAIN tab \ {m} |-> F!Freed(Parents(tab), m)[c]]
           /\ m \notin DOMAIN tab => Parents(tab') = Parents(tab)
  <1>1. DOMAIN tab' = DOMAIN tab \ {m} /\ tab' = [x \in DOMAIN tab' |-> tab'[x]]
    BY DEF Without
  <1>2. \A x \in DOMAIN tab' :
          /\ tab'[x] \in Row
          /\ tab'[x].parent = IF tab[x].parent = m THEN None ELSE tab[x].parent
    <2> TAKE x \in DOMAIN tab'
    <2>1. tab[x] \in Row  BY <1>1, TableValues DEF ServerOK
    <2>2. tab'[x] = IF tab[x].parent = m THEN [tab[x] EXCEPT !.parent = None]
                    ELSE tab[x]
      BY <1>1 DEF Without
    <2> QED BY <2>1, <2>2 DEF Row
  <1>3. tab' \in Table
    <2>1. DOMAIN tab' \in SUBSET Monitor  BY <1>1, TableValues DEF ServerOK
    <2> QED BY <1>1, <1>2, <2>1, TableFromValues
  <1>4. ServerOK'  BY <1>1, <1>2, <1>3 DEF ServerOK, Placed
  <1>5. Shrinks  BY <1>1, <1>2, TreeAssumption DEF Shrinks, ChildrenOf
  <1>6. Parents(tab') = [c \in DOMAIN tab \ {m} |-> F!Freed(Parents(tab), m)[c]]
    BY <1>1, <1>2 DEF Parents, F!Freed
  <1>7. m \notin DOMAIN tab => Parents(tab') = Parents(tab)
    <2> SUFFICES ASSUME m \notin DOMAIN tab PROVE Parents(tab') = Parents(tab)
      OBVIOUS
    <2>1. DOMAIN tab' = DOMAIN tab  BY <1>1
    <2>2. \A x \in DOMAIN tab : tab'[x].parent = tab[x].parent
      BY <1>2, <2>1 DEF ServerOK, Placed
    <2> QED BY <2>1, <2>2 DEF Parents
  <1> QED BY <1>4, <1>5, <1>6, <1>7

\* A row is inserted.
LEMMA AddedTable ==
    ASSUME ServerOK, NEW m \in Monitor \ born, NEW row \in Row,
           row.parent \in DOMAIN tab \cup {None},
           tab' = [x \in DOMAIN tab \cup {m} |-> IF x = m THEN row ELSE tab[x]],
           born' = born \cup {m}
    PROVE  /\ ServerOK'
           /\ Parents(tab') = [c \in DOMAIN tab \cup {m} |->
                                 IF c = m THEN row.parent ELSE Parents(tab)[c]]
  <1>1. /\ DOMAIN tab' = DOMAIN tab \cup {m} /\ tab' = [x \in DOMAIN tab' |-> tab'[x]]
        /\ tab'[m] = row /\ m \notin DOMAIN tab
        /\ \A x \in DOMAIN tab : tab'[x] = tab[x]
    BY DEF ServerOK
  <1>2. tab' \in Table
    <2>1. DOMAIN tab' \in SUBSET Monitor  BY <1>1, TableValues DEF ServerOK
    <2>2. \A x \in DOMAIN tab' : tab'[x] \in Row
      BY <1>1, TableValues DEF ServerOK
    <2> QED BY <1>1, <2>1, <2>2, TableFromValues
  <1>3. ServerOK'  BY <1>1, <1>2 DEF ServerOK, Placed
  <1>4. Parents(tab') = [c \in DOMAIN tab \cup {m} |->
                           IF c = m THEN row.parent ELSE Parents(tab)[c]]
    BY <1>1 DEF Parents
  <1> QED BY <1>3, <1>4

\* A row is updated.
LEMMA MovedTable ==
    ASSUME ServerOK, UNCHANGED born, NEW m \in DOMAIN tab,
           NEW p \in DOMAIN tab \cup {None}, NEW g \in BOOLEAN,
           tab' = [tab EXCEPT ![m] = [@ EXCEPT !.parent = p, !.group = g]]
    PROVE  ServerOK' /\ Parents(tab') = [Parents(tab) EXCEPT ![m] = p]
  <1> DEFINE row == [tab[m] EXCEPT !.parent = p, !.group = g]
  <1>1. tab[m] \in Row /\ p \in Monitor \cup {None}  BY TableValues DEF ServerOK
  <1>2. row \in Row /\ row.parent = p  BY <1>1 DEF Row
  <1>3. tab' = [tab EXCEPT ![m] = row]  OBVIOUS
  <1> HIDE DEF row
  <1>4. DOMAIN tab' = DOMAIN tab /\ tab' = [x \in DOMAIN tab' |-> tab'[x]]
    BY <1>3, TableValues DEF ServerOK
  <1>5. \A x \in DOMAIN tab :
          /\ tab'[x] \in Row
          /\ tab'[x].parent = IF x = m THEN p ELSE tab[x].parent
    BY <1>2, <1>3, TableValues DEF ServerOK
  <1>6. tab' \in Table
    <2>1. DOMAIN tab' \in SUBSET Monitor  BY <1>4, TableValues DEF ServerOK
    <2> QED BY <1>4, <1>5, <2>1, TableFromValues
  <1>7. ServerOK'  BY <1>4, <1>5, <1>6 DEF ServerOK, Placed
  <1>8. Parents(tab') = [Parents(tab) EXCEPT ![m] = p]
    BY <1>4, <1>5 DEF Parents
  <1> QED BY <1>7, <1>8
-----------------------------------------------------------------------------
(* Requests                                                                *)

LEMMA IdleIsRequest == Idle \in Request /\ Named(Idle) /\ ~Checks(Idle)
  BY FreshIsRow, TreeAssumption DEF Idle, Request, Named, Checks

LEMMA StepIsItem ==
    ASSUME NEW a \in {"read", "emit", "start", "visit", "remove"},
           NEW m \in Monitor, NEW b \in BOOLEAN
    PROVE  Step(a, m, b) \in Item
  BY DEF Step, Item

LEMMA OneStepPlan ==
    ASSUME NEW a \in {"read", "emit", "start", "visit", "remove"},
           NEW m \in Monitor, NEW b \in BOOLEAN, NEW rest \in Seq(Item)
    PROVE  /\ <<Step(a, m, b)>> \in Seq(Item)
           /\ <<Step(a, m, b)>> \o rest \in Seq(Item)
  <1> DEFINE i == Step(a, m, b)
  <1>1. i \in Item  BY StepIsItem
  <1> HIDE DEF i
  <1>2. <<i>> \in Seq(Item) /\ <<i>> \o rest \in Seq(Item)  BY <1>1
  <1> QED BY <1>2 DEF i

LEMMA PlansInOrder ==
    ASSUME NEW a \in Seq(Item), NEW b \in Seq(Item) PROVE a \o b \in Seq(Item)
  OBVIOUS

LEMMA EachIsPlan ==
    ASSUME NEW s \in Seq(Monitor), NEW a \in {"read", "visit"}, NEW b \in BOOLEAN
    PROVE  Each(s, a, b) \in Seq(Item)
  <1>1. DOMAIN s = 1 .. Len(s) /\ Len(s) \in Nat  OBVIOUS
  <1>2. \A i \in 1 .. Len(s) : Step(a, s[i], b) \in Item
    BY StepIsItem
  <1>3. Each(s, a, b) \in [1 .. Len(s) -> Item]  BY <1>1, <1>2 DEF Each
  <1> QED BY <1>1, <1>3

\* The lists of children that the queries return.
LEMMA ChildrenInOrder ==
    ASSUME NEW C \in SUBSET Monitor, NEW s \in SetToSeqs(C)
    PROVE  s \in Seq(Monitor)
  <1>1. IsFiniteSet(C)  BY TreeAssumption, FS_Subset
  <1>2. Cardinality(C) \in Nat  BY <1>1, FS_CardinalityType
  <1>3. s \in [1 .. Cardinality(C) -> C]  BY DEF SetToSeqs
  <1> QED BY <1>2, <1>3

LEMMA ChildrenAreMonitors ==
    ASSUME ServerOK, NEW m PROVE ChildrenOf(tab, m) \in SUBSET Monitor
  BY TableValues DEF ServerOK, ChildrenOf

\* What a step of r makes of its request.
Becomes(r, n) == n \in Request /\ req' = [req EXCEPT ![r] = n] /\ Named(n)

Learns(r) ==
    \E n : Becomes(r, n) /\ (Checks(n) /\ ~changed[r] => Explored(tab', n))

Leaves(r) == \E n : Becomes(r, n) /\ ~Checks(n)

LEMMA LeavesLearns == ASSUME NEW r, Leaves(r) PROVE Learns(r)
  BY DEF Leaves, Learns

LEMMA RestLeaves ==
    ASSUME NEW r \in Socket, NEW q \in Request, Named(q), NEW plan \in Seq(Item),
           Rest(r, q, plan)
    PROVE  Leaves(r)
  <1> DEFINE n == [q EXCEPT !.at = "rest", !.plan = plan]
  <1>1. n \in Request /\ n.at = "rest" /\ n.op = q.op /\ n.m = q.m /\ n.new = q.new
    BY DEF Request
  <1> HIDE DEF n
  <1>2. Named(n) /\ ~Checks(n)  BY <1>1 DEF Named, Checks
  <1>3. req' = [req EXCEPT ![r] = IF plan = <<>> THEN Idle ELSE n]
    BY DEF Rest, n
  <1> QED BY <1>1, <1>2, <1>3, IdleIsRequest DEF Leaves, Becomes

Places == {"find", "walk", "depth", "store", "unlink", "restart", "switch", "rest"}

LEMMA GotoIs ==
    ASSUME NEW r \in Socket, NEW q \in Request, NEW place \in Places,
           Goto(r, q, place)
    PROVE  \E n \in Request :
              /\ req' = [req EXCEPT ![r] = n]
              /\ n.at = place /\ n.op = q.op /\ n.m = q.m /\ n.new = q.new
              /\ n.todo = q.todo /\ n.seen = q.seen
              /\ n.cur = q.cur /\ n.depth = q.depth
  <1> DEFINE n == [q EXCEPT !.at = place]
  <1>1. /\ n \in Request /\ n.at = place /\ n.op = q.op /\ n.m = q.m
        /\ n.new = q.new /\ n.todo = q.todo /\ n.seen = q.seen
        /\ n.cur = q.cur /\ n.depth = q.depth
    BY DEF Request, Places
  <1> HIDE DEF n
  <1>2. req' = [req EXCEPT ![r] = n]  BY DEF Goto, n
  <1> QED BY <1>1, <1>2

LEMMA RefuseLeaves ==
    ASSUME NEW r \in Socket, Refuse(r) PROVE Leaves(r)
  BY IdleIsRequest DEF Refuse, Leaves, Becomes

\* A request that goes where its check does not matter any more.
LEMMA GotoLeaves ==
    ASSUME NEW r \in Socket, NEW q \in Request, Named(q),
           NEW place \in {"unlink", "restart", "switch"}, q.m \in Monitor,
           Goto(r, q, place)
    PROVE  Leaves(r)
  <1>1. PICK n \in Request :
              /\ req' = [req EXCEPT ![r] = n]
              /\ n.at = place /\ n.op = q.op /\ n.m = q.m /\ n.new = q.new
    BY GotoIs DEF Places
  <1>2. Named(n) /\ ~Checks(n)  BY <1>1 DEF Named, Checks
  <1> QED BY <1>1, <1>2 DEF Leaves, Becomes

\* An update, and for a new monitor its start, are left to do.
LEMMA TellLeaves ==
    ASSUME NEW r \in Socket, NEW q \in Request, Named(q), q.m \in Monitor, Tell(r, q)
    PROVE  Leaves(r)
  <1> DEFINE start == IF q.op = "add" THEN <<Step("start", q.m, TRUE)>> ELSE <<>>
  <1>1. <<>> \in Seq(Item)  OBVIOUS
  <1>2. <<Step("start", q.m, TRUE)>> \in Seq(Item)  BY <1>1, OneStepPlan
  <1>3. start \in Seq(Item)  BY <1>1, <1>2
  <1> HIDE DEF start
  <1>4. <<Step("read", q.m, TRUE)>> \o start \in Seq(Item)  BY <1>3, OneStepPlan
  <1>5. Rest(r, q, <<Step("read", q.m, TRUE)>> \o start)  BY DEF Tell, start
  <1> QED BY <1>4, <1>5, RestLeaves

\* The first of what is left to do.
LEMMA DoingItem ==
    ASSUME RequestsOK, NEW r \in Socket, NEW a, Doing(r, a)
    PROVE  /\ req[r] \in Request
           /\ Head(req[r].plan) \in Item /\ Head(req[r].plan).id \in Monitor
           /\ Head(req[r].plan).top \in BOOLEAN
           /\ Tail(req[r].plan) \in Seq(Item)
  <1>1. req[r] \in Request  BY DEF RequestsOK
  <1>2. req[r].plan \in Seq(Item) /\ req[r].plan # <<>>
    BY <1>1 DEF Request, Doing
  <1>3. Head(req[r].plan) \in Item /\ Tail(req[r].plan) \in Seq(Item)
    BY <1>2
  <1> QED BY <1>1, <1>3 DEF Item

LEMMA AdvanceLeaves ==
    ASSUME RequestsOK, NEW r \in Socket, Named(req[r]), NEW a, Doing(r, a), Advance(r)
    PROVE  Leaves(r)
  BY DoingItem, RestLeaves DEF Advance

\* Others go on knowing, as long as no monitor gets a child.
LEMMA AllKnow ==
    ASSUME Inv, NEW r \in Socket, Shrinks, Learns(r),
           changed' = [changed EXCEPT ![r] = @ /\ req'[r] # Idle]
    PROVE  RequestsOK' /\ \A s \in Socket : Knows(s)'
  <1>1. PICK n : Becomes(r, n) /\ (Checks(n) /\ ~changed[r] => Explored(tab', n))
    BY DEF Learns
  <1>2. RequestsOK' /\ req'[r] = n /\ \A s \in Socket \ {r} : req'[s] = req[s]
    BY <1>1 DEF Inv, RequestsOK, Becomes
  <1>3. /\ changed'[r] = (changed[r] /\ n # Idle)
        /\ \A s \in Socket \ {r} : changed'[s] = changed[s]
    BY <1>2 DEF Inv, FlagsOK
  <1>4. Knows(r)'
    <2>1. Checks(n) /\ ~changed'[r] => ~changed[r]
      BY <1>3, IdleIsRequest
    <2> QED BY <1>1, <1>2, <2>1 DEF Knows, Becomes
  <1>5. ASSUME NEW s \in Socket \ {r} PROVE Knows(s)'
    <2> DEFINE q == req[s]
    <2>1. q \in Request /\ Knows(s)  BY DEF Inv, RequestsOK
    <2>2. Checks(q) /\ ~changed[s] => Explored(tab', q)
      <3> SUFFICES ASSUME Checks(q), ~changed[s] PROVE Explored(tab', q)
        OBVIOUS
      <3>1. Explored(tab, q) /\ q.m \in Monitor
        BY <2>1 DEF Knows, Named, Checks
      <3>2. q.seen \subseteq Monitor  BY <2>1 DEF Request
      <3> QED BY <3>1, <3>2 DEF Explored, Shrinks
    <2>3. req'[s] = q /\ changed'[s] = changed[s]  BY <1>2, <1>3
    <2> QED BY <2>1, <2>2, <2>3 DEF Knows
  <1> QED BY <1>2, <1>4, <1>5
-----------------------------------------------------------------------------
(* The steps of a request that store no parent                             *)

\* What becomes of the parents.
Grows ==
    \/ Parents(tab') = Parents(tab)
    \/ \E g \in Monitor : Parents(tab') = F!Freed(Parents(tab), g)
    \/ \E m \in DOMAIN tab :
          Parents(tab') = [c \in DOMAIN tab \ {m} |-> F!Freed(Parents(tab), m)[c]]

Quietly(r) == ServerOK' /\ Shrinks /\ Learns(r) /\ Grows

LEMMA RequestIs ==
    ASSUME Inv, NEW r \in Socket
    PROVE  /\ req[r] \in Request /\ Named(req[r])
           /\ ServerOK /\ RequestsOK
           /\ Checks(req[r]) /\ ~changed[r] => Explored(tab, req[r])
  BY DEF Inv, RequestsOK, Knows

LEMMA Unchanged ==
    ASSUME Inv, NEW r \in Socket, UNCHANGED <<tab, born>>, Leaves(r)
    PROVE  Quietly(r)
  BY SameTable, LeavesLearns DEF Inv, Quietly, Grows

LEMMA FindToEditOK ==
    ASSUME Inv, NEW r \in Socket, FindToEdit(r), UNCHANGED born
    PROVE  Quietly(r)
  <1> DEFINE q == req[r]
             n == [q EXCEPT !.was = tab[q.m], !.todo = {q.m}, !.cur = q.new.parent]
  <1> USE RequestIs
  <1>1. q.op = "edit" /\ q.at = "find" /\ UNCHANGED tab  BY DEF FindToEdit
  <1>2. q.m \in Monitor /\ q.seen = {}  BY <1>1 DEF Named
  <1>3. CASE q.m \notin DOMAIN tab
    <2>1. Refuse(r)  BY <1>3 DEF FindToEdit
    <2> QED BY <1>1, <2>1, RefuseLeaves, Unchanged
  <1>4. CASE q.m \in DOMAIN tab
    <2>1. tab[q.m] \in Row  BY <1>4, TableValues DEF ServerOK
    <2>2. q.new.parent \in Monitor \cup {None}  BY DEF Request, Row
    <2>3. n \in Request /\ n.op = q.op /\ n.m = q.m /\ n.new = q.new
          /\ n.todo = {q.m} /\ n.seen = q.seen
      BY <1>2, <2>1, <2>2 DEF Request
    <2>4. Goto(r, n, IF q.new.parent = None THEN "store" ELSE "walk")
      BY <1>4 DEF FindToEdit
    <2> HIDE DEF n
    <2>5. PICK k \in Request :
              /\ req' = [req EXCEPT ![r] = k]
              /\ k.at = (IF q.new.parent = None THEN "store" ELSE "walk")
              /\ k.op = n.op /\ k.m = n.m /\ k.new = n.new
              /\ k.todo = n.todo /\ k.seen = n.seen
      BY <2>3, <2>4, GotoIs DEF Places
    <2>6. Named(k)  BY <1>1, <1>2, <2>3, <2>5 DEF Named
    <2>7. Checks(k) => Explored(tab', k)
      <3> SUFFICES ASSUME Checks(k) PROVE Explored(tab', k)  OBVIOUS
      <3>1. k.at = "walk"  BY <2>3, <2>5 DEF Checks
      <3> QED BY <1>2, <2>3, <2>5, <3>1 DEF Explored
    <2>8. Learns(r)  BY <2>5, <2>6, <2>7 DEF Learns, Becomes
    <2> QED BY <1>1, <2>8, SameTable DEF Quietly, Grows
  <1> QED BY <1>3, <1>4

LEMMA WalkOK ==
    ASSUME Inv, NEW r \in Socket, Walk(r), UNCHANGED born
    PROVE  Quietly(r)
  <1> DEFINE q == req[r]
             found(x) == ChildrenOf(tab, x) \ q.seen
             todo(x)  == (q.todo \ {x}) \cup found(x)
             seen(x)  == q.seen \cup found(x)
             n(x) == [q EXCEPT !.todo = todo(x), !.seen = seen(x)]
  <1> USE RequestIs
  <1>1. q.at = "walk" /\ UNCHANGED tab  BY DEF Walk
  <1>2. PICK x \in q.todo :
          IF todo(x) = {} /\ q.new.parent \in seen(x) THEN Refuse(r)
          ELSE Goto(r, n(x), IF todo(x) = {} THEN "depth" ELSE "walk")
    BY DEF Walk
  <1>3. CASE Refuse(r)
    BY <1>1, <1>3, RefuseLeaves, Unchanged
  <1>4. CASE /\ ~(todo(x) = {} /\ q.new.parent \in seen(x))
             /\ Goto(r, n(x), IF todo(x) = {} THEN "depth" ELSE "walk")
    <2>1. found(x) \subseteq Monitor  BY ChildrenAreMonitors
    <2>2. todo(x) \in SUBSET Monitor /\ seen(x) \in SUBSET Monitor
      BY <2>1 DEF Request
    <2>3. n(x) \in Request /\ n(x).op = q.op /\ n(x).m = q.m /\ n(x).new = q.new
          /\ n(x).todo = todo(x) /\ n(x).seen = seen(x)
      BY <2>2 DEF Request
    <2> HIDE DEF n
    <2>4. PICK k \in Request :
              /\ req' = [req EXCEPT ![r] = k]
              /\ k.at = (IF todo(x) = {} THEN "depth" ELSE "walk")
              /\ k.op = n(x).op /\ k.m = n(x).m /\ k.new = n(x).new
              /\ k.todo = n(x).todo /\ k.seen = n(x).seen
      <3>1. (IF todo(x) = {} THEN "depth" ELSE "walk") \in Places  BY DEF Places
      <3> HIDE DEF todo
      <3> QED BY <1>4, <2>3, <3>1, GotoIs
    <2>5. Named(k)  BY <2>3, <2>4 DEF Named
    <2>6. Checks(k) /\ ~changed[r] => Explored(tab', k)
      <3> SUFFICES ASSUME Checks(k), ~changed[r] PROVE Explored(tab', k)  OBVIOUS
      <3>1. Checks(q)  BY <1>1, <2>3, <2>4 DEF Checks
      <3>2. Explored(tab, q)  BY <3>1
      <3>3. ASSUME NEW y \in (seen(x) \cup {q.m}) \ todo(x)
            PROVE  ChildrenOf(tab, y) \subseteq seen(x)
        <4>1. CASE y = x  BY <4>1
        <4>2. CASE y # x
          <5>1. y \in (q.seen \cup {q.m}) \ q.todo  BY <3>3, <4>2
          <5> QED BY <3>2, <5>1 DEF Explored
        <4> QED BY <4>1, <4>2
      <3>4. k.at # "walk" => todo(x) = {} /\ q.new.parent \notin seen(x)
        BY <1>4, <2>4
      <3> QED BY <1>1, <2>3, <2>4, <3>3, <3>4 DEF Explored
    <2>7. Learns(r)  BY <2>4, <2>5, <2>6 DEF Learns, Becomes
    <2> QED BY <1>1, <2>7, SameTable DEF Quietly, Grows
  <1> QED BY <1>2, <1>3, <1>4

LEMMA NestingDepthOK ==
    ASSUME Inv, NEW r \in Socket, NestingDepth(r), UNCHANGED born
    PROVE  Quietly(r)
  <1> DEFINE q == req[r]
             depth == IF q.depth = MaxDepth THEN MaxDepth ELSE q.depth + 1
             up    == IF q.cur \in DOMAIN tab THEN tab[q.cur].parent ELSE None
             n     == [q EXCEPT !.cur = up, !.depth = depth]
             place == IF up = None THEN "store" ELSE "depth"
  <1> USE RequestIs
  <1>1. q.at = "depth" /\ UNCHANGED tab  BY DEF NestingDepth
  <1>2. Refuse(r) \/ Goto(r, n, place)  BY DEF NestingDepth
  <1>3. CASE Refuse(r)
    BY <1>1, <1>3, RefuseLeaves, Unchanged
  <1>4. CASE Goto(r, n, place)
    <2>1. depth \in 0 .. MaxDepth  BY TreeAssumption DEF Request
    <2>2. up \in Monitor \cup {None}
      <3>1. q.cur \in DOMAIN tab => tab[q.cur] \in Row  BY TableValues DEF ServerOK
      <3> QED BY <3>1 DEF Row
    <2>3. place \in Places /\ place \in {"store", "depth"}  BY DEF Places
    <2> HIDE DEF up, depth, place
    <2>4. n \in Request /\ n.op = q.op /\ n.m = q.m /\ n.new = q.new
          /\ n.todo = q.todo /\ n.seen = q.seen
      BY <2>1, <2>2 DEF Request
    <2> HIDE DEF n
    <2>5. PICK k \in Request :
              /\ req' = [req EXCEPT ![r] = k]
              /\ k.at = place /\ k.op = n.op /\ k.m = n.m /\ k.new = n.new
              /\ k.todo = n.todo /\ k.seen = n.seen
      BY <1>4, <2>3, <2>4, GotoIs
    <2>6. Named(k)  BY <2>3, <2>4, <2>5 DEF Named
    <2>7. Checks(k) /\ ~changed[r] => Explored(tab', k)
      <3> SUFFICES ASSUME Checks(k), ~changed[r] PROVE Explored(tab', k)  OBVIOUS
      <3>1. Checks(q)  BY <1>1, <2>4, <2>5 DEF Checks
      <3>2. Explored(tab, q)  BY <3>1
      <3> QED BY <1>1, <2>3, <2>4, <2>5, <3>2 DEF Explored
    <2>8. Learns(r)  BY <2>5, <2>6, <2>7 DEF Learns, Becomes
    <2> QED BY <1>1, <2>8, SameTable DEF Quietly, Grows
  <1> QED BY <1>2, <1>3, <1>4

LEMMA FindToDeleteOK ==
    ASSUME Inv, NEW r \in Socket, FindToDelete(r), UNCHANGED born
    PROVE  Quietly(r)
  <1> DEFINE q == req[r]
             last == <<Step("remove", q.m, TRUE)>>
             plan(s) == Each(s, "read", TRUE) \o last
             n(s) == [q EXCEPT !.plan = plan(s)]
  <1> USE RequestIs
  <1>1. q.at = "find" /\ UNCHANGED tab  BY DEF FindToDelete
  <1>2. q.m \in Monitor  BY <1>1 DEF Named
  <1>3. <<>> \in Seq(Item)  OBVIOUS
  <1>4. last \in Seq(Item)  BY <1>2, <1>3, OneStepPlan
  <1>5. CASE Rest(r, q, last)
    BY <1>1, <1>4, <1>5, RestLeaves, Unchanged
  <1>6. ASSUME NEW s \in SetToSeqs(ChildrenOf(tab, q.m)),
               \/ Rest(r, q, Each(s, "visit", TRUE) \o last)
               \/ Goto(r, n(s), "unlink")
        PROVE  Quietly(r)
    <2>1. s \in Seq(Monitor)  BY ChildrenInOrder, ChildrenAreMonitors
    <2>2. Each(s, "visit", TRUE) \in Seq(Item) /\ Each(s, "read", TRUE) \in Seq(Item)
      BY <2>1, EachIsPlan
    <2>3. Each(s, "visit", TRUE) \o last \in Seq(Item) /\ plan(s) \in Seq(Item)
      BY <1>4, <2>2, PlansInOrder
    <2> HIDE DEF last
    <2>4. CASE Rest(r, q, Each(s, "visit", TRUE) \o last)
      BY <1>1, <2>3, <2>4, RestLeaves, Unchanged
    <2>5. CASE Goto(r, n(s), "unlink")
      <3> HIDE DEF plan
      <3>1. n(s) \in Request /\ n(s).op = q.op /\ n(s).m = q.m /\ n(s).new = q.new
            /\ n(s).at = q.at /\ n(s).seen = q.seen
        BY <2>3 DEF Request
      <3>2. Named(n(s))  BY <3>1 DEF Named
      <3> HIDE DEF n
      <3> QED BY <1>1, <1>2, <2>5, <3>1, <3>2, GotoLeaves, Unchanged
    <2> QED BY <1>6, <2>4, <2>5
  <1> QED BY <1>5, <1>6 DEF FindToDelete

LEMMA UnlinkChildrenOK ==
    ASSUME Inv, NEW r \in Socket, UnlinkChildren(r), UNCHANGED born
    PROVE  Quietly(r)
  <1> DEFINE q == req[r]
  <1> USE RequestIs
  <1>1. q.at = "unlink" /\ tab' = Unlinked(tab, q.m)  BY DEF UnlinkChildren
  <1>2. q.m \in Monitor  BY <1>1 DEF Named
  <1>3. q.plan \in Seq(Item)  BY DEF Request
  <1>4. Leaves(r)
    BY <1>2, <1>3, GotoLeaves, RestLeaves DEF UnlinkChildren
  <1> QED BY <1>1, <1>2, <1>4, LeavesLearns, UnlinkedTable DEF Quietly, Grows

LEMMA ActivateOK ==
    ASSUME Inv, NEW r \in Socket, UNCHANGED born, Leaves(r),
           \/ UNCHANGED tab
           \/ \E m \in DOMAIN tab, a \in BOOLEAN :
                 tab' = [tab EXCEPT ![m] = [@ EXCEPT !.active = a]]
    PROVE  Quietly(r)
  BY Unchanged, RequestIs, ActiveTable, LeavesLearns DEF Quietly, Grows

LEMMA RestartOK ==
    ASSUME Inv, NEW r \in Socket, Restart(r), UNCHANGED born
    PROVE  Quietly(r)
  <1> DEFINE q == req[r]
             active == q.was.active /\ (q.m \in DOMAIN tab => ParentActive(tab, q.m) /\ Rises(tab, q.m))
  <1> USE RequestIs
  <1>1. q.m \in Monitor  BY DEF Restart, Named
  <1>2. CASE active /\ q.m \notin DOMAIN tab
    <2>1. Refuse(r) /\ UNCHANGED tab  BY <1>2 DEF Restart
    <2> QED BY <2>1, RefuseLeaves, ActivateOK
  <1>3. CASE ~(active /\ q.m \notin DOMAIN tab)
    <2>1. Tell(r, q)  BY <1>3 DEF Restart
    <2>2. \/ UNCHANGED tab
          \/ q.m \in DOMAIN tab /\ tab' = [tab EXCEPT ![q.m] = [@ EXCEPT !.active = TRUE]]
      BY <1>3 DEF Restart
    <2> QED BY <1>1, <2>1, <2>2, TellLeaves, ActivateOK
  <1> QED BY <1>2, <1>3

LEMMA SwitchOK ==
    ASSUME Inv, NEW r \in Socket, Switch(r), UNCHANGED born
    PROVE  Quietly(r)
  <1> DEFINE q == req[r]
  <1> USE RequestIs
  <1>1. q.m \in Monitor /\ q.new.active \in BOOLEAN
    BY DEF Switch, Named, Request, Row
  <1>2. CASE q.m \notin DOMAIN tab
    <2>1. Refuse(r) /\ UNCHANGED tab  BY <1>2 DEF Switch
    <2> QED BY <2>1, RefuseLeaves, ActivateOK
  <1>3. CASE q.m \in DOMAIN tab
    <2>1. Tell(r, q) /\ tab' = [tab EXCEPT ![q.m] = [@ EXCEPT !.active = q.new.active]]
      BY <1>3 DEF Switch
    <2> QED BY <1>1, <1>3, <2>1, TellLeaves, ActivateOK
  <1> QED BY <1>2, <1>3

LEMMA StartNewOK ==
    ASSUME Inv, NEW r \in Socket, StartNew(r), UNCHANGED born
    PROVE  Quietly(r)
  <1> DEFINE m == Head(req[r].plan).id
  <1> USE RequestIs
  <1>1. CASE m \notin DOMAIN tab
    <2>1. Refuse(r) /\ UNCHANGED tab  BY <1>1 DEF StartNew
    <2> QED BY <2>1, RefuseLeaves, ActivateOK
  <1>2. CASE m \in DOMAIN tab
    <2>1. /\ Advance(r) /\ Doing(r, "start")
          /\ tab' = [tab EXCEPT ![m] = [@ EXCEPT !.active = TRUE]]
      BY <1>2 DEF StartNew
    <2>2. Leaves(r)  BY <2>1, AdvanceLeaves
    <2> QED BY <1>2, <2>1, <2>2, ActivateOK
  <1> QED BY <1>1, <1>2

LEMMA VisitOK ==
    ASSUME Inv, NEW r \in Socket, Visit(r), UNCHANGED born
    PROVE  Quietly(r)
  <1> DEFINE q == req[r]
             x == Head(q.plan)
             children == IF x.id \in DOMAIN tab /\ tab[x.id].group
                         THEN ChildrenOf(tab, x.id) ELSE {}
             plan(s) == Each(s, "visit", FALSE) \o <<Step("remove", x.id, x.top)>>
                                                \o Tail(q.plan)
  <1> USE RequestIs
  <1>1. Doing(r, "visit") /\ UNCHANGED tab  BY DEF Visit
  <1>2. x.id \in Monitor /\ x.top \in BOOLEAN /\ Tail(q.plan) \in Seq(Item)
    BY <1>1, DoingItem
  <1>3. PICK s \in SetToSeqs(children) : Rest(r, q, plan(s))
    BY DEF Visit
  <1>4. children \in SUBSET Monitor  BY ChildrenAreMonitors
  <1>5. s \in Seq(Monitor)
    <2> HIDE DEF children
    <2> QED BY <1>4, ChildrenInOrder
  <1>6. Each(s, "visit", FALSE) \in Seq(Item)  BY <1>5, EachIsPlan
  <1>7. <<Step("remove", x.id, x.top)>> \in Seq(Item)  BY <1>2, OneStepPlan
  <1>8. plan(s) \in Seq(Item)
    <2> DEFINE one == <<Step("remove", x.id, x.top)>>
               all == Each(s, "visit", FALSE)
               tail == Tail(q.plan)
    <2>1. one \in Seq(Item) /\ all \in Seq(Item) /\ tail \in Seq(Item)
      BY <1>2, <1>6, <1>7
    <2>2. plan(s) = all \o one \o tail  OBVIOUS
    <2> HIDE DEF one, all, tail, plan
    <2> QED BY <2>1, <2>2
  <1> HIDE DEF plan
  <1> QED BY <1>1, <1>3, <1>8, RestLeaves, Unchanged

LEMMA ReadUpdateOK ==
    ASSUME Inv, NEW r \in Socket, ReadUpdate(r), UNCHANGED born
    PROVE  Quietly(r)
  <1> DEFINE q == req[r]
             m == Head(q.plan).id
             n == [q EXCEPT !.data = Updated(tab, m)]
  <1> USE RequestIs
  <1>1. Doing(r, "read") /\ UNCHANGED tab  BY DEF ReadUpdate
  <1>2. CASE m \notin DOMAIN tab
    <2>1. Advance(r)  BY <1>2 DEF ReadUpdate
    <2> QED BY <1>1, <2>1, AdvanceLeaves, Unchanged
  <1>3. CASE m \in DOMAIN tab
    <2>1. Updated(tab, m) \in Row  BY <1>3, UpdatedIsRow DEF ServerOK
    <2>2. m \in Monitor /\ Tail(q.plan) \in Seq(Item)  BY <1>1, DoingItem
    <2>3. <<Step("emit", m, TRUE)>> \o Tail(q.plan) \in Seq(Item)
      BY <2>2, OneStepPlan
    <2>4. Rest(r, n, <<Step("emit", m, TRUE)>> \o Tail(q.plan))
      BY <1>3 DEF ReadUpdate
    <2> HIDE DEF m
    <2>5. n \in Request /\ n.op = q.op /\ n.m = q.m /\ n.new = q.new
          /\ n.at = q.at /\ n.seen = q.seen
      BY <2>1 DEF Request
    <2>6. Named(n)  BY <2>5 DEF Named
    <2> HIDE DEF n
    <2> QED BY <1>1, <2>3, <2>4, <2>5, <2>6, RestLeaves, Unchanged
  <1> QED BY <1>2, <1>3

LEMMA RemoveRowOK ==
    ASSUME Inv, NEW r \in Socket, RemoveRow(r), UNCHANGED born
    PROVE  Quietly(r)
  <1> USE RequestIs
  <1>1. Leaves(r)  BY AdvanceLeaves DEF RemoveRow
  <1>2. tab' = Without(tab, Head(req[r].plan).id)  BY DEF RemoveRow
  <1> QED BY <1>1, <1>2, LeavesLearns, RemovedTable DEF Quietly, Grows

LEMMA EmitUpdateOK ==
    ASSUME Inv, NEW r \in Socket, EmitUpdate(r), UNCHANGED born
    PROVE  Quietly(r)
  <1> USE RequestIs
  <1>1. Leaves(r) /\ UNCHANGED tab  BY AdvanceLeaves DEF EmitUpdate
  <1> QED BY <1>1, Unchanged
-----------------------------------------------------------------------------
(* The steps that store a parent                                           *)

Adds(m, p) ==
    /\ m \in Monitor \ DOMAIN tab /\ p \in DOMAIN tab \cup {None}
    /\ Parents(tab') = [c \in DOMAIN tab \cup {m} |->
                          IF c = m THEN p ELSE Parents(tab)[c]]

Moves(m, p) ==
    /\ m \in DOMAIN tab /\ p \in DOMAIN tab \cup {None}
    /\ p # None => \E S \in SUBSET DOMAIN tab :
                      /\ m \in S /\ p \notin S
                      /\ \A c \in DOMAIN tab : tab[c].parent \in S => c \in S
    /\ Parents(tab') = [Parents(tab) EXCEPT ![m] = p]

\* What a step does to the table up to the first race.
TreeStep == Grows \/ \E m, p : Adds(m, p) \/ Moves(m, p)

\* The others' checks are out of date.
LEMMA StoredKnow ==
    ASSUME Inv, NEW r \in Socket, Leaves(r),
           changed' = [s \in Socket |-> (changed[s] \/ s # r) /\ req'[s] # Idle]
    PROVE  RequestsOK' /\ \A s \in Socket : Knows(s)'
  <1>1. PICK n : Becomes(r, n) /\ ~Checks(n)  BY DEF Leaves
  <1>2. RequestsOK' /\ req'[r] = n /\ \A s \in Socket \ {r} : req'[s] = req[s]
    BY <1>1 DEF Inv, RequestsOK, Becomes
  <1>3. Knows(r)'  BY <1>1, <1>2 DEF Knows, Becomes
  <1>4. ASSUME NEW s \in Socket \ {r} PROVE Knows(s)'
    <2>1. Knows(s) /\ req'[s] = req[s]  BY <1>2 DEF Inv
    <2>2. Checks(req[s]) => changed'[s]
      <3>1. Checks(req[s]) => req'[s] # Idle  BY <2>1, IdleIsRequest
      <3> QED BY <3>1
    <2> QED BY <2>1, <2>2 DEF Knows
  <1> QED BY <1>2, <1>3, <1>4

LEMMA StoreNewOK ==
    ASSUME Inv, NEW r \in Socket, StoreNew(r)
    PROVE  /\ ServerOK' /\ Leaves(r) /\ (raced => raced')
           /\ UNCHANGED <<tall, mistyped>>
           /\ TreeStep /\ (raced' \in {raced, raced \/ changed[r]})
  <1> DEFINE q == req[r]
             p == q.new.parent
             n(m) == [q EXCEPT !.m = m]
  <1> USE RequestIs
  <1>1. q.op = "add" /\ q.at = "store" /\ UNCHANGED <<tall, mistyped>>
    BY DEF StoreNew
  <1>2. PICK m \in Monitor \ born :
         IF Exists(p)
         THEN /\ tab' = [x \in DOMAIN tab \cup {m} |->
                            IF x = m THEN q.new ELSE tab[x]]
              /\ born' = born \cup {m}
              /\ raced' = (raced \/ changed[r])
              /\ Tell(r, n(m))
         ELSE Refuse(r) /\ UNCHANGED <<tab, born, raced>>
    BY DEF StoreNew
  <1>3. CASE ~Exists(p)
    <2>1. Refuse(r) /\ UNCHANGED <<tab, born, raced>>  BY <1>2, <1>3
    <2>2. Leaves(r)  BY <2>1, RefuseLeaves
    <2> QED BY <1>1, <2>1, <2>2, SameTable DEF TreeStep, Grows
  <1>4. CASE Exists(p)
    <2>1. /\ tab' = [x \in DOMAIN tab \cup {m} |-> IF x = m THEN q.new ELSE tab[x]]
          /\ born' = born \cup {m}
          /\ raced' = (raced \/ changed[r])
          /\ Tell(r, n(m))
      BY <1>2, <1>4
    <2>2. n(m) \in Request /\ n(m).op = q.op /\ n(m).m = m /\ n(m).new = q.new
          /\ n(m).at = q.at /\ n(m).seen = q.seen
      BY DEF Request
    <2>3. Named(n(m))  BY <1>1, <2>2 DEF Named
    <2> HIDE DEF n
    <2>4. Leaves(r)  BY <2>1, <2>2, <2>3, TellLeaves
    <2>5. q.new \in Row /\ p \in DOMAIN tab \cup {None}  BY <1>4 DEF Request, Exists
    <2>6. ServerOK' /\ Parents(tab') = [c \in DOMAIN tab \cup {m} |->
                                          IF c = m THEN p ELSE Parents(tab)[c]]
      BY <2>1, <2>5, AddedTable
    <2>7. m \in Monitor \ DOMAIN tab  BY DEF ServerOK
    <2>8. TreeStep  BY <2>5, <2>6, <2>7 DEF TreeStep, Adds
    <2> QED BY <1>1, <2>1, <2>4, <2>6, <2>8
  <1> QED BY <1>3, <1>4

LEMMA StoreEditOK ==
    ASSUME Inv, NEW r \in Socket, StoreEdit(r)
    PROVE  /\ ServerOK' /\ Leaves(r) /\ (raced => raced')
           /\ ~raced' /\ ~NamesItself(tab') => TreeStep
  <1> DEFINE q == req[r]
             p == q.new.parent
             place == IF q.was.group /\ ~q.new.group THEN "unlink" ELSE "restart"
  <1> USE RequestIs
  <1>1. q.op = "edit" /\ q.at = "store" /\ UNCHANGED born  BY DEF StoreEdit
  <1>2. q.m \in Monitor  BY <1>1 DEF Named
  <1>3. CASE q.m \in DOMAIN tab /\ ~Exists(p)
    <2>1. Refuse(r) /\ UNCHANGED <<tab, raced>>  BY <1>3 DEF StoreEdit
    <2>2. Leaves(r)  BY <2>1, RefuseLeaves
    <2> QED BY <1>1, <2>1, <2>2, SameTable DEF TreeStep, Grows
  <1>4. CASE ~(q.m \in DOMAIN tab /\ ~Exists(p))
    <2>1. Goto(r, q, place)  BY <1>4 DEF StoreEdit
    <2>2. Leaves(r)  BY <1>2, <2>1, GotoLeaves
    <2>3. CASE q.m \notin DOMAIN tab
      <3>1. UNCHANGED <<tab, raced>>  BY <1>4, <2>3 DEF StoreEdit
      <3> QED BY <1>1, <2>2, <3>1, SameTable DEF TreeStep, Grows
    <2>4. CASE q.m \in DOMAIN tab
      <3>1. /\ tab' = [tab EXCEPT ![q.m] = [@ EXCEPT !.parent = p,
                                                      !.group = q.new.group]]
            /\ raced' = (raced \/ (p # None /\ changed[r]))
        BY <1>4, <2>4 DEF StoreEdit
      <3>2. q.new.group \in BOOLEAN /\ p \in DOMAIN tab \cup {None}
        BY <1>4, <2>4 DEF Request, Row, Exists
      <3>3. ServerOK' /\ Parents(tab') = [Parents(tab) EXCEPT ![q.m] = p]
        BY <1>1, <2>4, <3>1, <3>2, MovedTable
      <3>6. ~NamesItself(tab') => p # q.m
        <4> DEFINE row == [tab[q.m] EXCEPT !.parent = p, !.group = q.new.group]
        <4>1. tab[q.m] \in Row  BY <2>4, TableValues DEF Inv, ServerOK
        <4>2. row.parent = p  BY <4>1 DEF Row
        <4>3. tab' = [tab EXCEPT ![q.m] = row]  BY <3>1
        <4> HIDE DEF row
        <4>4. q.m \in DOMAIN tab' /\ tab'[q.m] = row
          BY <2>4, <4>3, TableValues DEF Inv, ServerOK
        <4> QED BY <4>2, <4>4 DEF NamesItself
      <3>4. ASSUME ~raced', p # None, p # q.m
            PROVE  \E S \in SUBSET DOMAIN tab :
                      /\ q.m \in S /\ p \notin S
                      /\ \A c \in DOMAIN tab : tab[c].parent \in S => c \in S
        <4> DEFINE S == ({q.m} \cup q.seen) \cap DOMAIN tab
        <4>1. Checks(q) /\ ~changed[r]  BY <1>1, <3>1, <3>4 DEF Checks
        <4>2. Explored(tab, q)  BY <4>1
        <4>3. p \notin S  BY <1>1, <3>4, <4>2 DEF Explored
        <4>4. ASSUME NEW c \in DOMAIN tab, tab[c].parent \in S PROVE c \in S
          <5>1. tab[c].parent \in (q.seen \cup {q.m}) \ q.todo
            BY <1>1, <4>2, <4>4 DEF Explored
          <5>2. c \in ChildrenOf(tab, tab[c].parent)  BY DEF ChildrenOf
          <5> QED BY <4>2, <5>1, <5>2 DEF Explored
        <4> QED BY <2>4, <4>3, <4>4
      <3>5. ~raced' /\ ~NamesItself(tab') => Moves(q.m, p)
        BY <2>4, <3>2, <3>3, <3>4, <3>6 DEF Moves
      <3> QED BY <2>2, <3>1, <3>3, <3>5 DEF TreeStep
    <2> QED BY <2>3, <2>4
  <1> QED BY <1>3, <1>4

\* What a step remembers of loops.
LEMMA Loops ==
    ASSUME Inv, Remember
    PROVE  /\ looped' \in BOOLEAN
           /\ ~looped' => ~looped /\ ~NamesItself(tab')
  <1>1. NamesItself(tab') \in BOOLEAN  BY Zenon DEF NamesItself
  <1>2. looped' = (looped \/ NamesItself(tab'))  BY DEF Remember
  <1> QED BY <1>1, <1>2 DEF Inv, FlagsOK

\* What the table does up to the first race or loop is a step of the forest.
LEMMA ForestSteps ==
    ASSUME Inv, ServerOK', Remember, raced => raced',
           ~raced' /\ ~NamesItself(tab') => TreeStep
    PROVE  /\ Keeps'
           /\ kept' \in UNION {[S -> S \cup {None}] : S \in SUBSET Monitor}
           /\ F!Next \/ UNCHANGED kept
  <1>1. CASE raced' \/ looped'
    <2>1. UNCHANGED kept  BY <1>1 DEF Remember
    <2> QED BY <1>1, <2>1 DEF Keeps, Inv, GhostsOK
  <1>2. CASE ~raced' /\ ~looped'
    <2>0. ~looped /\ ~NamesItself(tab')  BY <1>2, Loops
    <2>1. kept' = Parents(tab') /\ kept = Parents(tab)
      BY <1>2, <2>0 DEF Remember, Inv, Keeps
    <2>2. Keeps'  BY <2>1 DEF Keeps
    <2>3. kept' \in UNION {[S -> S \cup {None}] : S \in SUBSET Monitor}
      <3> DEFINE S == DOMAIN tab'
      <3>1. S \in SUBSET Monitor  BY TableValues DEF ServerOK
      <3>2. kept' \in [S -> S \cup {None}]  BY <2>1 DEF ServerOK, Placed, Parents
      <3> HIDE DEF S
      <3> QED BY <3>1, <3>2
    <2>4. DOMAIN kept = DOMAIN tab /\ \A c \in DOMAIN tab : kept[c] = tab[c].parent
      BY <2>1 DEF Parents
    <2>5. DOMAIN tab \subseteq Monitor  BY TableValues DEF Inv, ServerOK
    <2>6. F!Next \/ UNCHANGED kept
      <3>1. CASE Parents(tab') = Parents(tab)  BY <2>1, <3>1
      <3>2. ASSUME NEW g \in Monitor, Parents(tab') = F!Freed(Parents(tab), g)
            PROVE  F!Next
        <4>1. F!Free(g)  BY <2>1, <3>2 DEF F!Free
        <4> QED BY <4>1 DEF F!Next
      <3>3. ASSUME NEW m \in DOMAIN tab,
                   Parents(tab') = [c \in DOMAIN tab \ {m} |-> F!Freed(Parents(tab), m)[c]]
            PROVE  F!Next
        <4>1. F!Remove(m)  BY <2>1, <2>4, <3>3 DEF F!Remove, F!Present
        <4> QED BY <2>5, <4>1 DEF F!Next
      <3>4. ASSUME NEW m, NEW p, Adds(m, p) PROVE F!Next
        <4>1. F!Add(m, p)
          BY <2>1, <2>4, <3>4 DEF Adds, F!Add, F!Present, F!Place
        <4>2. m \in Monitor /\ p \in Monitor \cup {None}  BY <2>5, <3>4 DEF Adds
        <4> QED BY <4>1, <4>2 DEF F!Next
      <3>5. ASSUME NEW m, NEW p, Moves(m, p) PROVE F!Next
        <4>1. p # None => F!Apart(p, m)
          BY <2>4, <3>5 DEF Moves, F!Apart, F!ClosedBelow, F!Present
        <4>2. F!Move(m, p)
          BY <2>1, <2>4, <3>5, <4>1 DEF Moves, F!Move, F!Present, F!Place
        <4>3. m \in Monitor /\ p \in Monitor \cup {None}  BY <2>5, <3>5 DEF Moves
        <4> QED BY <4>2, <4>3 DEF F!Next
      <3>6. TreeStep  BY <1>2, <2>0
      <3> QED BY <3>1, <3>2, <3>3, <3>4, <3>5, <3>6 DEF TreeStep, Grows
    <2> QED BY <2>2, <2>3, <2>6
  <1> QED BY <1>1, <1>2
-----------------------------------------------------------------------------
(* Beginnings                                                              *)

LEMMA MirrorMonitors == ASSUME Inv PROVE DOMAIN mirror \subseteq Monitor
  BY TableValues DEF Inv, ClientOK

LEMMA OffersAre ==
    ASSUME Inv, NEW p \in Offers PROVE p \in Monitor \cup {None}
  BY MirrorMonitors DEF Offers

LEMMA FreshRows ==
    ASSUME NEW p \in Monitor \cup {None}, NEW g \in BOOLEAN
    PROVE  /\ [Fresh EXCEPT !.parent = p, !.group = g] \in Row
           /\ [Fresh EXCEPT !.parent = p, !.group = g].parent = p
           /\ [Fresh EXCEPT !.active = g] \in Row
  <1> DEFINE row == Fresh
  <1>1. row \in Row  BY FreshIsRow
  <1> HIDE DEF row
  <1>2. /\ [row EXCEPT !.parent = p, !.group = g] \in Row
        /\ [row EXCEPT !.parent = p, !.group = g].parent = p
        /\ [row EXCEPT !.active = g] \in Row
    BY <1>1 DEF Row
  <1> QED BY <1>2 DEF row

\* A request that begins has nothing to know yet.
LEMMA BegunOK ==
    ASSUME Inv, NEW r \in Socket, NEW q \in Request, Named(q), ~Checks(q),
           BeginAs(r, q)
    PROVE  /\ ServerOK' /\ RequestsOK' /\ (\A s \in Socket : Knows(s)')
           /\ UNCHANGED <<tab, raced>> /\ requests' \in Nat
           /\ UNCHANGED <<clientVars, tall, mistyped, late, silent>>
           /\ changed' \in [Socket -> BOOLEAN]
  <1>1. UNCHANGED <<tab, born>> /\ req' = [req EXCEPT ![r] = q]
    BY DEF BeginAs
  <1>2. ServerOK'  BY <1>1, SameTable DEF Inv
  <1>3. RequestsOK' /\ req'[r] = q /\ \A s \in Socket \ {r} : req'[s] = req[s]
    BY <1>1 DEF Inv, RequestsOK
  <1>4. changed' = [changed EXCEPT ![r] = Stale(q.new.parent)]  BY DEF BeginAs
  <1>5. Stale(q.new.parent) \in BOOLEAN  BY Zenon DEF Stale
  <1>6. /\ changed' \in [Socket -> BOOLEAN]
        /\ \A s \in Socket \ {r} : changed'[s] = changed[s]
    <2> DEFINE b == Stale(q.new.parent)
    <2>1. changed' = [changed EXCEPT ![r] = b] /\ b \in BOOLEAN  BY <1>4, <1>5
    <2> HIDE DEF b
    <2> QED BY <2>1 DEF Inv, FlagsOK
  <1>7. Knows(r)'  BY <1>3 DEF Knows
  <1>8. ASSUME NEW s \in Socket \ {r} PROVE Knows(s)'
    <2>1. Knows(s) /\ req'[s] = req[s] /\ changed'[s] = changed[s] /\ tab' = tab
      BY <1>1, <1>3, <1>6 DEF Inv
    <2> QED BY <2>1 DEF Knows
  <1>9. requests' \in Nat  BY DEF BeginAs, Inv, ClientOK
  <1> QED BY <1>1, <1>2, <1>3, <1>6, <1>7, <1>8, <1>9 DEF BeginAs

LEMMA BeginOK ==
    ASSUME Inv, NEW r \in Socket, Begin(r)
    PROVE  /\ ServerOK' /\ RequestsOK' /\ (\A s \in Socket : Knows(s)')
           /\ UNCHANGED <<tab, raced>> /\ requests' \in Nat
           /\ UNCHANGED <<clientVars, tall, mistyped, late, silent>>
           /\ changed' \in [Socket -> BOOLEAN]
  <1> DEFINE idle == Idle
  <1>1. /\ idle \in Request /\ idle.seen = {} /\ idle.m = None /\ idle.at = "none"
        /\ idle.op = "none"
    BY IdleIsRequest DEF Idle
  <1>2. CASE BeginAdd(r)
    <2>1. PICK p \in Offers, g \in BOOLEAN :
            BeginAs(r, [Idle EXCEPT
              !.op = "add", !.at = IF p = None THEN "store" ELSE "depth",
              !.new = [Fresh EXCEPT !.parent = p, !.group = g], !.cur = p])
      BY <1>2 DEF BeginAdd
    <2> DEFINE row == [Fresh EXCEPT !.parent = p, !.group = g]
               at == IF p = None THEN "store" ELSE "depth"
               q == [idle EXCEPT !.op = "add", !.at = at, !.new = row, !.cur = p]
    <2>2. p \in Monitor \cup {None}  BY OffersAre
    <2>3. row \in Row  BY <2>2, FreshRows
    <2>4. at \in {"store", "depth"}  OBVIOUS
    <2>5. BeginAs(r, q)  BY <2>1
    <2> HIDE DEF idle, row, at
    <2>6. q \in Request /\ q.op = "add" /\ q.at = at
      BY <1>1, <2>2, <2>3, <2>4 DEF Request
    <2>7. Named(q) /\ ~Checks(q)  BY <2>4, <2>6 DEF Named, Checks
    <2> HIDE DEF q
    <2> QED BY <2>5, <2>6, <2>7, BegunOK
  <1>3. CASE BeginEdit(r)
    <2>1. PICK m \in DOMAIN mirror, g \in BOOLEAN, p \in Offers :
            BeginAs(r, [Idle EXCEPT
              !.op = "edit", !.at = "find", !.m = m,
              !.new = [Fresh EXCEPT !.parent = p, !.group = g]])
      BY <1>3 DEF BeginEdit
    <2> DEFINE row == [Fresh EXCEPT !.parent = p, !.group = g]
               q == [idle EXCEPT !.op = "edit", !.at = "find", !.m = m, !.new = row]
    <2>3. m \in Monitor  BY MirrorMonitors
    <2>4. p \in Monitor \cup {None}  BY OffersAre
    <2>5. row \in Row /\ row.parent = p  BY <2>4, FreshRows
    <2>6. BeginAs(r, q)  BY <2>1
    <2> HIDE DEF idle, row
    <2>7. q \in Request /\ q.op = "edit" /\ q.at = "find" /\ q.m = m /\ q.new = row
          /\ q.seen = {}
      BY <1>1, <2>3, <2>5 DEF Request
    <2>8. Named(q) /\ ~Checks(q)  BY <2>3, <2>4, <2>5, <2>7 DEF Named, Checks
    <2> HIDE DEF q
    <2> QED BY <2>6, <2>7, <2>8, BegunOK
  <1>4. CASE BeginDelete(r)
    <2>1. PICK m \in DOMAIN mirror, all \in BOOLEAN :
            BeginAs(r, [Idle EXCEPT !.op = IF all THEN "deleteAll" ELSE "delete",
                                    !.at = "find", !.m = m])
      BY <1>4 DEF BeginDelete
    <2> DEFINE op == IF all THEN "deleteAll" ELSE "delete"
               q == [idle EXCEPT !.op = op, !.at = "find", !.m = m]
    <2>2. m \in Monitor /\ op \in {"delete", "deleteAll"}  BY MirrorMonitors
    <2>3. BeginAs(r, q)  BY <2>1
    <2> HIDE DEF idle, op
    <2>4. q \in Request /\ q.op = op /\ q.at = "find" /\ q.m = m /\ q.seen = {}
      BY <1>1, <2>2 DEF Request
    <2>5. Named(q) /\ ~Checks(q)  BY <2>2, <2>4 DEF Named, Checks
    <2> HIDE DEF q
    <2> QED BY <2>3, <2>4, <2>5, BegunOK
  <1>5. CASE BeginSwitch(r)
    <2>1. PICK m \in DOMAIN mirror, a \in BOOLEAN :
            BeginAs(r, [Idle EXCEPT !.op = "switch", !.at = "switch", !.m = m,
                                    !.new = [Fresh EXCEPT !.active = a]])
      BY <1>5 DEF BeginSwitch
    <2> DEFINE row == [Fresh EXCEPT !.active = a]
               q == [idle EXCEPT !.op = "switch", !.at = "switch", !.m = m, !.new = row]
    <2>2. m \in Monitor  BY MirrorMonitors
    <2>3. row \in Row  BY FreshRows
    <2>4. BeginAs(r, q)  BY <2>1
    <2> HIDE DEF idle, row
    <2>5. q \in Request /\ q.op = "switch" /\ q.at = "switch" /\ q.m = m
      BY <1>1, <2>2, <2>3 DEF Request
    <2>6. Named(q) /\ ~Checks(q)  BY <2>2, <2>5 DEF Named, Checks
    <2> HIDE DEF q
    <2> QED BY <2>4, <2>5, <2>6, BegunOK
  <1> QED BY <1>2, <1>3, <1>4, <1>5 DEF Begin
-----------------------------------------------------------------------------
(* Clients                                                                 *)

LEMMA NothingIsTable == Nothing \in Table
  <1>1. DOMAIN Nothing \in SUBSET Monitor
        /\ Nothing = [m \in DOMAIN Nothing |-> Nothing[m]]
        /\ \A m \in DOMAIN Nothing : Nothing[m] \in Row
    BY DEF Nothing
  <1> QED BY <1>1, TableFromValues

\* A copy without a row.
LEMMA MirrorWithout ==
    ASSUME NEW t \in Table, NEW i PROVE [m \in DOMAIN t \ {i} |-> t[m]] \in Table
  <1> DEFINE u == [m \in DOMAIN t \ {i} |-> t[m]]
  <1>1. DOMAIN u \in SUBSET Monitor /\ u = [m \in DOMAIN u |-> u[m]]
        /\ \A m \in DOMAIN u : u[m] \in Row
    BY TableValues
  <1> HIDE DEF u
  <1>2. u \in Table  BY <1>1, TableFromValues
  <1> QED BY <1>2 DEF u

\* A copy with a row more, or another row.
LEMMA MirrorWith ==
    ASSUME NEW t \in Table, NEW i \in Monitor, NEW row \in Row
    PROVE  [m \in DOMAIN t \cup {i} |-> IF m = i THEN row ELSE t[m]] \in Table
  <1> DEFINE u == [m \in DOMAIN t \cup {i} |-> IF m = i THEN row ELSE t[m]]
  <1>1. DOMAIN u \in SUBSET Monitor /\ u = [m \in DOMAIN u |-> u[m]]
        /\ \A m \in DOMAIN u : u[m] \in Row
    BY TableValues
  <1> HIDE DEF u
  <1>2. u \in Table  BY <1>1, TableFromValues
  <1> QED BY <1>2 DEF u

LEMMA AnnounceOK ==
    ASSUME Inv, NEW r \in Socket, Announce(r)
    PROVE  /\ mirror' \in Table /\ late' \in BOOLEAN /\ silent' \in SUBSET Monitor
           /\ UNCHANGED raced
  <1>1. CASE RemoveRow(r)
    <2> DEFINE x == Head(req[r].plan)
    <2>1. x.id \in Monitor  BY <1>1, DoingItem, RequestIs DEF RemoveRow
    <2>2. silent' = silent \/ silent' = silent \cup {x.id}  BY <1>1 DEF RemoveRow
    <2>3. mirror' = mirror \/ mirror' = [m \in DOMAIN mirror \ {x.id} |-> mirror[m]]
      BY <1>1 DEF RemoveRow
    <2> HIDE DEF x
    <2>4. mirror' \in Table  BY <2>3, MirrorWithout DEF Inv, ClientOK
    <2>5. silent' \in SUBSET Monitor  BY <2>1, <2>2 DEF Inv, GhostsOK
    <2> QED BY <1>1, <2>4, <2>5 DEF RemoveRow, Inv, FlagsOK
  <1>2. CASE EmitUpdate(r)
    <2> DEFINE m == Head(req[r].plan).id
               d == req[r].data
    <2>1. m \in Monitor /\ req[r] \in Request  BY <1>2, DoingItem, RequestIs DEF EmitUpdate
    <2>2. d \in Row  BY <2>1 DEF Request
    <2>3. \/ mirror' = mirror
          \/ mirror' = [x \in DOMAIN mirror \cup {m} |-> IF x = m THEN d ELSE mirror[x]]
      BY <1>2 DEF EmitUpdate
    <2>4. late' \in BOOLEAN  BY <1>2, Zenon DEF EmitUpdate
    <2> HIDE DEF m, d
    <2>5. mirror' \in Table  BY <2>1, <2>2, <2>3, MirrorWith DEF Inv, ClientOK
    <2> QED BY <1>2, <2>4, <2>5 DEF EmitUpdate, Inv, GhostsOK
  <1> QED BY <1>1, <1>2 DEF Announce

LEMMA ConnectionOK ==
    ASSUME Inv, Connection
    PROVE  ClientOK' /\ connected' \in BOOLEAN /\ late' \in BOOLEAN
  <1>1. requests' \in Nat  BY DEF Connection, serverVars, Inv, ClientOK
  <1>2. CASE Disconnect
    <2>1. connected' \in BOOLEAN  BY <1>2, Zenon DEF Disconnect
    <2>2. drops' \in Nat  BY <1>2 DEF Disconnect, Inv, ClientOK
    <2>3. list' \in [at : {"none", "due", "read"}, data : Table]
      BY <1>2, NothingIsTable DEF Disconnect
    <2>4. UNCHANGED <<mirror, late>>  BY <1>2 DEF Disconnect
    <2> QED BY <1>1, <2>1, <2>2, <2>3, <2>4 DEF Inv, ClientOK, FlagsOK
  <1>3. CASE Reconnect
    <2>1. connected' \in BOOLEAN  BY <1>3, Zenon DEF Reconnect
    <2>2. list' \in [at : {"none", "due", "read"}, data : Table]
      BY <1>3, NothingIsTable DEF Reconnect
    <2>3. UNCHANGED <<drops, mirror, late>>  BY <1>3 DEF Reconnect
    <2> QED BY <1>1, <2>1, <2>2, <2>3 DEF Inv, ClientOK, FlagsOK
  <1>4. CASE ReadList
    <2>1. list' \in [at : {"none", "due", "read"}, data : Table]
      BY <1>4, ListedIsTable DEF ReadList, Inv, ServerOK
    <2>2. UNCHANGED <<connected, drops, mirror, late>>  BY <1>4 DEF ReadList
    <2> QED BY <1>1, <2>1, <2>2 DEF Inv, ClientOK, FlagsOK
  <1>5. CASE EmitList
    <2>1. list' \in [at : {"none", "due", "read"}, data : Table]
      BY <1>5, NothingIsTable DEF EmitList
    <2>2. mirror' \in Table  BY <1>5 DEF EmitList, Inv, ClientOK
    <2>3. late' \in BOOLEAN  BY <1>5, Zenon DEF EmitList
    <2>4. UNCHANGED <<connected, drops>>  BY <1>5 DEF EmitList
    <2> QED BY <1>1, <2>1, <2>2, <2>3, <2>4 DEF Inv, ClientOK, FlagsOK
  <1> QED BY <1>2, <1>3, <1>4, <1>5 DEF Connection

\* What has been below a request's monitor are monitors.
LEMMA UnderMonitors ==
    ASSUME NEW t \in Table, NEW S \in SUBSET Monitor
    PROVE  Under(t, S) \in SUBSET Monitor
  <1>1. DOMAIN t \cup S \subseteq Monitor  BY TableValues
  <1> QED BY <1>1 DEF Under

LEMMA UnderOK ==
    ASSUME Inv, ServerOK', RequestsOK', \A r \in Socket : Knows(r)', Remember
    PROVE  under' \in [Socket -> SUBSET Monitor]
  <1>1. ASSUME NEW r \in Socket, req'[r].op = "deleteAll"
        PROVE  Under(tab', under[r] \cup {req'[r].m}) \in SUBSET Monitor
    <2>1. req'[r].m \in Monitor  BY <1>1 DEF Knows, Named
    <2>2. under[r] \cup {req'[r].m} \in SUBSET Monitor  BY <2>1 DEF Inv, GhostsOK
    <2>3. tab' \in Table  BY DEF ServerOK
    <2> QED BY <2>2, <2>3, UnderMonitors
  <1> QED BY <1>1 DEF Remember
-----------------------------------------------------------------------------
(* The invariant                                                           *)

LEMMA InitOK == Init => Inv /\ F!Init /\ F!Acyclic
  <1> SUFFICES ASSUME Init PROVE Inv /\ F!Init /\ F!Acyclic  OBVIOUS
  <1> USE DEF Init
  <1>1. tab \in Table /\ \A m \in DOMAIN tab : tab[m].parent \in DOMAIN tab \cup {None}
    BY TreeAssumption, StartAssumption
  <1>2. ServerOK  BY <1>1, TableValues DEF ServerOK, Placed
  <1>3. RequestsOK /\ \A r \in Socket : Knows(r)
    BY IdleIsRequest DEF RequestsOK, Knows
  <1>4. ClientOK  BY <1>1, NothingIsTable, ListedIsTable DEF ClientOK
  <1>5. FlagsOK  BY Zenon DEF FlagsOK
  <1>6. kept \in UNION {[S -> S \cup {None}] : S \in SUBSET Monitor}
    <2> DEFINE S == DOMAIN tab
    <2>1. S \in SUBSET Monitor  BY <1>1, TableValues
    <2>2. kept \in [S -> S \cup {None}]  BY <1>1 DEF Parents
    <2> HIDE DEF S
    <2> QED BY <2>1, <2>2
  <1>7. GhostsOK
    <2>1. silent \in SUBSET Monitor /\ under \in [Socket -> SUBSET Monitor]
      OBVIOUS
    <2> QED BY <1>6, <2>1 DEF GhostsOK
  <1>8. Keeps  BY DEF Keeps
  <1>9. F!Acyclic  BY StartAssumption DEF F!Acyclic, F!Present, Parents
  <1> QED BY <1>2, <1>3, <1>4, <1>5, <1>6, <1>7, <1>8, <1>9 DEF Inv, F!Init

\* A step of a request that stores no parent.
LEMMA QuietlyOK ==
    ASSUME Inv, NEW r \in Socket, Quiet(r) \/ Announce(r), UNCHANGED born
    PROVE  Quietly(r) /\ UNCHANGED raced
  <1>1. CASE Quiet(r)
    <2>1. Quietly(r)
      BY <1>1, FindToEditOK, FindToDeleteOK, WalkOK, NestingDepthOK, UnlinkChildrenOK,
         RestartOK, SwitchOK, StartNewOK, VisitOK, ReadUpdateOK DEF Quiet
    <2>2. UNCHANGED raced
      BY <1>1 DEF Quiet, FindToEdit, FindToDelete, Walk, NestingDepth, UnlinkChildren,
         Restart, Switch, StartNew, Visit, ReadUpdate
    <2> QED BY <2>1, <2>2
  <1>2. CASE Announce(r)
    BY <1>2, RemoveRowOK, EmitUpdateOK, AnnounceOK DEF Announce
  <1> QED BY <1>1, <1>2

\* What a step does to the server and to the forest.
LEMMA ServerSteps ==
    ASSUME Inv, Next
    PROVE  /\ ServerOK' /\ RequestsOK' /\ \A r \in Socket : Knows(r)'
           /\ (raced => raced') /\ (~raced' /\ ~NamesItself(tab') => TreeStep)
  <1>1. ASSUME NEW r \in Socket, Begin(r)
        PROVE  /\ ServerOK' /\ RequestsOK' /\ \A s \in Socket : Knows(s)'
               /\ UNCHANGED raced /\ TreeStep
    BY <1>1, BeginOK DEF TreeStep, Grows
  <1>2. ASSUME NEW r \in Socket, Store(r)
        PROVE  /\ ServerOK' /\ RequestsOK' /\ \A s \in Socket : Knows(s)'
               /\ (raced => raced') /\ (~raced' /\ ~NamesItself(tab') => TreeStep)
    BY <1>2, StoreNewOK, StoreEditOK, StoredKnow DEF Store
  <1>3. ASSUME NEW r \in Socket, Quiet(r) \/ Announce(r), UNCHANGED born,
               changed' = [changed EXCEPT ![r] = @ /\ req'[r] # Idle]
        PROVE  /\ ServerOK' /\ RequestsOK' /\ \A s \in Socket : Knows(s)'
               /\ UNCHANGED raced /\ TreeStep
    BY <1>3, QuietlyOK, AllKnow DEF Quietly, TreeStep
  <1>4. ASSUME Connection
        PROVE  /\ ServerOK' /\ RequestsOK' /\ \A s \in Socket : Knows(s)'
               /\ UNCHANGED raced /\ TreeStep
    <2>1. UNCHANGED <<tab, born, req, changed, raced>>
      BY <1>4 DEF Connection, serverVars
    <2>2. ServerOK' /\ TreeStep  BY <2>1, SameTable DEF Inv, TreeStep, Grows
    <2>3. RequestsOK' /\ \A s \in Socket : Knows(s)'
      BY <2>1 DEF Inv, RequestsOK, Knows
    <2> QED BY <2>1, <2>2, <2>3
  <1> QED BY <1>1, <1>2, <1>3, <1>4 DEF Next, Go

\* And to the rest.
LEMMA ClientSteps ==
    ASSUME Inv, Next
    PROVE  ClientOK' /\ FlagsOK' /\ silent' \in SUBSET Monitor
  <1>0. looped' \in BOOLEAN  BY Loops DEF Next
  <1>1. ASSUME NEW r \in Socket, Begin(r)
        PROVE  ClientOK' /\ FlagsOK' /\ silent' \in SUBSET Monitor
    <2>1. /\ requests' \in Nat /\ changed' \in [Socket -> BOOLEAN]
          /\ UNCHANGED <<connected, drops, list, mirror, tall, mistyped, late,
                        silent, raced>>
      BY <1>1, BeginOK DEF clientVars
    <2> QED BY <1>0, <2>1 DEF Inv, ClientOK, FlagsOK, GhostsOK
  <1>2. ASSUME NEW r \in Socket, Store(r)
        PROVE  ClientOK' /\ FlagsOK' /\ silent' \in SUBSET Monitor
    <2>1. /\ UNCHANGED <<requests, connected, drops, list, mirror, late, silent>>
          /\ changed' = [s \in Socket |-> (changed[s] \/ s # r) /\ req'[s] # Idle]
      BY <1>2 DEF Store, clientVars
    <2>2. \A s \in Socket : ((changed[s] \/ s # r) /\ req'[s] # Idle) \in BOOLEAN
      BY Zenon
    <2>3. changed' \in [Socket -> BOOLEAN]
      BY <2>1, <2>2, Zenon
    <2>4. raced' \in BOOLEAN /\ tall' \in BOOLEAN /\ mistyped' \in BOOLEAN
      <3>1. CASE StoreNew(r)
        <4>1. UNCHANGED <<tall, mistyped>> /\ raced' \in {raced, raced \/ changed[r]}
          BY <3>1, StoreNewOK
        <4>2. (raced \/ changed[r]) \in BOOLEAN  BY Zenon
        <4> QED BY <4>1, <4>2 DEF Inv, FlagsOK
      <3>2. CASE StoreEdit(r)
        <4> DEFINE q == req[r]
                   a == raced \/ (q.new.parent # None /\ changed[r])
                   b == tall \/ (q.new.parent # None /\ ChildrenOf(tab, q.m) # {})
                   c == mistyped \/ ( /\ tab[q.m].group /\ ~q.new.group
                                      /\ ~(q.was.group /\ ~q.new.group))
        <4>1. a \in BOOLEAN /\ b \in BOOLEAN /\ c \in BOOLEAN  BY Zenon
        <4>2. raced' \in {raced, a} /\ tall' \in {tall, b} /\ mistyped' \in {mistyped, c}
          BY <3>2, Zenon DEF StoreEdit
        <4> HIDE DEF a, b, c
        <4> QED BY <4>1, <4>2 DEF Inv, FlagsOK
      <3> QED BY <1>2, <3>1, <3>2 DEF Store
    <2> QED BY <1>0, <2>1, <2>3, <2>4 DEF Inv, ClientOK, FlagsOK, GhostsOK
  <1>3. ASSUME NEW r \in Socket, Quiet(r) \/ Announce(r),
               changed' = [changed EXCEPT ![r] = @ /\ req'[r] # Idle],
               UNCHANGED <<born, requests, connected, drops, list, tall, mistyped>>
        PROVE  ClientOK' /\ FlagsOK' /\ silent' \in SUBSET Monitor
    <2>1. changed' \in [Socket -> BOOLEAN]
      <3> DEFINE b == changed[r] /\ req'[r] # Idle
      <3>1. b \in BOOLEAN  BY Zenon
      <3>2. changed' = [changed EXCEPT ![r] = b]  BY <1>3
      <3> HIDE DEF b
      <3> QED BY <3>1, <3>2 DEF Inv, FlagsOK
    <2>2. /\ mirror' \in Table /\ late' \in BOOLEAN /\ silent' \in SUBSET Monitor
          /\ UNCHANGED raced
      <3>1. CASE Quiet(r)
        <4>1. UNCHANGED <<mirror, late, silent>>  BY <3>1 DEF Quiet
        <4>2. UNCHANGED raced  BY <1>3, <3>1, QuietlyOK
        <4> QED BY <4>1, <4>2 DEF Inv, ClientOK, FlagsOK, GhostsOK
      <3>2. CASE Announce(r)  BY <3>2, AnnounceOK
      <3> QED BY <1>3, <3>1, <3>2
    <2> QED BY <1>0, <1>3, <2>1, <2>2 DEF Inv, ClientOK, FlagsOK
  <1>4. ASSUME Connection
        PROVE  ClientOK' /\ FlagsOK' /\ silent' \in SUBSET Monitor
    BY <1>0, <1>4, ConnectionOK DEF Connection, Inv, FlagsOK, GhostsOK
  <1> QED BY <1>1, <1>2, <1>3, <1>4 DEF Next, Go

LEMMA NextOK == Inv /\ [Next]_vars => Inv' /\ [F!Next]_kept
  <1> SUFFICES ASSUME Inv, [Next]_vars PROVE Inv' /\ (F!Next \/ UNCHANGED kept)
    OBVIOUS
  <1>1. CASE Next
    <2>1. Remember  BY <1>1 DEF Next
    <2>2. /\ ServerOK' /\ RequestsOK' /\ \A r \in Socket : Knows(r)'
          /\ (raced => raced') /\ (~raced' /\ ~NamesItself(tab') => TreeStep)
      BY <1>1, ServerSteps
    <2>3. /\ Keeps'
          /\ kept' \in UNION {[S -> S \cup {None}] : S \in SUBSET Monitor}
          /\ F!Next \/ UNCHANGED kept
      BY <2>1, <2>2, ForestSteps
    <2>4. ClientOK' /\ FlagsOK' /\ silent' \in SUBSET Monitor
      BY <1>1, ClientSteps
    <2>5. under' \in [Socket -> SUBSET Monitor]  BY <2>1, <2>2, UnderOK
    <2> QED BY <2>2, <2>3, <2>4, <2>5 DEF Inv, GhostsOK
  <1>2. CASE UNCHANGED vars
    <2>1. ServerOK' /\ RequestsOK' /\ \A r \in Socket : Knows(r)'
      BY <1>2 DEF vars, Inv, ServerOK, Placed, RequestsOK, Knows
    <2>2. ClientOK' /\ FlagsOK' /\ GhostsOK' /\ Keeps'
      BY <1>2 DEF vars, Inv, ClientOK, FlagsOK, GhostsOK, Keeps
    <2> QED BY <1>2, <2>1, <2>2 DEF vars, Inv
  <1> QED BY <1>1, <1>2

LEMMA AlwaysInv == Spec => []Inv
  BY InitOK, NextOK, PTL DEF Spec
-----------------------------------------------------------------------------
(* The theorems                                                            *)

\* The variables of the tree have their types (server.js 735-1210).
THEOREM TreeTypes == Spec => []TypeOK
  <1>1. Inv => TypeOK
    BY DEF Inv, ServerOK, RequestsOK, ClientOK, FlagsOK, GhostsOK, TypeOK
  <1> QED BY <1>1, AlwaysInv, PTL

\* For any monitors and requests, the check for descendants, which is made
\* query by query (server.js 855-867), implements a forest that is checked and
\* changed in one step, up to the first store that overtook a check and the first
\* monitor that was made its own parent, which the check does not refuse.
THEOREM TreeImplementsForest == Spec => Implements
  <1>1. Spec => F!Init /\ F!Acyclic  BY InitOK, PTL DEF Spec
  <1>2. Spec => [][F!Next]_kept
    BY InitOK, NextOK, PTL DEF Spec
  <1> QED BY <1>1, <1>2, PTL DEF Implements, F!Spec
-----------------------------------------------------------------------------
(* Only groups have children                                               *)

\* The children of m are about to be unlinked.
Pending(m) == \E r \in Socket : /\ req[r].op = "edit" /\ req[r].at = "unlink"
                                /\ req[r].m = m

\* A request that is to store the parent it was given.
Chooses(q) == q.at \in {"find", "walk", "depth", "store"}

\* As long as no other request stored a monitor, that parent is a group.
Chosen(r) ==
    Chooses(req[r]) /\ ~changed[r] /\ req[r].new.parent \in DOMAIN tab
        => tab[req[r].new.parent].group

GroupInv ==
    /\ \A r \in Socket : Chosen(r)
    /\ ~raced /\ ~mistyped =>
         \A m \in DOMAIN tab :
            tab[m].parent # None => tab[tab[m].parent].group \/ Pending(tab[m].parent)

\* Rows may go, and parents be forgotten; types stay.
Sheds ==
    /\ DOMAIN tab' \subseteq DOMAIN tab
    /\ \A x \in DOMAIN tab' : /\ tab'[x].group = tab[x].group
                              /\ tab'[x].parent \in {tab[x].parent, None}

LEMMA ActiveSheds ==
    ASSUME ServerOK, NEW m \in DOMAIN tab, NEW a \in BOOLEAN,
           tab' = [tab EXCEPT ![m] = [@ EXCEPT !.active = a]]
    PROVE  Sheds
  <1> DEFINE row == [tab[m] EXCEPT !.active = a]
  <1>1. tab[m] \in Row  BY TableValues DEF ServerOK
  <1>2. row.group = tab[m].group /\ row.parent = tab[m].parent  BY <1>1 DEF Row
  <1>3. tab' = [tab EXCEPT ![m] = row]  OBVIOUS
  <1> HIDE DEF row
  <1>4. DOMAIN tab' = DOMAIN tab /\ tab'[m] = row
        /\ \A x \in DOMAIN tab \ {m} : tab'[x] = tab[x]
    BY <1>3, TableValues DEF ServerOK
  <1> QED BY <1>2, <1>4 DEF Sheds

LEMMA UnlinkedSheds ==
    ASSUME ServerOK, NEW g, tab' = Unlinked(tab, g)
    PROVE  Sheds /\ (g # None => ChildrenOf(tab', g) = {})
  <1>1. DOMAIN tab' = DOMAIN tab  BY DEF Unlinked
  <1>2. \A x \in DOMAIN tab :
          /\ tab'[x].group = tab[x].group
          /\ tab'[x].parent = IF tab[x].parent = g THEN None ELSE tab[x].parent
    <2> TAKE x \in DOMAIN tab
    <2>1. tab[x] \in Row  BY TableValues DEF ServerOK
    <2>2. tab'[x] = IF tab[x].parent = g THEN [tab[x] EXCEPT !.parent = None]
                    ELSE tab[x]
      BY DEF Unlinked
    <2> QED BY <2>1, <2>2 DEF Row
  <1> QED BY <1>1, <1>2 DEF Sheds, ChildrenOf

LEMMA RemovedSheds ==
    ASSUME ServerOK, NEW m, tab' = Without(tab, m) PROVE Sheds
  <1>1. DOMAIN tab' = DOMAIN tab \ {m}  BY DEF Without
  <1>2. \A x \in DOMAIN tab' :
          /\ tab'[x].group = tab[x].group
          /\ tab'[x].parent \in {tab[x].parent, None}
    <2> TAKE x \in DOMAIN tab'
    <2>1. tab[x] \in Row  BY <1>1, TableValues DEF ServerOK
    <2>2. tab'[x] = IF tab[x].parent = m THEN [tab[x] EXCEPT !.parent = None]
                    ELSE tab[x]
      BY <1>1 DEF Without
    <2> QED BY <2>1, <2>2 DEF Row
  <1> QED BY <1>1, <1>2 DEF Sheds

\* What a request goes on with when its plan changes.
LEMMA RestIs ==
    ASSUME NEW r \in Socket, NEW q \in Request, NEW plan \in Seq(Item),
           Rest(r, q, plan)
    PROVE  \E n \in Request :
              /\ req' = [req EXCEPT ![r] = n]
              /\ \/ n = Idle /\ plan = <<>>
                 \/ n.at = "rest" /\ n.op = q.op /\ n.m = q.m /\ n.plan = plan
  <1> DEFINE n == [q EXCEPT !.at = "rest", !.plan = plan]
  <1>1. n \in Request /\ n.at = "rest" /\ n.op = q.op /\ n.m = q.m /\ n.plan = plan
    BY DEF Request
  <1> HIDE DEF n
  <1>2. req' = [req EXCEPT ![r] = IF plan = <<>> THEN Idle ELSE n]
    BY DEF Rest, n
  <1> QED BY <1>1, <1>2, IdleIsRequest

\* What a step of r that stores nothing makes of its choice.
Minds(r) ==
    \E n : /\ req' = [req EXCEPT ![r] = n]
           /\ Chooses(n) => Chooses(req[r]) /\ n.new = req[r].new

LEMMA IdleChooses == ~Chooses(Idle)
  BY DEF Idle, Chooses

LEMMA RefuseMinds == ASSUME NEW r, Refuse(r) PROVE Minds(r)
  BY IdleChooses DEF Refuse, Minds

LEMMA RestMinds ==
    ASSUME NEW r \in Socket, NEW q \in Request, NEW plan, Rest(r, q, plan)
    PROVE  Minds(r)
  <1> DEFINE n == IF plan = <<>> THEN Idle
                  ELSE [q EXCEPT !.at = "rest", !.plan = plan]
  <1>1. req' = [req EXCEPT ![r] = n]  BY DEF Rest
  <1>2. [q EXCEPT !.at = "rest", !.plan = plan].at = "rest"
    BY DEF Request
  <1>3. ~Chooses(n)  BY <1>2, IdleChooses DEF Chooses
  <1> HIDE DEF n
  <1> QED BY <1>1, <1>3 DEF Minds

LEMMA TellMinds ==
    ASSUME NEW r \in Socket, NEW q \in Request, Tell(r, q) PROVE Minds(r)
  BY RestMinds DEF Tell

LEMMA GotoMinds ==
    ASSUME NEW r \in Socket, NEW q \in Request, NEW place \in Places,
           Goto(r, q, place),
           place \in {"find", "walk", "depth", "store"}
              => Chooses(req[r]) /\ q.new = req[r].new
    PROVE  Minds(r)
  <1>1. PICK n \in Request :
              /\ req' = [req EXCEPT ![r] = n]
              /\ n.at = place /\ n.op = q.op /\ n.m = q.m /\ n.new = q.new
    BY GotoIs
  <1>2. Chooses(n) => place \in {"find", "walk", "depth", "store"}
    BY <1>1 DEF Chooses
  <1> QED BY <1>1, <1>2 DEF Minds, Chooses

LEMMA SameSheds == ASSUME UNCHANGED tab PROVE Sheds
  BY DEF Sheds

\* Whose children remain, if a request was about to unlink them.
Frees(r) == req[r].op = "edit" /\ req[r].at = "unlink" =>
               /\ req[r].m # None
               /\ ChildrenOf(tab', req[r].m) = {}

LEMMA QuietSheds ==
    ASSUME Inv, NEW r \in Socket, Quiet(r) \/ Announce(r)
    PROVE  Sheds /\ Minds(r) /\ Frees(r)
  <1> DEFINE q == req[r]
  <1> USE RequestIs
  <1>1. CASE FindToEdit(r)
    <2> DEFINE n == [q EXCEPT !.was = tab[q.m], !.todo = {q.m}, !.cur = q.new.parent]
               place == IF q.new.parent = None THEN "store" ELSE "walk"
    <2>1. q.op = "edit" /\ q.at = "find" /\ UNCHANGED tab  BY <1>1 DEF FindToEdit
    <2>2. CASE q.m \notin DOMAIN tab
      <3>1. Refuse(r)  BY <1>1, <2>2 DEF FindToEdit
      <3> QED BY <2>1, <3>1, SameSheds, RefuseMinds DEF Frees
    <2>3. CASE q.m \in DOMAIN tab
      <3>1. tab[q.m] \in Row /\ q.m \in Monitor  BY <2>1, <2>3, TableValues DEF ServerOK, Named
      <3>2. q.new.parent \in Monitor \cup {None}  BY DEF Request, Row
      <3>3. n \in Request /\ n.new = q.new  BY <3>1, <3>2 DEF Request
      <3>4. Goto(r, n, place)  BY <1>1, <2>3 DEF FindToEdit
      <3>5. place \in Places /\ Chooses(q)  BY <2>1 DEF Places, Chooses
      <3> HIDE DEF n, place
      <3>6. Minds(r)  BY <3>3, <3>4, <3>5, GotoMinds
      <3> QED BY <2>1, <3>6, SameSheds DEF Frees
    <2> QED BY <2>2, <2>3
  <1>2. CASE FindToDelete(r)
    <2> DEFINE last == <<Step("remove", q.m, TRUE)>>
               n(s) == [q EXCEPT !.plan = Each(s, "read", TRUE) \o last]
    <2>1. q.at = "find" /\ UNCHANGED tab  BY <1>2 DEF FindToDelete
    <2>2. \/ \E plan : Rest(r, q, plan)
          \/ \E s \in SetToSeqs(ChildrenOf(tab, q.m)) : Goto(r, n(s), "unlink")
      BY <1>2 DEF FindToDelete
    <2>3. ASSUME NEW plan, Rest(r, q, plan) PROVE Minds(r)
      BY <2>3, RestMinds
    <2>4. ASSUME NEW s \in SetToSeqs(ChildrenOf(tab, q.m)), Goto(r, n(s), "unlink")
          PROVE  Minds(r)
      <3>1. q.m \in Monitor /\ <<>> \in Seq(Item)  BY <2>1 DEF Named
      <3>2. last \in Seq(Item)  BY <3>1, OneStepPlan
      <3>3. Each(s, "read", TRUE) \in Seq(Item)
        BY ChildrenInOrder, ChildrenAreMonitors, EachIsPlan
      <3> HIDE DEF last
      <3>4. Each(s, "read", TRUE) \o last \in Seq(Item)  BY <3>2, <3>3, PlansInOrder
      <3>5. n(s) \in Request  BY <3>4 DEF Request
      <3> HIDE DEF n
      <3> QED BY <2>4, <3>5, GotoMinds DEF Places
    <2> QED BY <2>1, <2>2, <2>3, <2>4, SameSheds DEF Frees
  <1>3. CASE Walk(r)
    <2> DEFINE found(x) == ChildrenOf(tab, x) \ q.seen
               todo(x)  == (q.todo \ {x}) \cup found(x)
               seen(x)  == q.seen \cup found(x)
               n(x) == [q EXCEPT !.todo = todo(x), !.seen = seen(x)]
               place(x) == IF todo(x) = {} THEN "depth" ELSE "walk"
    <2>1. q.at = "walk" /\ UNCHANGED tab  BY <1>3 DEF Walk
    <2>2. PICK x \in q.todo : Refuse(r) \/ Goto(r, n(x), place(x))
      BY <1>3 DEF Walk
    <2>3. CASE Goto(r, n(x), place(x))
      <3>1. found(x) \subseteq Monitor  BY ChildrenAreMonitors
      <3>2. todo(x) \in SUBSET Monitor /\ seen(x) \in SUBSET Monitor
        BY <3>1 DEF Request
      <3>3. n(x) \in Request /\ n(x).new = q.new  BY <3>2 DEF Request
      <3>4. place(x) \in Places  BY DEF Places
      <3>5. Chooses(q)  BY <2>1 DEF Chooses
      <3> HIDE DEF n, place
      <3>6. Minds(r)  BY <2>3, <3>3, <3>4, <3>5, GotoMinds
      <3> QED BY <2>1, <3>6, SameSheds DEF Frees
    <2> QED BY <2>1, <2>2, <2>3, RefuseMinds, SameSheds DEF Frees
  <1>4. CASE NestingDepth(r)
    <2> DEFINE depth == IF q.depth = MaxDepth THEN MaxDepth ELSE q.depth + 1
               up    == IF q.cur \in DOMAIN tab THEN tab[q.cur].parent ELSE None
               n     == [q EXCEPT !.cur = up, !.depth = depth]
               place == IF up = None THEN "store" ELSE "depth"
    <2>1. q.at = "depth" /\ UNCHANGED tab  BY <1>4 DEF NestingDepth
    <2>2. Refuse(r) \/ Goto(r, n, place)  BY <1>4 DEF NestingDepth
    <2>3. CASE Goto(r, n, place)
      <3>1. depth \in 0 .. MaxDepth  BY TreeAssumption DEF Request
      <3>2. up \in Monitor \cup {None}
        <4>1. q.cur \in DOMAIN tab => tab[q.cur] \in Row  BY TableValues DEF ServerOK
        <4> QED BY <4>1 DEF Row
      <3>3. place \in Places  BY DEF Places
      <3> HIDE DEF up, depth, place
      <3>4. n \in Request /\ n.new = q.new  BY <3>1, <3>2 DEF Request
      <3>5. Chooses(q)  BY <2>1 DEF Chooses
      <3> HIDE DEF n
      <3>6. Minds(r)  BY <2>3, <3>3, <3>4, <3>5, GotoMinds
      <3> QED BY <2>1, <3>6, SameSheds DEF Frees
    <2> QED BY <2>1, <2>2, <2>3, RefuseMinds, SameSheds DEF Frees
  <1>5. CASE UnlinkChildren(r)
    <2>1. q.at = "unlink" /\ tab' = Unlinked(tab, q.m)  BY <1>5 DEF UnlinkChildren
    <2>2. q.m \in Monitor  BY <2>1 DEF Named
    <2>3. Sheds /\ ChildrenOf(tab', q.m) = {}
      BY <2>1, <2>2, UnlinkedSheds, TreeAssumption
    <2>4. Minds(r)
      <3>1. Goto(r, q, "restart") \/ Rest(r, q, q.plan)  BY <1>5 DEF UnlinkChildren
      <3> QED BY <3>1, GotoMinds, RestMinds DEF Places
    <2> QED BY <2>2, <2>3, <2>4, TreeAssumption DEF Frees
  <1>6. CASE Restart(r)
    <2> DEFINE active == q.was.active /\ (q.m \in DOMAIN tab => ParentActive(tab, q.m) /\ Rises(tab, q.m))
    <2>1. q.at = "restart"  BY <1>6 DEF Restart
    <2>2. \/ Refuse(r) /\ UNCHANGED tab
          \/ /\ Tell(r, q)
             /\ \/ UNCHANGED tab
                \/ /\ q.m \in DOMAIN tab
                   /\ tab' = [tab EXCEPT ![q.m] = [@ EXCEPT !.active = TRUE]]
      <3>1. CASE active /\ q.m \notin DOMAIN tab  BY <1>6, <3>1 DEF Restart
      <3>2. CASE ~(active /\ q.m \notin DOMAIN tab)  BY <1>6, <3>2 DEF Restart
      <3> QED BY <3>1, <3>2
    <2> QED BY <2>1, <2>2, RefuseMinds, TellMinds, SameSheds, ActiveSheds DEF Frees
  <1>7. CASE Switch(r)
    <2>1. q.at = "switch" /\ q.new.active \in BOOLEAN
      BY <1>7 DEF Switch, Request, Row
    <2>2. \/ Refuse(r) /\ UNCHANGED tab
          \/ /\ Tell(r, q) /\ q.m \in DOMAIN tab
             /\ tab' = [tab EXCEPT ![q.m] = [@ EXCEPT !.active = q.new.active]]
      BY <1>7 DEF Switch
    <2> QED BY <2>1, <2>2, RefuseMinds, TellMinds, SameSheds, ActiveSheds DEF Frees
  <1>8. CASE StartNew(r)
    <2> DEFINE m == Head(q.plan).id
    <2>1. q.at = "rest"  BY <1>8 DEF StartNew, Doing
    <2>2. \/ Refuse(r) /\ UNCHANGED tab
          \/ /\ Rest(r, q, Tail(q.plan)) /\ m \in DOMAIN tab
             /\ tab' = [tab EXCEPT ![m] = [@ EXCEPT !.active = TRUE]]
      BY <1>8 DEF StartNew, Advance
    <2> HIDE DEF m
    <2> QED BY <2>1, <2>2, RefuseMinds, RestMinds, SameSheds, ActiveSheds DEF Frees
  <1>9. CASE Visit(r)
    <2>1. q.at = "rest" /\ UNCHANGED tab  BY <1>9 DEF Visit, Doing
    <2>2. \E plan : Rest(r, q, plan)  BY <1>9 DEF Visit
    <2> QED BY <2>1, <2>2, RestMinds, SameSheds DEF Frees
  <1>10. CASE ReadUpdate(r)
    <2> DEFINE m == Head(q.plan).id
               n == [q EXCEPT !.data = Updated(tab, m)]
    <2>1. q.at = "rest" /\ UNCHANGED tab  BY <1>10 DEF ReadUpdate, Doing
    <2>2. CASE m \notin DOMAIN tab
      <3>1. Rest(r, q, Tail(q.plan))  BY <1>10, <2>2 DEF ReadUpdate, Advance
      <3> QED BY <2>1, <3>1, RestMinds, SameSheds DEF Frees
    <2>3. CASE m \in DOMAIN tab
      <3>1. \E plan : Rest(r, n, plan)  BY <1>10, <2>3 DEF ReadUpdate
      <3>2. Updated(tab, m) \in Row  BY <2>3, UpdatedIsRow DEF ServerOK
      <3> HIDE DEF m
      <3>3. n \in Request  BY <3>2 DEF Request
      <3> HIDE DEF n
      <3> QED BY <2>1, <3>1, <3>3, RestMinds, SameSheds DEF Frees
    <2> QED BY <2>2, <2>3
  <1>11. CASE RemoveRow(r)
    <2>1. /\ q.at = "rest" /\ Rest(r, q, Tail(q.plan))
          /\ tab' = Without(tab, Head(q.plan).id)
      BY <1>11 DEF RemoveRow, Doing, Advance
    <2> QED BY <2>1, RestMinds, RemovedSheds DEF Frees
  <1>12. CASE EmitUpdate(r)
    <2>1. q.at = "rest" /\ Rest(r, q, Tail(q.plan)) /\ UNCHANGED tab
      BY <1>12 DEF EmitUpdate, Doing, Advance
    <2> QED BY <2>1, RestMinds, SameSheds DEF Frees
  <1> QED BY <1>1, <1>2, <1>3, <1>4, <1>5, <1>6, <1>7, <1>8, <1>9, <1>10, <1>11,
             <1>12 DEF Quiet, Announce

\* Nobody else's children stop being about to be unlinked.
LEMMA PendingStays ==
    ASSUME RequestsOK, NEW r \in Socket, NEW n, req' = [req EXCEPT ![r] = n],
           NEW m, Pending(m),
           ~(req[r].op = "edit" /\ req[r].at = "unlink" /\ req[r].m = m)
    PROVE  Pending(m)'
  <1>1. PICK s \in Socket : req[s].op = "edit" /\ req[s].at = "unlink" /\ req[s].m = m
    BY DEF Pending
  <1>2. s # r  BY <1>1
  <1>3. req'[s] = req[s]  BY <1>2 DEF RequestsOK
  <1> QED BY <1>1, <1>3 DEF Pending

LEMMA GroupBegin ==
    ASSUME Inv, GroupInv, NEW r \in Socket, Begin(r)
    PROVE  GroupInv'
  <1>1. PICK q : BeginAs(r, q)
    BY DEF Begin, BeginAdd, BeginEdit, BeginDelete, BeginSwitch
  <1>2. /\ UNCHANGED <<tab, raced, mistyped>> /\ req' = [req EXCEPT ![r] = q]
        /\ req[r] = Idle /\ changed' = [changed EXCEPT ![r] = Stale(q.new.parent)]
    BY <1>1 DEF BeginAs
  <1>3. req'[r] = q /\ changed'[r] = Stale(q.new.parent)
        /\ \A s \in Socket \ {r} : req'[s] = req[s] /\ changed'[s] = changed[s]
    BY <1>2 DEF Inv, RequestsOK, FlagsOK
  <1>4. ASSUME NEW s \in Socket PROVE Chosen(s)'
    <2>1. CASE s = r
      <3>1. None \notin DOMAIN tab  BY TableValues, TreeAssumption DEF Inv, ServerOK
      <3> QED BY <1>2, <1>3, <2>1, <3>1 DEF Chosen, Stale
    <2>2. CASE s # r  BY <1>2, <1>3, <2>2 DEF Chosen, GroupInv
    <2> QED BY <2>1, <2>2
  <1>5. \A m : Pending(m) => Pending(m)'
    <2>1. req[r].at # "unlink"  BY <1>2 DEF Idle
    <2> QED BY <1>2, <2>1, PendingStays DEF Inv
  <1> QED BY <1>2, <1>4, <1>5 DEF GroupInv

\* The others' choices are out of date after a store, and its own is made.
LEMMA StoredChosen ==
    ASSUME Inv, NEW r \in Socket, NEW n, req' = [req EXCEPT ![r] = n], ~Chooses(n),
           changed' = [s \in Socket |-> (changed[s] \/ s # r) /\ req'[s] # Idle]
    PROVE  \A s \in Socket : Chosen(s)'
  <1> TAKE s \in Socket
  <1>1. req'[r] = n  BY DEF Inv, RequestsOK
  <1>2. CASE s = r  BY <1>1, <1>2 DEF Chosen
  <1>3. CASE s # r
    <2>1. Chooses(req'[s]) => req'[s] # Idle  BY IdleChooses
    <2> QED BY <1>3, <2>1 DEF Chosen
  <1> QED BY <1>2, <1>3

\* A request that has stored a monitor has made its choice.
LEMMA StoreNewEnds ==
    ASSUME Inv, NEW r \in Socket, StoreNew(r)
    PROVE  \E k : req' = [req EXCEPT ![r] = k] /\ ~Chooses(k)
  <1> DEFINE q == req[r]
             p == q.new.parent
             n(m) == [q EXCEPT !.m = m]
  <1> USE RequestIs
  <1>1. PICK m \in Monitor \ born :
         IF Exists(p) THEN Tell(r, n(m)) ELSE Refuse(r)
    BY DEF StoreNew
  <1>2. n(m) \in Request  BY DEF Request
  <1>3. CASE Exists(p)
    <2> HIDE DEF n
    <2>1. PICK plan : Rest(r, n(m), plan)  BY <1>1, <1>3 DEF Tell
    <2> DEFINE k == IF plan = <<>> THEN Idle
                    ELSE [n(m) EXCEPT !.at = "rest", !.plan = plan]
    <2>2. req' = [req EXCEPT ![r] = k]  BY <2>1 DEF Rest
    <2>3. [n(m) EXCEPT !.at = "rest", !.plan = plan].at = "rest"
      BY <1>2 DEF Request
    <2>4. ~Chooses(k)  BY <2>3, IdleChooses DEF Chooses
    <2> HIDE DEF k
    <2> QED BY <2>2, <2>4
  <1>4. CASE ~Exists(p)  BY <1>1, <1>4, IdleChooses DEF Refuse
  <1> QED BY <1>3, <1>4

LEMMA StoreEditEnds ==
    ASSUME Inv, NEW r \in Socket, StoreEdit(r)
    PROVE  \E k : req' = [req EXCEPT ![r] = k] /\ ~Chooses(k)
  <1> DEFINE q == req[r]
             place == IF q.was.group /\ ~q.new.group THEN "unlink" ELSE "restart"
  <1>1. Refuse(r) \/ Goto(r, q, place)  BY DEF StoreEdit
  <1>2. CASE Refuse(r)  BY <1>2, IdleChooses DEF Refuse
  <1>3. CASE Goto(r, q, place)
    <2>1. place \in Places /\ place \in {"unlink", "restart"}  BY DEF Places
    <2> HIDE DEF place
    <2> QED BY <1>3, <2>1, RequestIs, GotoIs DEF Chooses
  <1> QED BY <1>1, <1>2, <1>3

LEMMA GroupStoreNew ==
    ASSUME Inv, GroupInv, NEW r \in Socket, StoreNew(r), ServerOK',
           changed' = [s \in Socket |-> (changed[s] \/ s # r) /\ req'[s] # Idle]
    PROVE  GroupInv'
  <1> DEFINE q == req[r]
             p == q.new.parent
             n(m) == [q EXCEPT !.m = m]
  <1> USE RequestIs
  <1>1. q.op = "add" /\ q.at = "store" /\ UNCHANGED mistyped  BY DEF StoreNew
  <1>2. PICK m \in Monitor \ born :
         IF Exists(p)
         THEN /\ tab' = [x \in DOMAIN tab \cup {m} |->
                            IF x = m THEN q.new ELSE tab[x]]
              /\ raced' = (raced \/ changed[r])
              /\ Tell(r, n(m))
         ELSE Refuse(r) /\ UNCHANGED <<tab, raced>>
    BY DEF StoreNew
  <1>4. PICK k : req' = [req EXCEPT ![r] = k] /\ ~Chooses(k)  BY StoreNewEnds
  <1>5. \A s \in Socket : Chosen(s)'  BY <1>4, StoredChosen
  <1>6. \A x : Pending(x) => Pending(x)'  BY <1>1, <1>4, PendingStays
  <1>7. ASSUME ~raced', ~mistyped', NEW x \in DOMAIN tab', NEW z,
               z = tab'[x].parent, z # None
        PROVE  tab'[z].group \/ Pending(z)'
    <2>1. CASE ~Exists(p)  BY <1>1, <1>2, <1>6, <1>7, <2>1, Zenon DEF GroupInv
    <2>2. CASE Exists(p)
      <3>1. /\ tab' = [y \in DOMAIN tab \cup {m} |-> IF y = m THEN q.new ELSE tab[y]]
            /\ ~raced /\ ~changed[r] /\ ~mistyped
        BY <1>1, <1>2, <1>7, <2>2
      <3>2. m \notin DOMAIN tab  BY DEF ServerOK
      <3>3. CASE x = m
        <4>1. tab'[x].parent = p /\ p \in DOMAIN tab  BY <1>7, <2>2, <3>1, <3>3 DEF Exists
        <4>2. tab[p].group  BY <1>1, <3>1, <4>1 DEF GroupInv, Chosen, Chooses
        <4> QED BY <1>7, <3>1, <3>2, <4>1, <4>2
      <3>4. CASE x # m
        <4>1. x \in DOMAIN tab /\ tab'[x] = tab[x]  BY <3>1, <3>4
        <4>2. tab[x].parent \in DOMAIN tab  BY <1>7, <4>1 DEF ServerOK, Placed
        <4>3. tab'[tab[x].parent] = tab[tab[x].parent]  BY <3>1, <3>2, <4>2
        <4> QED BY <1>6, <1>7, <3>1, <4>1, <4>3 DEF GroupInv
      <3> QED BY <3>3, <3>4
    <2> QED BY <2>1, <2>2
  <1> QED BY <1>5, <1>7 DEF GroupInv, Pending

LEMMA GroupStoreEdit ==
    ASSUME Inv, GroupInv, NEW r \in Socket, StoreEdit(r), ServerOK',
           changed' = [s \in Socket |-> (changed[s] \/ s # r) /\ req'[s] # Idle]
    PROVE  GroupInv'
  <1> DEFINE q == req[r]
             p == q.new.parent
             unlinks == q.was.group /\ ~q.new.group
             place == IF unlinks THEN "unlink" ELSE "restart"
  <1> USE RequestIs
  <1>1. q.op = "edit" /\ q.at = "store"  BY DEF StoreEdit
  <1>3. PICK k : /\ req' = [req EXCEPT ![r] = k] /\ ~Chooses(k)
                 /\ Goto(r, q, place) => k.at = place /\ k.op = q.op /\ k.m = q.m
    <2>1. CASE Goto(r, q, place)
      <3>1. place \in Places /\ place \in {"unlink", "restart"}  BY DEF Places
      <3> HIDE DEF place
      <3> QED BY <2>1, <3>1, GotoIs DEF Chooses
    <2>2. CASE ~Goto(r, q, place)
      <3>1. Refuse(r)  BY <2>2 DEF StoreEdit
      <3> QED BY <2>2, <3>1, IdleChooses DEF Refuse
    <2> QED BY <2>1, <2>2
  <1>4. \A s \in Socket : Chosen(s)'  BY <1>3, StoredChosen
  <1>5. \A x : Pending(x) => Pending(x)'  BY <1>1, <1>3, PendingStays
  <1>6. ASSUME ~raced', ~mistyped', NEW x \in DOMAIN tab', NEW z,
               z = tab'[x].parent, z # None
        PROVE  tab'[z].group \/ Pending(z)'
    <2>1. CASE UNCHANGED <<tab, raced, mistyped>>
      BY <1>5, <1>6, <2>1 DEF GroupInv
    <2>2. CASE ~UNCHANGED <<tab, raced, mistyped>>
      <3>1. q.m \in DOMAIN tab /\ Exists(p)  BY <2>2 DEF StoreEdit
      <3>2. /\ Goto(r, q, place)
            /\ tab' = [tab EXCEPT ![q.m] = [@ EXCEPT !.parent = p,
                                                      !.group = q.new.group]]
            /\ raced' = (raced \/ (p # None /\ changed[r]))
            /\ mistyped' = (mistyped \/ ( /\ tab[q.m].group
                                          /\ ~q.new.group /\ ~unlinks))
        BY <3>1 DEF StoreEdit
      <3> DEFINE row == [tab[q.m] EXCEPT !.parent = p, !.group = q.new.group]
      <3>3. tab[q.m] \in Row  BY <3>1, TableValues DEF ServerOK
      <3>4. row.parent = p /\ row.group = q.new.group  BY <3>3 DEF Row
      <3>5. tab' = [tab EXCEPT ![q.m] = row]  BY <3>2
      <3> HIDE DEF row
      <3>6. /\ DOMAIN tab' = DOMAIN tab /\ tab'[q.m] = row
            /\ \A y \in DOMAIN tab \ {q.m} : tab'[y] = tab[y]
        BY <3>1, <3>5, TableValues DEF ServerOK
      <3>7. ~raced /\ ~mistyped  BY <1>6, <3>2
      <3>8. PICK y \in DOMAIN tab : y = z /\ (tab[y].group \/ Pending(y))
        <4>1. CASE x = q.m
          <5>1. z = p /\ p \in DOMAIN tab /\ ~changed[r]
            BY <1>6, <3>1, <3>2, <3>4, <3>6, <4>1 DEF Exists
          <5> QED BY <1>1, <5>1 DEF GroupInv, Chosen, Chooses
        <4>2. CASE x # q.m
          <5>1. x \in DOMAIN tab /\ tab'[x] = tab[x]  BY <1>6, <3>6, <4>2
          <5>2. z \in DOMAIN tab  BY <1>6, <5>1 DEF ServerOK, Placed
          <5> QED BY <1>6, <3>7, <5>1, <5>2 DEF GroupInv
        <4> QED BY <4>1, <4>2
      <3>9. CASE Pending(y)  BY <1>5, <3>8, <3>9
      <3>10. CASE tab[y].group /\ y # q.m  BY <3>6, <3>8, <3>10
      <3>11. CASE tab[y].group /\ y = q.m
        <4>1. CASE q.new.group  BY <3>4, <3>6, <3>8, <3>11, <4>1
        <4>2. CASE ~q.new.group
          <5>1. unlinks  BY <1>6, <3>2, <3>11, <4>2
          <5>2. k.at = "unlink" /\ k.op = "edit" /\ k.m = y
            BY <1>1, <1>3, <3>2, <3>11, <5>1
          <5>3. req'[r] = k  BY <1>3 DEF RequestsOK
          <5>4. Pending(y)'  BY <5>2, <5>3 DEF Pending
          <5> QED BY <3>8, <5>4
        <4> QED BY <4>1, <4>2
      <3> QED BY <3>8, <3>9, <3>10, <3>11
    <2> QED BY <2>1, <2>2
  <1> QED BY <1>4, <1>6 DEF GroupInv, Pending

LEMMA GroupQuiet ==
    ASSUME Inv, GroupInv, NEW r \in Socket, Quiet(r) \/ Announce(r), ServerOK',
           changed' = [changed EXCEPT ![r] = @ /\ req'[r] # Idle],
           UNCHANGED <<raced, mistyped>>
    PROVE  GroupInv'
  <1>1. Sheds /\ Minds(r) /\ Frees(r)  BY QuietSheds
  <1>2. PICK n : /\ req' = [req EXCEPT ![r] = n]
                 /\ Chooses(n) => Chooses(req[r]) /\ n.new = req[r].new
    BY <1>1 DEF Minds
  <1>3. req'[r] = n /\ \A s \in Socket \ {r} : req'[s] = req[s]
    BY <1>2 DEF Inv, RequestsOK
  <1>4. ASSUME NEW s \in Socket PROVE Chosen(s)'
    <2>2. Chooses(n) => n # Idle  BY IdleChooses
    <2>1. Chooses(req'[s]) /\ ~changed'[s] => ~changed[s]
      BY <1>3, <2>2 DEF Inv, FlagsOK
    <2>3. \A x \in DOMAIN tab' : x \in DOMAIN tab /\ tab'[x].group = tab[x].group
      BY <1>1 DEF Sheds
    <2>4. CASE s = r
      BY <1>2, <1>3, <2>1, <2>3, <2>4 DEF GroupInv, Chosen
    <2>5. CASE s # r
      BY <1>3, <2>1, <2>3, <2>5 DEF GroupInv, Chosen
    <2> QED BY <2>4, <2>5
  <1>5. ASSUME ~raced', ~mistyped', NEW x \in DOMAIN tab', NEW z,
               z = tab'[x].parent, z # None
        PROVE  tab'[z].group \/ Pending(z)'
    <2>1. PICK y \in DOMAIN tab' : y = tab'[x].parent
      BY <1>5 DEF ServerOK, Placed
    <2>2. x \in DOMAIN tab /\ y \in DOMAIN tab /\ tab[x].parent = y
          /\ tab'[y].group = tab[y].group
      BY <1>1, <1>5, <2>1 DEF Sheds
    <2>3. tab[y].group \/ Pending(y)  BY <1>5, <2>1, <2>2 DEF GroupInv
    <2>4. ~(req[r].op = "edit" /\ req[r].at = "unlink" /\ req[r].m = y)
      BY <1>1, <1>5, <2>1 DEF Frees, ChildrenOf
    <2>5. Pending(y) => Pending(y)'  BY <1>2, <2>4, PendingStays DEF Inv
    <2> QED BY <1>5, <2>1, <2>2, <2>3, <2>5
  <1> QED BY <1>4, <1>5 DEF GroupInv, Pending

LEMMA GroupOK == Inv /\ GroupInv /\ [Next]_vars => GroupInv'
  <1> SUFFICES ASSUME Inv, GroupInv, [Next]_vars PROVE GroupInv'  OBVIOUS
  <1>1. CASE Next
    <2>1. ServerOK'  BY <1>1, ServerSteps
    <2>2. ASSUME NEW r \in Socket, Store(r) PROVE GroupInv'
      BY <2>1, <2>2, GroupStoreNew, GroupStoreEdit DEF Store
    <2>3. ASSUME NEW r \in Socket, Quiet(r) \/ Announce(r), UNCHANGED <<born, mistyped>>,
                 changed' = [changed EXCEPT ![r] = @ /\ req'[r] # Idle]
          PROVE  GroupInv'
      BY <2>1, <2>3, QuietlyOK, GroupQuiet
    <2>4. ASSUME Connection PROVE GroupInv'
      <3>1. UNCHANGED <<tab, req, changed, raced, mistyped>>
        BY <2>4 DEF Connection, serverVars
      <3> QED BY <3>1 DEF GroupInv, Chosen, Pending
    <2> QED BY <1>1, <2>2, <2>3, <2>4, GroupBegin DEF Next, Go
  <1>2. CASE UNCHANGED vars
    BY <1>2 DEF vars, GroupInv, Chosen, Pending
  <1> QED BY <1>1, <1>2

LEMMA GroupInit == Init => GroupInv
  <1> SUFFICES ASSUME Init PROVE GroupInv  OBVIOUS
  <1>1. \A r \in Socket : req[r] = Idle  BY DEF Init
  <1>2. \A r \in Socket : Chosen(r)  BY <1>1, IdleChooses DEF Chosen
  <1>3. \A m \in DOMAIN tab : tab[m].parent # None => tab[tab[m].parent].group
    BY StartAssumption DEF Init
  <1> QED BY <1>2, <1>3 DEF GroupInv

\* For any monitors and requests: what has children is a group once the
\* requests are done, although the type is stored before the children are
\* unlinked (server.js 988-992), up to the first store that overtook a check
\* and the first edit that read an old type.
THEOREM GroupsHaveChildren == Spec => []OnlyGroupsHaveChildren
  <1>1. GroupInv => OnlyGroupsHaveChildren
    BY DEF GroupInv, OnlyGroupsHaveChildren, Resting, Pending, Idle
  <1>2. Init /\ [][Next]_vars => []GroupInv
    BY InitOK, NextOK, GroupInit, GroupOK, PTL
  <1> QED BY <1>1, <1>2, PTL DEF Spec
-----------------------------------------------------------------------------
(* No monitor is too deep                                                  *)

\* Where getNestingDepth begins.
Climbs(q) ==
    /\ q.at = "find" => q.depth = 0
    /\ q.at = "walk" => q.depth = 0 /\ q.cur = q.new.parent

\* On every line up from the new parent that is as long as may be, it is at the
\* monitor it has counted to, and it does not come to an end.
Counts(t, q) ==
    \A s \in Lines(t, MaxDepth - 1) :
        s[0] = q.new.parent =>
            /\ q.at # "store"
            /\ q.at = "depth" /\ q.depth < MaxDepth => s[q.depth] = q.cur

Counted(r) ==
    /\ Climbs(req[r])
    /\ req[r].at \in {"depth", "store"} /\ ~changed[r] => Counts(tab, req[r])

DepthInv == DepthBounded /\ \A r \in Socket : Counted(r)

\* Where rows go or lose their parents, lines only go.
LEMMA FewerLines ==
    ASSUME NEW t \in Table, NEW u, NEW n \in Nat, DOMAIN u \subseteq DOMAIN t,
           \A x \in DOMAIN u : u[x].parent \in {t[x].parent, None}
    PROVE  Lines(u, n) \subseteq Lines(t, n)
  <1> SUFFICES ASSUME NEW s \in Lines(u, n) PROVE s \in Lines(t, n)  OBVIOUS
  <1>1. s \in [0 .. n -> DOMAIN u] /\ \A i \in 1 .. n : u[s[i - 1]].parent = s[i]
    BY DEF Lines
  <1>2. None \notin DOMAIN u  BY TableValues, TreeAssumption
  <1>3. ASSUME NEW i \in 1 .. n PROVE t[s[i - 1]].parent = s[i]
    <2>1. i - 1 \in 0 .. n /\ i \in 0 .. n  OBVIOUS
    <2>2. s[i] \in DOMAIN u /\ s[i - 1] \in DOMAIN u  BY <1>1, <2>1
    <2> QED BY <1>1, <1>2, <2>2
  <1>4. s \in [0 .. n -> DOMAIN t]  BY <1>1
  <1> QED BY <1>3, <1>4 DEF Lines

LEMMA FewerCounts ==
    ASSUME ServerOK, Sheds, NEW q, Counts(tab, q) PROVE Counts(tab', q)
  <1>1. MaxDepth - 1 \in Nat  BY TreeAssumption
  <1>2. Lines(tab', MaxDepth - 1) \subseteq Lines(tab, MaxDepth - 1)
    BY <1>1, FewerLines DEF ServerOK, Sheds
  <1> QED BY <1>2 DEF Counts

\* A line that is too long after x, below which there is nothing, was put
\* somewhere, goes on from there with as many as may be.
LEMMA LineFromStored ==
    ASSUME NEW t, NEW u, NEW x, NEW s \in Lines(u, MaxDepth), Lines(t, MaxDepth) = {},
           \A y \in DOMAIN u : u[y].parent # x,
           \A y \in DOMAIN u \ {x} : y \in DOMAIN t /\ u[y].parent = t[y].parent
    PROVE  \E l \in Lines(t, MaxDepth - 1) : l[0] = u[x].parent
  <1>1. /\ s \in [0 .. MaxDepth -> DOMAIN u]
        /\ \A i \in 1 .. MaxDepth : u[s[i - 1]].parent = s[i]
    BY DEF Lines
  <1>2. MaxDepth \in Nat \ {0}  BY TreeAssumption
  <1>3. ASSUME NEW i \in 1 .. MaxDepth PROVE s[i] \in DOMAIN t \ {x}
    <2>1. i - 1 \in 0 .. MaxDepth /\ i \in 0 .. MaxDepth  BY <1>2
    <2>2. s[i - 1] \in DOMAIN u /\ s[i] \in DOMAIN u  BY <1>1, <2>1
    <2> QED BY <1>1, <2>2
  <1>4. s[0] = x
    <2> SUFFICES ASSUME s[0] # x PROVE FALSE  OBVIOUS
    <2>1. s[0] \in DOMAIN u  BY <1>1, <1>2
    <2>2. \A i \in 0 .. MaxDepth : s[i] \in DOMAIN t \ {x} /\ s[i] \in DOMAIN u
      <3> TAKE i \in 0 .. MaxDepth
      <3>1. s[i] \in DOMAIN u  BY <1>1
      <3>2. CASE i = 0  BY <2>1, <3>1, <3>2
      <3>3. CASE i # 0
        <4>1. i \in 1 .. MaxDepth  BY <1>2, <3>3
        <4> QED BY <1>3, <3>1, <4>1
      <3> QED BY <3>2, <3>3
    <2>3. \A i \in 1 .. MaxDepth : t[s[i - 1]].parent = s[i]
      <3> TAKE i \in 1 .. MaxDepth
      <3>1. i - 1 \in 0 .. MaxDepth  BY <1>2
      <3> QED BY <1>1, <2>2, <3>1
    <2>4. s \in [0 .. MaxDepth -> DOMAIN t]  BY <1>1, <2>2
    <2> QED BY <2>3, <2>4 DEF Lines
  <1> DEFINE l == [i \in 0 .. MaxDepth - 1 |-> s[i + 1]]
  <1>5. \A i \in 0 .. MaxDepth - 1 : i + 1 \in 1 .. MaxDepth /\ l[i] = s[i + 1]
    BY <1>2
  <1>6. l \in [0 .. MaxDepth - 1 -> DOMAIN t]  BY <1>3, <1>5
  <1>7. ASSUME NEW i \in 1 .. MaxDepth - 1 PROVE t[l[i - 1]].parent = l[i]
    <2>1. /\ i \in 1 .. MaxDepth /\ i + 1 \in 1 .. MaxDepth
          /\ i - 1 \in 0 .. MaxDepth - 1 /\ i \in 0 .. MaxDepth - 1
          /\ (i - 1) + 1 = i /\ (i + 1) - 1 = i /\ i \in 0 .. MaxDepth
      BY <1>2
    <2>2. l[i - 1] = s[i] /\ l[i] = s[i + 1]  BY <1>5, <2>1
    <2>3. u[s[i]].parent = s[i + 1]  BY <1>1, <2>1
    <2>4. s[i] \in DOMAIN u \ {x}  BY <1>1, <1>3, <2>1
    <2> QED BY <2>2, <2>3, <2>4
  <1>8. l[0] = u[x].parent
    <2>1. 1 \in 1 .. MaxDepth /\ 0 \in 0 .. MaxDepth - 1 /\ 1 - 1 = 0  BY <1>2
    <2>2. l[0] = s[1]  BY <1>5, <2>1
    <2> QED BY <1>1, <1>4, <2>1, <2>2
  <1> QED BY <1>6, <1>7, <1>8 DEF Lines

\* What a step that stores nothing makes of a count.
Heeds(r) ==
    \E n : /\ req' = [req EXCEPT ![r] = n] /\ Climbs(n)
           /\ n.at \in {"depth", "store"} /\ ~changed[r] => Counts(tab, n)

LEMMA RestHeeds ==
    ASSUME NEW r, NEW n, req' = [req EXCEPT ![r] = n], ~Chooses(n) PROVE Heeds(r)
  BY DEF Heeds, Climbs, Chooses

\* Nothing is below what is no monitor.
LEMMA CountsNone ==
    ASSUME ServerOK, NEW q, q.new.parent = None PROVE Counts(tab, q)
  <1>1. ASSUME NEW s \in Lines(tab, MaxDepth - 1) PROVE s[0] # None
    <2>1. 0 \in 0 .. MaxDepth - 1  BY TreeAssumption
    <2>2. s[0] \in DOMAIN tab  BY <2>1 DEF Lines
    <2> QED BY <2>2, TableValues, TreeAssumption DEF ServerOK
  <1> QED BY <1>1 DEF Counts

\* A count begins at the parent.
LEMMA CountsFirst ==
    ASSUME NEW q, q.at = "depth", q.depth = 0, q.cur = q.new.parent
    PROVE  Counts(tab, q)
  BY DEF Counts

LEMMA FindHeeds ==
    ASSUME Inv, NEW r \in Socket, Counted(r), FindToEdit(r) PROVE Heeds(r)
  <1> DEFINE q == req[r]
             k == [q EXCEPT !.was = tab[q.m], !.todo = {q.m}, !.cur = q.new.parent]
             place == IF q.new.parent = None THEN "store" ELSE "walk"
  <1> USE RequestIs
  <1>1. q.op = "edit" /\ q.at = "find" /\ q.depth = 0
    BY DEF FindToEdit, Counted, Climbs
  <1>2. CASE q.m \notin DOMAIN tab
    BY <1>2, IdleChooses, RestHeeds DEF FindToEdit, Refuse
  <1>3. CASE q.m \in DOMAIN tab
    <2>1. tab[q.m] \in Row /\ q.m \in Monitor  BY <1>1, <1>3, TableValues DEF ServerOK, Named
    <2>2. q.new.parent \in Monitor \cup {None}  BY DEF Request, Row
    <2>3. /\ k \in Request /\ k.new = q.new /\ k.cur = q.new.parent
          /\ k.depth = q.depth
      BY <2>1, <2>2 DEF Request
    <2>4. Goto(r, k, place)  BY <1>3 DEF FindToEdit
    <2>5. place \in Places  BY DEF Places
    <2> HIDE DEF k, place
    <2>6. PICK n : /\ req' = [req EXCEPT ![r] = n] /\ n.at = place
                   /\ n.new = q.new /\ n.cur = q.new.parent /\ n.depth = 0
      BY <1>1, <2>3, <2>4, <2>5, GotoIs
    <2>7. Climbs(n)  BY <2>6 DEF Climbs, place
    <2>8. n.at \in {"depth", "store"} => Counts(tab, n)
      BY <2>6, CountsNone DEF place
    <2> QED BY <2>6, <2>7, <2>8 DEF Heeds
  <1> QED BY <1>2, <1>3

LEMMA WalkHeeds ==
    ASSUME Inv, NEW r \in Socket, Counted(r), Walk(r) PROVE Heeds(r)
  <1> DEFINE q == req[r]
             found(x) == ChildrenOf(tab, x) \ q.seen
             todo(x)  == (q.todo \ {x}) \cup found(x)
             seen(x)  == q.seen \cup found(x)
             k(x) == [q EXCEPT !.todo = todo(x), !.seen = seen(x)]
             place(x) == IF todo(x) = {} THEN "depth" ELSE "walk"
  <1> USE RequestIs
  <1>1. q.at = "walk" /\ q.depth = 0 /\ q.cur = q.new.parent
    BY DEF Walk, Counted, Climbs
  <1>2. PICK x \in q.todo : Refuse(r) \/ Goto(r, k(x), place(x))
    BY DEF Walk
  <1>3. CASE Refuse(r)  BY <1>3, IdleChooses, RestHeeds DEF Refuse
  <1>4. CASE Goto(r, k(x), place(x))
    <2>1. found(x) \subseteq Monitor  BY ChildrenAreMonitors
    <2>2. todo(x) \in SUBSET Monitor /\ seen(x) \in SUBSET Monitor
      BY <2>1 DEF Request
    <2>3. /\ k(x) \in Request /\ k(x).new = q.new /\ k(x).cur = q.cur
          /\ k(x).depth = q.depth
      BY <2>2 DEF Request
    <2>4. place(x) \in Places /\ place(x) \in {"depth", "walk"}  BY DEF Places
    <2> HIDE DEF k, place
    <2>5. PICK n : /\ req' = [req EXCEPT ![r] = n] /\ n.at \in {"depth", "walk"}
                   /\ n.new = q.new /\ n.cur = q.new.parent /\ n.depth = 0
      BY <1>1, <1>4, <2>3, <2>4, GotoIs
    <2>6. Climbs(n)  BY <2>5 DEF Climbs
    <2>7. n.at \in {"depth", "store"} => Counts(tab, n)  BY <2>5, CountsFirst
    <2> QED BY <2>5, <2>6, <2>7 DEF Heeds
  <1> QED BY <1>2, <1>3, <1>4

LEMMA DepthHeeds ==
    ASSUME Inv, NEW r \in Socket, Counted(r), NestingDepth(r) PROVE Heeds(r)
  <1> DEFINE q == req[r]
             depth == IF q.depth = MaxDepth THEN MaxDepth ELSE q.depth + 1
             up    == IF q.cur \in DOMAIN tab THEN tab[q.cur].parent ELSE None
             k     == [q EXCEPT !.cur = up, !.depth = depth]
             place == IF up = None THEN "store" ELSE "depth"
  <1> USE RequestIs
  <1>1. q.at = "depth" /\ (~changed[r] => Counts(tab, q)) /\ q.depth \in 0 .. MaxDepth
    BY DEF NestingDepth, Counted, Request
  <1>2. \/ Refuse(r)
        \/ Goto(r, k, place) /\ ~(up = None /\ depth + 1 > MaxDepth)
    BY DEF NestingDepth
  <1>3. CASE Refuse(r)  BY <1>3, IdleChooses, RestHeeds DEF Refuse
  <1>4. CASE Goto(r, k, place) /\ ~(up = None /\ depth + 1 > MaxDepth)
    <2>1. depth \in 0 .. MaxDepth  BY <1>1, TreeAssumption
    <2>2. up \in Monitor \cup {None}
      <3>1. q.cur \in DOMAIN tab => tab[q.cur] \in Row  BY TableValues DEF ServerOK
      <3> QED BY <3>1 DEF Row
    <2>3. place \in Places /\ (place = "store" <=> up = None) /\ place \in {"store", "depth"}
      BY DEF Places
    <2>4. depth < MaxDepth => q.depth < MaxDepth - 1 /\ depth = q.depth + 1
      BY <1>1, TreeAssumption
    <2>5. q.cur \in DOMAIN tab => up = tab[q.cur].parent  OBVIOUS
    <2> HIDE DEF up, depth, place
    <2>6. k \in Request /\ k.new = q.new /\ k.cur = up /\ k.depth = depth
      BY <2>1, <2>2 DEF Request
    <2> HIDE DEF k
    <2>7. PICK n : /\ req' = [req EXCEPT ![r] = n] /\ n.at = place
                   /\ n.new = q.new /\ n.cur = up /\ n.depth = depth
      BY <1>4, <2>3, <2>6, GotoIs
    <2>8. Climbs(n)  BY <2>3, <2>7 DEF Climbs
    <2>9. ASSUME ~changed[r], NEW s \in Lines(tab, MaxDepth - 1), s[0] = q.new.parent,
                 depth < MaxDepth
          PROVE  up \in DOMAIN tab /\ s[depth] = up
      <3>1. s[q.depth] = q.cur  BY <1>1, <2>4, <2>9, TreeAssumption DEF Counts
      <3>2. /\ depth \in 1 .. MaxDepth - 1 /\ depth - 1 = q.depth
            /\ depth \in 0 .. MaxDepth - 1 /\ q.depth \in 0 .. MaxDepth - 1
        BY <1>1, <2>4, <2>9, TreeAssumption
      <3>3. /\ s \in [0 .. MaxDepth - 1 -> DOMAIN tab]
            /\ \A i \in 1 .. MaxDepth - 1 : tab[s[i - 1]].parent = s[i]
        BY DEF Lines
      <3> QED BY <2>5, <3>1, <3>2, <3>3
    <2>10. ~changed[r] => Counts(tab, n)
      <3> SUFFICES ASSUME ~changed[r], NEW s \in Lines(tab, MaxDepth - 1),
                          s[0] = n.new.parent
                   PROVE  /\ n.at # "store"
                          /\ n.at = "depth" /\ n.depth < MaxDepth => s[n.depth] = n.cur
        BY DEF Counts
      <3>1. None \notin DOMAIN tab  BY TableValues, TreeAssumption DEF ServerOK
      <3>2. n.at # "store"
        <4>1. up = None => depth < MaxDepth  BY <1>4, <2>1, TreeAssumption
        <4> QED BY <2>3, <2>7, <2>9, <3>1, <4>1
      <3>3. n.depth < MaxDepth => s[n.depth] = n.cur  BY <2>7, <2>9
      <3> QED BY <3>2, <3>3
    <2> QED BY <2>7, <2>8, <2>10 DEF Heeds
  <1> QED BY <1>2, <1>3, <1>4

\* A deletion counts nothing.
LEMMA DeleteHeeds ==
    ASSUME Inv, NEW r \in Socket, FindToDelete(r) PROVE Heeds(r)
  <1> DEFINE q == req[r]
             last == <<Step("remove", q.m, TRUE)>>
  <1> USE RequestIs
  <1>1. \/ \E plan : Rest(r, q, plan)
        \/ \E plan : Goto(r, [q EXCEPT !.plan = plan], "unlink")
    BY DEF FindToDelete
  <1>2. ASSUME NEW plan, Rest(r, q, plan) PROVE Heeds(r)
    <2> DEFINE n == IF plan = <<>> THEN Idle ELSE [q EXCEPT !.at = "rest", !.plan = plan]
    <2>1. [q EXCEPT !.at = "rest", !.plan = plan].at = "rest"  BY DEF Request
    <2>2. ~Chooses(n)  BY <2>1, IdleChooses DEF Chooses
    <2>3. req' = [req EXCEPT ![r] = n]  BY <1>2 DEF Rest
    <2> HIDE DEF n
    <2> QED BY <2>2, <2>3, RestHeeds
  <1>3. ASSUME NEW plan, Goto(r, [q EXCEPT !.plan = plan], "unlink") PROVE Heeds(r)
    <2> DEFINE n == [[q EXCEPT !.plan = plan] EXCEPT !.at = "unlink"]
    <2>1. n.at = "unlink"  BY DEF Request
    <2>2. req' = [req EXCEPT ![r] = n]  BY <1>3 DEF Goto
    <2> HIDE DEF n
    <2> QED BY <2>1, <2>2, RestHeeds DEF Chooses
  <1> QED BY <1>1, <1>2, <1>3

LEMMA QuietHeeds ==
    ASSUME Inv, NEW r \in Socket, Counted(r), Quiet(r) \/ Announce(r)
    PROVE  Heeds(r)
  <1>1. CASE ~Chooses(req[r])
    <2>1. PICK n : req' = [req EXCEPT ![r] = n] /\ ~Chooses(n)
      BY <1>1, QuietSheds DEF Minds
    <2> QED BY <2>1, RestHeeds
  <1>2. CASE Chooses(req[r])
    <2>1. /\ ~UnlinkChildren(r) /\ ~Restart(r) /\ ~Switch(r)
      BY <1>2 DEF Chooses, UnlinkChildren, Restart, Switch
    <2>2. ~StartNew(r) /\ ~Visit(r) /\ ~ReadUpdate(r) /\ ~RemoveRow(r) /\ ~EmitUpdate(r)
      BY <1>2 DEF Chooses, StartNew, Visit, ReadUpdate, RemoveRow, EmitUpdate, Doing
    <2> QED BY <2>1, <2>2, FindHeeds, WalkHeeds, DepthHeeds, DeleteHeeds DEF Quiet, Announce
  <1> QED BY <1>1, <1>2

LEMMA DepthQuiet ==
    ASSUME Inv, DepthInv, NEW r \in Socket, Quiet(r) \/ Announce(r),
           changed' = [changed EXCEPT ![r] = @ /\ req'[r] # Idle],
           UNCHANGED <<raced, tall>>, Remember
    PROVE  DepthInv'
  <1>1. Sheds /\ ServerOK  BY QuietSheds DEF Inv
  <1>2. PICK n : /\ req' = [req EXCEPT ![r] = n] /\ Climbs(n)
                 /\ n.at \in {"depth", "store"} /\ ~changed[r] => Counts(tab, n)
    BY QuietHeeds DEF DepthInv, Heeds
  <1>3. req'[r] = n /\ \A s \in Socket \ {r} : req'[s] = req[s]
    BY <1>2 DEF Inv, RequestsOK
  <1>4. ASSUME NEW s \in Socket PROVE Counted(s)'
    <2>1. n.at \in {"depth", "store"} => n # Idle  BY IdleChooses DEF Chooses
    <2>2. CASE s = r
      <3>1. n.at \in {"depth", "store"} /\ ~changed'[r] => ~changed[r]
        BY <1>3, <2>1 DEF Inv, FlagsOK
      <3> QED BY <1>1, <1>2, <1>3, <2>2, <3>1, FewerCounts DEF Counted
    <2>3. CASE s # r
      <3>1. req'[s] = req[s] /\ changed'[s] = changed[s]
        BY <1>3, <2>3 DEF Inv, FlagsOK
      <3> QED BY <1>1, <3>1, FewerCounts DEF Counted, DepthInv
    <2> QED BY <2>2, <2>3
  <1>5. Lines(tab', MaxDepth) \subseteq Lines(tab, MaxDepth)
    BY <1>1, FewerLines, TreeAssumption DEF ServerOK, Sheds
  <1>6. ~looped' => ~looped  BY Loops
  <1> QED BY <1>4, <1>5, <1>6 DEF DepthInv, DepthBounded

LEMMA DepthBegin ==
    ASSUME Inv, DepthInv, NEW r \in Socket, Begin(r), UNCHANGED tall, Remember
    PROVE  DepthInv'
  <1>1. PICK q : BeginAs(r, q) /\ Climbs(q)
                 /\ (q.at \in {"depth", "store"} => Counts(tab, q))
    <2>1. CASE BeginAdd(r)
      <3>1. PICK p, g : BeginAs(r, [Idle EXCEPT
              !.op = "add", !.at = IF p = None THEN "store" ELSE "depth",
              !.new = [Fresh EXCEPT !.parent = p, !.group = g], !.cur = p])
        BY <2>1 DEF BeginAdd
      <3> DEFINE new == [Fresh EXCEPT !.parent = p, !.group = g]
                 at == IF p = None THEN "store" ELSE "depth"
                 k == [Idle EXCEPT !.op = "add", !.at = at, !.new = new, !.cur = p]
      <3>2. new.parent = p  BY DEF Fresh
      <3> HIDE DEF new
      <3>3. k.at = at /\ k.new = new /\ k.cur = p /\ k.depth = 0  BY DEF Idle
      <3>4. BeginAs(r, k)  BY <3>1 DEF new
      <3> HIDE DEF k
      <3>5. Climbs(k) /\ (k.at \in {"depth", "store"} => Counts(tab, k))
        BY <3>2, <3>3, CountsNone, CountsFirst DEF Climbs, Inv
      <3> QED BY <3>4, <3>5
    <2>2. CASE BeginEdit(r) \/ BeginDelete(r) \/ BeginSwitch(r)
      <3>1. PICK k : BeginAs(r, k) /\ k.at \in {"find", "switch"} /\ k.depth = 0
        <4>1. CASE BeginEdit(r)
          <5>1. PICK m, x : BeginAs(r, [Idle EXCEPT !.op = "edit", !.at = "find",
                                                  !.m = m, !.new = x])
            BY <4>1 DEF BeginEdit
          <5> DEFINE k == [Idle EXCEPT !.op = "edit", !.at = "find",
                                   !.m = m, !.new = x]
          <5>2. k.at = "find" /\ k.depth = 0  BY DEF Idle
          <5>3. BeginAs(r, k)  BY <5>1
          <5> HIDE DEF k
          <5> QED BY <5>2, <5>3
        <4>2. CASE BeginSwitch(r)
          <5>1. PICK m, x : BeginAs(r, [Idle EXCEPT !.op = "switch", !.at = "switch",
                                                  !.m = m, !.new = x])
            BY <4>2 DEF BeginSwitch
          <5> DEFINE k == [Idle EXCEPT !.op = "switch", !.at = "switch",
                                   !.m = m, !.new = x]
          <5>2. k.at = "switch" /\ k.depth = 0  BY DEF Idle
          <5>3. BeginAs(r, k)  BY <5>1
          <5> HIDE DEF k
          <5> QED BY <5>2, <5>3
        <4>3. CASE BeginDelete(r)
          <5>1. PICK o, m : BeginAs(r, [Idle EXCEPT !.op = o, !.at = "find", !.m = m])
            BY <4>3 DEF BeginDelete
          <5> DEFINE k == [Idle EXCEPT !.op = o, !.at = "find", !.m = m]
          <5>2. k.at = "find" /\ k.depth = 0  BY DEF Idle
          <5>3. BeginAs(r, k)  BY <5>1
          <5> HIDE DEF k
          <5> QED BY <5>2, <5>3
        <4> QED BY <2>2, <4>1, <4>2, <4>3
      <3> QED BY <3>1 DEF Climbs
    <2> QED BY <2>1, <2>2 DEF Begin
  <1>2. /\ UNCHANGED <<tab, raced>> /\ req' = [req EXCEPT ![r] = q]
        /\ changed' = [changed EXCEPT ![r] = Stale(q.new.parent)]
    BY <1>1 DEF BeginAs
  <1>3. req'[r] = q
        /\ \A s \in Socket \ {r} : req'[s] = req[s] /\ changed'[s] = changed[s]
    BY <1>2 DEF Inv, RequestsOK, FlagsOK
  <1>4. ASSUME NEW s \in Socket PROVE Counted(s)'
    <2>1. CASE s = r  BY <1>1, <1>2, <1>3, <2>1 DEF Counted
    <2>2. CASE s # r  BY <1>2, <1>3, <2>2 DEF Counted, DepthInv
    <2> QED BY <2>1, <2>2
  <1>5. ~looped' => ~looped  BY Loops
  <1> QED BY <1>2, <1>4, <1>5 DEF DepthInv, DepthBounded

\* What was stored is not counted again, and the others' counts are out of date.
LEMMA StoredCounted ==
    ASSUME Inv, DepthInv, NEW r \in Socket, NEW n, req' = [req EXCEPT ![r] = n],
           ~Chooses(n),
           changed' = [s \in Socket |-> (changed[s] \/ s # r) /\ req'[s] # Idle]
    PROVE  \A s \in Socket : Counted(s)'
  <1> TAKE s \in Socket
  <1>1. req'[r] = n /\ \A o \in Socket \ {r} : req'[o] = req[o]  BY DEF Inv, RequestsOK
  <1>2. CASE s = r  BY <1>1, <1>2 DEF Counted, Climbs, Chooses
  <1>3. CASE s # r
    <2>1. req'[s].at \in {"depth", "store"} => changed'[s]
      BY <1>3, IdleChooses DEF Chooses
    <2> QED BY <1>1, <1>3, <2>1 DEF Counted, DepthInv
  <1> QED BY <1>2, <1>3

LEMMA DepthStoreNew ==
    ASSUME Inv, DepthInv, NEW r \in Socket, StoreNew(r), Remember,
           changed' = [s \in Socket |-> (changed[s] \/ s # r) /\ req'[s] # Idle]
    PROVE  DepthInv'
  <1> DEFINE q == req[r]
             p == q.new.parent
  <1>1. PICK k : req' = [req EXCEPT ![r] = k] /\ ~Chooses(k)  BY StoreNewEnds
  <1>2. \A s \in Socket : Counted(s)'  BY <1>1, StoredCounted
  <1>3. q.at = "store" /\ UNCHANGED tall /\ ServerOK /\ Counted(r)
    BY DEF StoreNew, Inv, DepthInv
  <1>4. PICK m \in Monitor \ born :
         \/ UNCHANGED <<tab, raced>>
         \/ /\ Exists(p)
            /\ tab' = [x \in DOMAIN tab \cup {m} |-> IF x = m THEN q.new ELSE tab[x]]
            /\ raced' = (raced \/ changed[r])
    BY DEF StoreNew
  <1>6. ~looped' => ~looped /\ ~NamesItself(tab')  BY Loops
  <1>5. ASSUME ~raced', ~looped', ~tall', NEW s \in Lines(tab', MaxDepth) PROVE FALSE
    <2>1. CASE UNCHANGED <<tab, raced>>  BY <1>3, <1>5, <1>6, <2>1
                                         DEF DepthInv, DepthBounded
    <2>2. CASE ~UNCHANGED <<tab, raced>>
      <3>1. /\ Exists(p) /\ ~raced /\ ~changed[r]
            /\ tab' = [x \in DOMAIN tab \cup {m} |-> IF x = m THEN q.new ELSE tab[x]]
        BY <1>4, <1>5, <2>2
      <3>2. m \notin DOMAIN tab /\ m # None  BY <1>3, TreeAssumption DEF ServerOK
      <3>3. \A y \in DOMAIN tab' : tab'[y].parent # m
        BY <1>3, <3>1, <3>2 DEF ServerOK, Placed, Exists
      <3>4. /\ tab'[m].parent = p
            /\ \A y \in DOMAIN tab' \ {m} : y \in DOMAIN tab /\ tab'[y].parent = tab[y].parent
        BY <3>1
      <3>5. Lines(tab, MaxDepth) = {}  BY <1>3, <1>5, <1>6, <3>1 DEF DepthInv, DepthBounded
      <3>6. PICK l \in Lines(tab, MaxDepth - 1) : l[0] = p
        BY <1>5, <3>3, <3>4, <3>5, LineFromStored
      <3> QED BY <1>3, <3>1, <3>6 DEF Counted, Counts
    <2> QED BY <2>1, <2>2
  <1> QED BY <1>2, <1>5 DEF DepthInv, DepthBounded

LEMMA DepthStoreEdit ==
    ASSUME Inv, DepthInv, NEW r \in Socket, StoreEdit(r), Remember,
           changed' = [s \in Socket |-> (changed[s] \/ s # r) /\ req'[s] # Idle]
    PROVE  DepthInv'
  <1> DEFINE q == req[r]
             p == q.new.parent
             row == [tab[q.m] EXCEPT !.parent = p, !.group = q.new.group]
  <1> USE RequestIs
  <1>1. q.op = "edit" /\ q.at = "store" /\ Counted(r)  BY DEF StoreEdit, DepthInv
  <1>2. q.m \in Monitor  BY <1>1 DEF Named
  <1>3. PICK k : req' = [req EXCEPT ![r] = k] /\ ~Chooses(k)  BY StoreEditEnds
  <1>4. \A s \in Socket : Counted(s)'  BY <1>3, StoredCounted
  <1>6. ~looped' => ~looped /\ ~NamesItself(tab')  BY Loops
  <1>5. ASSUME ~raced', ~looped', ~tall', NEW s \in Lines(tab', MaxDepth) PROVE FALSE
    <2>1. CASE UNCHANGED <<tab, raced, tall>>  BY <1>5, <1>6, <2>1
                                               DEF DepthInv, DepthBounded
    <2>2. CASE ~UNCHANGED <<tab, raced, tall>>
      <3>1. q.m \in DOMAIN tab  BY <2>2 DEF StoreEdit
      <3>2. /\ tab' = [tab EXCEPT ![q.m] = row]
            /\ raced' = (raced \/ (p # None /\ changed[r]))
            /\ tall' = (tall \/ (p # None /\ ChildrenOf(tab, q.m) # {}))
        BY <2>2, <3>1 DEF StoreEdit
      <3>3. tab[q.m] \in Row  BY <3>1, TableValues DEF ServerOK
      <3>4. row.parent = p  BY <3>3 DEF Row
      <3> HIDE DEF row
      <3>5. /\ DOMAIN tab' = DOMAIN tab /\ tab'[q.m] = row
            /\ \A y \in DOMAIN tab \ {q.m} : tab'[y] = tab[y]
        BY <3>1, <3>2, TableValues DEF ServerOK
      <3>6. Lines(tab, MaxDepth) = {}  BY <1>5, <1>6, <3>2 DEF DepthInv, DepthBounded
      <3>7. CASE p = None
        <4>1. \A y \in DOMAIN tab' : tab'[y].parent \in {tab[y].parent, None}
          BY <3>4, <3>5, <3>7
        <4>2. Lines(tab', MaxDepth) \subseteq Lines(tab, MaxDepth)
          BY <3>5, <4>1, FewerLines, TreeAssumption DEF ServerOK
        <4> QED BY <1>5, <3>6, <4>2
      <3>8. CASE p # None
        <4>1. ~changed[r] /\ ChildrenOf(tab, q.m) = {}  BY <1>5, <3>2, <3>8
        <4>2. PICK x : x = q.m  OBVIOUS
        <4>3. \A y \in DOMAIN tab' : tab'[y].parent # x
          BY <1>5, <1>6, <3>1, <3>4, <3>5, <4>1, <4>2 DEF ChildrenOf, NamesItself
        <4>4. /\ tab'[x].parent = p
              /\ \A y \in DOMAIN tab' \ {x} :
                    y \in DOMAIN tab /\ tab'[y].parent = tab[y].parent
          BY <3>4, <3>5, <4>2
        <4>5. PICK l \in Lines(tab, MaxDepth - 1) : l[0] = tab'[x].parent
          BY <1>5, <3>6, <4>3, <4>4, LineFromStored
        <4> QED BY <1>1, <4>1, <4>4, <4>5 DEF Counted, Counts
      <3> QED BY <3>7, <3>8
    <2> QED BY <2>1, <2>2
  <1> QED BY <1>4, <1>5 DEF DepthInv, DepthBounded

LEMMA DepthOK == Inv /\ DepthInv /\ [Next]_vars => DepthInv'
  <1> SUFFICES ASSUME Inv, DepthInv, [Next]_vars PROVE DepthInv'  OBVIOUS
  <1>1. CASE Next
    <2>0. Remember  BY <1>1 DEF Next
    <2>1. ASSUME NEW r \in Socket, Store(r) PROVE DepthInv'
      BY <2>0, <2>1, DepthStoreNew, DepthStoreEdit DEF Store
    <2>2. ASSUME NEW r \in Socket, Quiet(r) \/ Announce(r), UNCHANGED <<born, tall>>,
                 changed' = [changed EXCEPT ![r] = @ /\ req'[r] # Idle]
          PROVE  DepthInv'
      BY <2>0, <2>2, QuietlyOK, DepthQuiet
    <2>3. ASSUME NEW r \in Socket, Begin(r) PROVE DepthInv'
      <3>1. UNCHANGED tall
        BY <2>3 DEF Begin, BeginAdd, BeginEdit, BeginDelete, BeginSwitch, BeginAs
      <3> QED BY <2>0, <2>3, <3>1, DepthBegin
    <2>4. ASSUME Connection PROVE DepthInv'
      <3>1. UNCHANGED <<tab, req, changed, raced, tall>>
        BY <2>4 DEF Connection, serverVars
      <3>2. ~looped' => ~looped  BY <2>0, Loops
      <3> QED BY <3>1, <3>2 DEF DepthInv, DepthBounded, Counted
    <2> QED BY <1>1, <2>1, <2>2, <2>3, <2>4 DEF Next, Go
  <1>2. CASE UNCHANGED vars
    BY <1>2 DEF vars, DepthInv, DepthBounded, Counted
  <1> QED BY <1>1, <1>2

LEMMA DepthInit == Init => DepthInv
  <1> SUFFICES ASSUME Init PROVE DepthInv  OBVIOUS
  <1>1. \A r \in Socket : req[r] = Idle  BY DEF Init
  <1>2. \A r \in Socket : Counted(r)
    BY <1>1, IdleChooses DEF Counted, Climbs, Chooses
  <1> QED BY <1>2, DepthAssumption DEF Init, DepthInv, DepthBounded

\* For any monitors, requests and limit: no line of monitors, each in the next,
\* is longer than the limit that getNestingDepth enforces (server.js 863) query by
\* query while other requests delete rows and set children free, up to the first
\* store that overtook a check, the first monitor that was made its own parent,
\* which no check refuses, and the first move of a group with what is in it.
THEOREM DepthStaysBounded == Spec => []DepthBounded
  <1>1. DepthInv => DepthBounded  BY DEF DepthInv
  <1>2. Init /\ [][Next]_vars => []DepthInv
    BY InitOK, NextOK, DepthInit, DepthOK, PTL
  <1> QED BY <1>1, <1>2, PTL DEF Spec
-----------------------------------------------------------------------------
(* Deletions stay below what was to be deleted                             *)

\* What a step may do in a request: "delete" removes its monitor, "deleteAll"
\* what has been below it; "add" is about the new monitor, and starts it.
May(a, id, op, m, U) ==
    /\ a \in {"visit", "remove"} =>
            \/ op = "delete" /\ a = "remove" /\ id = m
            \/ op = "deleteAll" /\ id \in U
    /\ a = "start" => op = "add"
    /\ op = "add" => id = m

\* What a request has left to do is what it may.
Within(plan, op, m, U) ==
    \A i \in DOMAIN plan : May(plan[i].act, plan[i].id, op, m, U)

Closed(t, U) == \A c \in DOMAIN t : t[c].parent \in U => c \in U

Deletes(r) ==
    /\ Within(req[r].plan, req[r].op, req[r].m, under[r])
    /\ req[r].op = "deleteAll" => req[r].m \in under[r] /\ Closed(tab, under[r])

LEMMA UnderGrows ==
    ASSUME NEW t, NEW S PROVE S \subseteq Under(t, S) /\ Closed(t, Under(t, S))
  <1>1. S \subseteq Under(t, S)  BY DEF Under
  <1>2. ASSUME NEW c \in DOMAIN t, t[c].parent \in Under(t, S) PROVE c \in Under(t, S)
    <2>1. ASSUME NEW C \in SUBSET (DOMAIN t \cup S), S \subseteq C,
                 \A d \in DOMAIN t : t[d].parent \in C => d \in C
          PROVE  c \in C
      BY <1>2, <2>1 DEF Under
    <2> QED BY <2>1 DEF Under
  <1> QED BY <1>1, <1>2 DEF Closed

LEMMA WithinGrows ==
    ASSUME NEW plan, NEW op, NEW m, NEW U, NEW V, U \subseteq V, Within(plan, op, m, U)
    PROVE  Within(plan, op, m, V)
  BY DEF Within, May

LEMMA WithinNothing == ASSUME NEW op, NEW m, NEW U PROVE Within(<<>>, op, m, U)
  BY DEF Within

LEMMA WithinTail ==
    ASSUME NEW plan \in Seq(Item), plan # <<>>, NEW op, NEW m, NEW U,
           Within(plan, op, m, U)
    PROVE  Within(Tail(plan), op, m, U)
  <1>1. /\ DOMAIN Tail(plan) = 1 .. Len(plan) - 1 /\ Len(plan) \in Nat
        /\ \A i \in 1 .. Len(plan) - 1 : Tail(plan)[i] = plan[i + 1]
    OBVIOUS
  <1>2. \A i \in 1 .. Len(plan) - 1 : i + 1 \in DOMAIN plan
    BY <1>1
  <1> QED BY <1>1, <1>2 DEF Within

LEMMA WithinBoth ==
    ASSUME NEW a \in Seq(Item), NEW b \in Seq(Item), NEW op, NEW m, NEW U,
           Within(a, op, m, U), Within(b, op, m, U)
    PROVE  Within(a \o b, op, m, U)
  <1>1. \A i \in DOMAIN (a \o b) :
            \/ i \in DOMAIN a /\ (a \o b)[i] = a[i]
            \/ i - Len(a) \in DOMAIN b /\ (a \o b)[i] = b[i - Len(a)]
    OBVIOUS
  <1> DEFINE c == a \o b
  <1>2. \A i \in DOMAIN c : \/ i \in DOMAIN a /\ c[i] = a[i]
                            \/ i - Len(a) \in DOMAIN b /\ c[i] = b[i - Len(a)]
    BY <1>1
  <1> HIDE DEF c
  <1>3. Within(c, op, m, U)  BY <1>2 DEF Within
  <1> QED BY <1>3 DEF c

\* A single step that it may do.
LEMMA WithinStep ==
    ASSUME NEW a, NEW id, NEW top, NEW op, NEW m, NEW U,
           May(a, id, op, m, U)
    PROVE  Within(<<Step(a, id, top)>>, op, m, U)
  <1> DEFINE i == Step(a, id, top)
  <1>1. i.act = a /\ i.id = id  BY DEF Step
  <1> HIDE DEF i
  <1>2. Within(<<i>>, op, m, U)  BY <1>1 DEF Within
  <1> QED BY <1>2 DEF i

LEMMA WithinEach ==
    ASSUME NEW C \in SUBSET Monitor, NEW s \in SetToSeqs(C), NEW a, NEW top,
           NEW op, NEW m, NEW U,
           a = "read" \/ (a = "visit" /\ op = "deleteAll" /\ C \subseteq U),
           op # "add"
    PROVE  Within(Each(s, a, top), op, m, U)
  <1>1. IsFiniteSet(C)  BY TreeAssumption, FS_Subset
  <1>2. s \in [1 .. Cardinality(C) -> C]  BY DEF SetToSeqs
  <1>3. \A i \in DOMAIN s : s[i] \in C  BY <1>2
  <1>4. DOMAIN Each(s, a, top) = DOMAIN s
        /\ \A i \in DOMAIN s : /\ Each(s, a, top)[i].act = a
                               /\ Each(s, a, top)[i].id = s[i]
    BY DEF Each, Step
  <1> QED BY <1>3, <1>4 DEF Within, May

\* What a step of r makes of what it has left to do.
Works(r) ==
    \E n : req' = [req EXCEPT ![r] = n] /\ Within(n.plan, n.op, n.m, under[r])

LEMMA IdleWorks == Idle.plan = <<>> /\ Idle.op = "none" /\ Idle.at = "none"
  BY DEF Idle

LEMMA RefuseWorks == ASSUME NEW r, Refuse(r) PROVE Works(r)
  BY IdleWorks, WithinNothing DEF Refuse, Works

LEMMA RestWorks ==
    ASSUME NEW r \in Socket, NEW q \in Request, NEW plan \in Seq(Item),
           Rest(r, q, plan), Within(plan, q.op, q.m, under[r])
    PROVE  Works(r)
  BY RestIs, IdleWorks, WithinNothing DEF Works

LEMMA GotoWorks ==
    ASSUME NEW r \in Socket, NEW q \in Request, NEW place, Goto(r, q, place),
           Within(q.plan, q.op, q.m, under[r])
    PROVE  Works(r)
  <1> DEFINE n == [q EXCEPT !.at = place]
  <1>1. n.plan = q.plan /\ n.op = q.op /\ n.m = q.m  BY DEF Request
  <1>2. req' = [req EXCEPT ![r] = n]  BY DEF Goto
  <1> HIDE DEF n
  <1> QED BY <1>1, <1>2 DEF Works

LEMMA TellWorks ==
    ASSUME NEW r \in Socket, NEW q \in Request, q.m \in Monitor, Tell(r, q)
    PROVE  Works(r)
  <1> DEFINE read == <<Step("read", q.m, TRUE)>>
             one == <<Step("start", q.m, TRUE)>>
             start == IF q.op = "add" THEN one ELSE <<>>
  <1>1. <<>> \in Seq(Item)  OBVIOUS
  <1>2. read \in Seq(Item) /\ one \in Seq(Item)  BY <1>1, OneStepPlan
  <1>3. /\ Within(read, q.op, q.m, under[r])
        /\ q.op = "add" => Within(one, q.op, q.m, under[r])
    BY WithinStep DEF May
  <1>4. Rest(r, q, read \o start)  BY DEF Tell
  <1> HIDE DEF read, one
  <1>5. start \in Seq(Item) /\ Within(start, q.op, q.m, under[r])
    BY <1>1, <1>2, <1>3, WithinNothing
  <1> HIDE DEF start
  <1>6. read \o start \in Seq(Item) /\ Within(read \o start, q.op, q.m, under[r])
    BY <1>2, <1>3, <1>5, WithinBoth, PlansInOrder
  <1> QED BY <1>4, <1>6, RestWorks

LEMMA AdvanceWorks ==
    ASSUME RequestsOK, NEW r \in Socket, NEW a, Doing(r, a), Deletes(r),
           Rest(r, req[r], Tail(req[r].plan))
    PROVE  Works(r)
  <1>1. req[r] \in Request /\ Tail(req[r].plan) \in Seq(Item)  BY DoingItem
  <1>2. req[r].plan \in Seq(Item) /\ req[r].plan # <<>>
    BY <1>1 DEF Request, Doing
  <1>3. Within(Tail(req[r].plan), req[r].op, req[r].m, under[r])
    BY <1>2, WithinTail DEF Deletes
  <1> QED BY <1>1, <1>3, RestWorks

LEMMA SeqsOfChildren ==
    ASSUME Inv, NEW m, NEW s \in SetToSeqs(ChildrenOf(tab, m)),
           NEW a \in {"read", "visit"}, NEW top \in BOOLEAN
    PROVE  Each(s, a, top) \in Seq(Item) /\ ChildrenOf(tab, m) \in SUBSET Monitor
  BY RequestIs, ChildrenInOrder, ChildrenAreMonitors, EachIsPlan DEF Inv

LEMMA FindToDeleteWorks ==
    ASSUME Inv, NEW r \in Socket, Deletes(r), FindToDelete(r) PROVE Works(r)
  <1> DEFINE q == req[r]
             last == <<Step("remove", q.m, TRUE)>>
             plan(s) == Each(s, "read", TRUE) \o last
             n(s) == [q EXCEPT !.plan = plan(s)]
  <1> USE RequestIs
  <1>1. q.at = "find" /\ q.op \in {"delete", "deleteAll"}  BY DEF FindToDelete
  <1>2. q.m \in Monitor /\ <<>> \in Seq(Item)  BY <1>1 DEF Named
  <1>3. last \in Seq(Item)  BY <1>2, OneStepPlan
  <1>4. Within(last, q.op, q.m, under[r])  BY <1>1, WithinStep DEF Deletes, May
  <1>5. CASE Rest(r, q, last)  BY <1>3, <1>4, <1>5, RestWorks
  <1>6. ASSUME NEW s \in SetToSeqs(ChildrenOf(tab, q.m)), q.op = "deleteAll",
               Rest(r, q, Each(s, "visit", TRUE) \o last)
        PROVE  Works(r)
    <2>1. ChildrenOf(tab, q.m) \subseteq under[r]
      BY <1>6 DEF Deletes, Closed, ChildrenOf
    <2>2. Each(s, "visit", TRUE) \in Seq(Item) /\ ChildrenOf(tab, q.m) \in SUBSET Monitor
      BY SeqsOfChildren
    <2>3. Within(Each(s, "visit", TRUE), q.op, q.m, under[r])
      BY <1>6, <2>1, <2>2, WithinEach
    <2> HIDE DEF last
    <2>4. /\ Each(s, "visit", TRUE) \o last \in Seq(Item)
          /\ Within(Each(s, "visit", TRUE) \o last, q.op, q.m, under[r])
      BY <1>3, <1>4, <2>2, <2>3, PlansInOrder, WithinBoth
    <2> QED BY <1>6, <2>4, RestWorks
  <1>7. ASSUME NEW s \in SetToSeqs(ChildrenOf(tab, q.m)), Goto(r, n(s), "unlink")
        PROVE  Works(r)
    <2>1. Each(s, "read", TRUE) \in Seq(Item) /\ ChildrenOf(tab, q.m) \in SUBSET Monitor
      BY SeqsOfChildren
    <2>2. Within(Each(s, "read", TRUE), q.op, q.m, under[r])
      BY <1>1, <2>1, WithinEach
    <2> HIDE DEF last
    <2>3. plan(s) \in Seq(Item) /\ Within(plan(s), q.op, q.m, under[r])
      BY <1>3, <1>4, <2>1, <2>2, PlansInOrder, WithinBoth
    <2> HIDE DEF plan
    <2>4. n(s) \in Request /\ n(s).plan = plan(s) /\ n(s).op = q.op /\ n(s).m = q.m
      BY <2>3 DEF Request
    <2> HIDE DEF n
    <2> QED BY <1>7, <2>3, <2>4, GotoWorks
  <1> QED BY <1>5, <1>6, <1>7 DEF FindToDelete

LEMMA VisitWorks ==
    ASSUME Inv, NEW r \in Socket, Deletes(r), Visit(r) PROVE Works(r)
  <1> DEFINE q == req[r]
             x == Head(q.plan)
             children == IF x.id \in DOMAIN tab /\ tab[x.id].group
                         THEN ChildrenOf(tab, x.id) ELSE {}
             all(s) == Each(s, "visit", FALSE)
             one == <<Step("remove", x.id, x.top)>>
             tail == Tail(q.plan)
  <1> USE RequestIs
  <1>1. Doing(r, "visit")  BY DEF Visit
  <1>2. x.id \in Monitor /\ x.top \in BOOLEAN /\ tail \in Seq(Item)
    BY <1>1, DoingItem
  <1>3. q.plan \in Seq(Item) /\ q.plan # <<>> /\ x = q.plan[1] /\ 1 \in DOMAIN q.plan
        /\ x.act = "visit"
    BY <1>1 DEF Request, Doing
  <1>4. q.op = "deleteAll" /\ x.id \in under[r]  BY <1>3 DEF Deletes, Within, May
  <1>5. children \subseteq under[r] /\ children \in SUBSET Monitor
    BY <1>4, ChildrenAreMonitors DEF Deletes, Closed, ChildrenOf
  <1>6. PICK s \in SetToSeqs(children) : Rest(r, q, all(s) \o one \o tail)
    BY DEF Visit
  <1> HIDE DEF children
  <1>7. all(s) \in Seq(Item)  BY <1>5, ChildrenInOrder, EachIsPlan
  <1>8. Within(all(s), q.op, q.m, under[r])  BY <1>4, <1>5, WithinEach
  <1>9. <<>> \in Seq(Item)  OBVIOUS
  <1>10. one \in Seq(Item) /\ Within(one, q.op, q.m, under[r])
    BY <1>2, <1>4, <1>9, OneStepPlan, WithinStep DEF May
  <1>11. Within(tail, q.op, q.m, under[r])  BY <1>3, WithinTail DEF Deletes
  <1> HIDE DEF all, one, tail
  <1>12. all(s) \o one \in Seq(Item) /\ Within(all(s) \o one, q.op, q.m, under[r])
    BY <1>7, <1>8, <1>10, PlansInOrder, WithinBoth
  <1>13. /\ all(s) \o one \o tail \in Seq(Item)
         /\ Within(all(s) \o one \o tail, q.op, q.m, under[r])
    BY <1>2, <1>11, <1>12, PlansInOrder, WithinBoth
  <1> QED BY <1>6, <1>13, RestWorks

LEMMA ReadUpdateWorks ==
    ASSUME Inv, NEW r \in Socket, Deletes(r), ReadUpdate(r) PROVE Works(r)
  <1> DEFINE q == req[r]
             m == Head(q.plan).id
             n == [q EXCEPT !.data = Updated(tab, m)]
             emit == <<Step("emit", m, TRUE)>>
  <1> USE RequestIs
  <1>1. Doing(r, "read")  BY DEF ReadUpdate
  <1>2. CASE m \notin DOMAIN tab
    <2>1. Rest(r, q, Tail(q.plan))  BY <1>2 DEF ReadUpdate, Advance
    <2> QED BY <1>1, <2>1, AdvanceWorks
  <1>3. CASE m \in DOMAIN tab
    <2>1. Updated(tab, m) \in Row  BY <1>3, UpdatedIsRow DEF ServerOK
    <2>2. m \in Monitor /\ Tail(q.plan) \in Seq(Item) /\ <<>> \in Seq(Item)
      BY <1>1, DoingItem
    <2>3. emit \in Seq(Item) /\ Within(emit, q.op, q.m, under[r])
      <3>1. q.plan \in Seq(Item) /\ q.plan # <<>>  BY <1>1 DEF Request, Doing
      <3>2. 1 \in DOMAIN q.plan /\ m = q.plan[1].id  BY <3>1
      <3>3. q.op = "add" => m = q.m  BY <3>2 DEF Deletes, Within, May
      <3> QED BY <2>2, <3>3, OneStepPlan, WithinStep DEF May
    <2>4. Rest(r, n, emit \o Tail(q.plan))  BY <1>3 DEF ReadUpdate
    <2> HIDE DEF m, emit
    <2>5. n \in Request /\ n.op = q.op /\ n.m = q.m  BY <2>1 DEF Request
    <2> HIDE DEF n
    <2>6. q.plan \in Seq(Item) /\ q.plan # <<>>  BY <1>1 DEF Request, Doing
    <2>7. Within(Tail(q.plan), q.op, q.m, under[r])  BY <2>6, WithinTail DEF Deletes
    <2>8. /\ emit \o Tail(q.plan) \in Seq(Item)
          /\ Within(emit \o Tail(q.plan), q.op, q.m, under[r])
      BY <2>2, <2>3, <2>7, PlansInOrder, WithinBoth
    <2> QED BY <2>4, <2>5, <2>8, RestWorks
  <1> QED BY <1>2, <1>3

\* A step that removes no row goes on within what it may delete.
LEMMA QuietWorks ==
    ASSUME Inv, NEW r \in Socket, Deletes(r), Quiet(r)
    PROVE  Works(r) /\ DOMAIN tab' = DOMAIN tab
  <1> DEFINE q == req[r]
  <1> USE RequestIs
  <1>1. CASE FindToEdit(r)
    <2> DEFINE n == [q EXCEPT !.was = tab[q.m], !.todo = {q.m}, !.cur = q.new.parent]
    <2>1. q.at = "find" /\ UNCHANGED tab  BY <1>1 DEF FindToEdit
    <2>2. CASE q.m \notin DOMAIN tab
      <3>1. Refuse(r)  BY <1>1, <2>2 DEF FindToEdit
      <3> QED BY <2>1, <3>1, RefuseWorks
    <2>3. CASE q.m \in DOMAIN tab
      <3>1. tab[q.m] \in Row /\ q.m \in Monitor
        BY <2>1, <2>3, TableValues DEF ServerOK, Named
      <3>2. q.new.parent \in Monitor \cup {None}  BY DEF Request, Row
      <3>3. n \in Request /\ n.plan = q.plan /\ n.op = q.op /\ n.m = q.m
        BY <3>1, <3>2 DEF Request
      <3>4. \E place : Goto(r, n, place)  BY <1>1, <2>3 DEF FindToEdit
      <3> HIDE DEF n
      <3> QED BY <2>1, <3>3, <3>4, GotoWorks DEF Deletes
    <2> QED BY <2>2, <2>3
  <1>2. CASE FindToDelete(r)
    BY <1>2, FindToDeleteWorks DEF FindToDelete
  <1>3. CASE Walk(r)
    <2> DEFINE found(x) == ChildrenOf(tab, x) \ q.seen
               todo(x)  == (q.todo \ {x}) \cup found(x)
               seen(x)  == q.seen \cup found(x)
               n(x) == [q EXCEPT !.todo = todo(x), !.seen = seen(x)]
    <2>1. UNCHANGED tab  BY <1>3 DEF Walk
    <2>2. PICK x \in q.todo : Refuse(r) \/ \E place : Goto(r, n(x), place)
      BY <1>3 DEF Walk
    <2>3. CASE \E place : Goto(r, n(x), place)
      <3>1. found(x) \subseteq Monitor  BY ChildrenAreMonitors
      <3>2. todo(x) \in SUBSET Monitor /\ seen(x) \in SUBSET Monitor
        BY <3>1 DEF Request
      <3>3. n(x) \in Request /\ n(x).plan = q.plan /\ n(x).op = q.op /\ n(x).m = q.m
        BY <3>2 DEF Request
      <3> HIDE DEF n
      <3> QED BY <2>1, <2>3, <3>3, GotoWorks DEF Deletes
    <2> QED BY <2>1, <2>2, <2>3, RefuseWorks
  <1>4. CASE NestingDepth(r)
    <2> DEFINE depth == IF q.depth = MaxDepth THEN MaxDepth ELSE q.depth + 1
               up    == IF q.cur \in DOMAIN tab THEN tab[q.cur].parent ELSE None
               n     == [q EXCEPT !.cur = up, !.depth = depth]
    <2>1. UNCHANGED tab  BY <1>4 DEF NestingDepth
    <2>2. Refuse(r) \/ \E place : Goto(r, n, place)  BY <1>4 DEF NestingDepth
    <2>3. CASE \E place : Goto(r, n, place)
      <3>1. depth \in 0 .. MaxDepth  BY TreeAssumption DEF Request
      <3>2. up \in Monitor \cup {None}
        <4>1. q.cur \in DOMAIN tab => tab[q.cur] \in Row  BY TableValues DEF ServerOK
        <4> QED BY <4>1 DEF Row
      <3> HIDE DEF up, depth
      <3>3. n \in Request /\ n.plan = q.plan /\ n.op = q.op /\ n.m = q.m
        BY <3>1, <3>2 DEF Request
      <3> HIDE DEF n
      <3> QED BY <2>1, <2>3, <3>3, GotoWorks DEF Deletes
    <2> QED BY <2>1, <2>2, <2>3, RefuseWorks
  <1>5. CASE UnlinkChildren(r)
    <2>1. DOMAIN tab' = DOMAIN tab  BY <1>5 DEF UnlinkChildren, Unlinked
    <2>2. Goto(r, q, "restart") \/ Rest(r, q, q.plan)  BY <1>5 DEF UnlinkChildren
    <2>3. q.plan \in Seq(Item)  BY DEF Request
    <2> QED BY <2>1, <2>2, <2>3, GotoWorks, RestWorks DEF Deletes
  <1>6. CASE Restart(r)
    <2>1. q.m \in Monitor  BY <1>6 DEF Restart, Named
    <2>2. Refuse(r) \/ Tell(r, q)  BY <1>6 DEF Restart
    <2>3. DOMAIN tab' = DOMAIN tab  BY <1>6 DEF Restart
    <2> QED BY <2>1, <2>2, <2>3, RefuseWorks, TellWorks
  <1>7. CASE Switch(r)
    <2>1. q.m \in Monitor  BY <1>7 DEF Switch, Named
    <2>2. Refuse(r) \/ Tell(r, q)  BY <1>7 DEF Switch
    <2>3. DOMAIN tab' = DOMAIN tab  BY <1>7 DEF Switch
    <2> QED BY <2>1, <2>2, <2>3, RefuseWorks, TellWorks
  <1>8. CASE StartNew(r)
    <2>1. Doing(r, "start")  BY <1>8 DEF StartNew
    <2>2. Refuse(r) \/ Rest(r, q, Tail(q.plan))  BY <1>8 DEF StartNew, Advance
    <2>3. DOMAIN tab' = DOMAIN tab  BY <1>8 DEF StartNew
    <2> QED BY <2>1, <2>2, <2>3, RefuseWorks, AdvanceWorks
  <1>9. CASE Visit(r)
    BY <1>9, VisitWorks DEF Visit
  <1>10. CASE ReadUpdate(r)
    BY <1>10, ReadUpdateWorks DEF ReadUpdate
  <1> QED BY <1>1, <1>2, <1>3, <1>4, <1>5, <1>6, <1>7, <1>8, <1>9, <1>10 DEF Quiet

\* A row is removed by a request that may.
LEMMA AnnounceWorks ==
    ASSUME Inv, NEW r \in Socket, Deletes(r), Announce(r)
    PROVE  /\ Works(r) /\ req'[r] # req[r]
           /\ \A m \in DOMAIN tab \ DOMAIN tab' :
                 \/ req[r].op = "delete" /\ m = req[r].m
                 \/ req[r].op = "deleteAll" /\ m \in under[r]
  <1> DEFINE q == req[r]
             x == Head(q.plan)
  <1> USE RequestIs
  <1>1. PICK a \in {"remove", "emit"} :
            /\ Doing(r, a) /\ Rest(r, q, Tail(q.plan))
            /\ a = "remove" => tab' = Without(tab, x.id)
            /\ a = "emit" => UNCHANGED tab
    BY DEF Announce, RemoveRow, EmitUpdate, Advance
  <1>2. Works(r)  BY <1>1, AdvanceWorks
  <1>3. /\ q.plan \in Seq(Item) /\ q.plan # <<>> /\ x = q.plan[1]
        /\ 1 \in DOMAIN q.plan /\ x.act = a /\ q.at = "rest"
    BY <1>1 DEF Request, Doing
  <1>4. req'[r] # q
    <2>1. Tail(q.plan) \in Seq(Item) /\ Tail(q.plan) # q.plan
      <3>1. PICK s \in Seq(Item) : s = q.plan /\ s # <<>>  BY <1>3
      <3>2. Tail(s) \in Seq(Item) /\ Len(Tail(s)) = Len(s) - 1 /\ Len(s) \in Nat
        BY <3>1
      <3>3. ASSUME Tail(s) = s PROVE FALSE
        <4>1. PICK l \in Nat : l = Len(s)  BY <3>2
        <4>2. Len(Tail(s)) = l  BY <3>3, <4>1
        <4>3. l = l - 1  BY <3>2, <4>1, <4>2
        <4> QED BY <4>3
      <3> QED BY <3>1, <3>2, <3>3
    <2>2. PICK t \in Seq(Item) : t = Tail(q.plan)  BY <2>1
    <2>3. Rest(r, q, t)  BY <1>1, <2>2
    <2>4. PICK n \in Request :
              /\ req' = [req EXCEPT ![r] = n]
              /\ \/ n = Idle /\ t = <<>>
                 \/ n.at = "rest" /\ n.op = q.op /\ n.m = q.m /\ n.plan = t
      BY <2>3, RestIs
    <2>5. n # q  BY <1>3, <2>1, <2>2, <2>4, IdleWorks
    <2> QED BY <2>4, <2>5 DEF RequestsOK
  <1>5. ASSUME NEW m \in DOMAIN tab \ DOMAIN tab'
        PROVE  \/ q.op = "delete" /\ m = q.m
               \/ q.op = "deleteAll" /\ m \in under[r]
    <2>1. a = "remove" /\ m = x.id  BY <1>1, <1>5 DEF Without
    <2> QED BY <1>3, <2>1 DEF Deletes, Within, May
  <1> QED BY <1>2, <1>4, <1>5

\* A store leaves nothing to do that deletes.
LEMMA StoreWorks ==
    ASSUME Inv, NEW r \in Socket, Deletes(r), Store(r)
    PROVE  Works(r) /\ DOMAIN tab \subseteq DOMAIN tab'
  <1> DEFINE q == req[r]
  <1> USE RequestIs
  <1>1. CASE StoreNew(r)
    <2> DEFINE n(m) == [q EXCEPT !.m = m]
    <2>1. PICK m \in Monitor : \/ Tell(r, n(m)) \/ Refuse(r)
      BY <1>1 DEF StoreNew
    <2>2. DOMAIN tab \subseteq DOMAIN tab'  BY <1>1 DEF StoreNew
    <2>3. n(m) \in Request /\ n(m).m = m  BY DEF Request
    <2> HIDE DEF n
    <2> QED BY <2>1, <2>2, <2>3, RefuseWorks, TellWorks
  <1>2. CASE StoreEdit(r)
    <2>1. Refuse(r) \/ \E place : Goto(r, q, place)  BY <1>2 DEF StoreEdit
    <2>2. DOMAIN tab' = DOMAIN tab  BY <1>2 DEF StoreEdit
    <2> QED BY <2>1, <2>2, RefuseWorks, GotoWorks DEF Deletes
  <1> QED BY <1>1, <1>2 DEF Store

LEMMA BeginWorks ==
    ASSUME Inv, NEW r \in Socket, Begin(r)
    PROVE  Works(r) /\ UNCHANGED tab
  <1> DEFINE idle == Idle
  <1>1. PICK q : BeginAs(r, q) /\ q.plan = <<>>
    <2>1. idle \in Request /\ idle.plan = <<>>  BY IdleIsRequest, IdleWorks
    <2> HIDE DEF idle
    <2>3. CASE BeginAdd(r)
      <3>1. PICK at, new, cur :
              BeginAs(r, [idle EXCEPT !.op = "add", !.at = at, !.new = new, !.cur = cur])
        BY <2>3, Zenon DEF BeginAdd, idle
      <3>2. [idle EXCEPT !.op = "add", !.at = at, !.new = new, !.cur = cur].plan = <<>>
        BY <2>1 DEF Request
      <3> QED BY <3>1, <3>2
    <2>4. CASE BeginEdit(r)
      <3>1. PICK m, new :
              BeginAs(r, [idle EXCEPT !.op = "edit", !.at = "find", !.m = m, !.new = new])
        BY <2>4, Zenon DEF BeginEdit, idle
      <3>2. [idle EXCEPT !.op = "edit", !.at = "find", !.m = m, !.new = new].plan = <<>>
        BY <2>1 DEF Request
      <3> QED BY <3>1, <3>2
    <2>5. CASE BeginDelete(r)
      <3>1. PICK op, m : BeginAs(r, [idle EXCEPT !.op = op, !.at = "find", !.m = m])
        BY <2>5, Zenon DEF BeginDelete, idle
      <3>2. [idle EXCEPT !.op = op, !.at = "find", !.m = m].plan = <<>>
        BY <2>1 DEF Request
      <3> QED BY <3>1, <3>2
    <2>6. CASE BeginSwitch(r)
      <3>1. PICK m, new :
              BeginAs(r, [idle EXCEPT !.op = "switch", !.at = "switch", !.m = m, !.new = new])
        BY <2>6, Zenon DEF BeginSwitch, idle
      <3>2. [idle EXCEPT !.op = "switch", !.at = "switch", !.m = m, !.new = new].plan = <<>>
        BY <2>1 DEF Request
      <3> QED BY <3>1, <3>2
    <2> QED BY <2>3, <2>4, <2>5, <2>6 DEF Begin
  <1> QED BY <1>1, WithinNothing DEF BeginAs, Works

DeleteInv == \A r \in Socket : Deletes(r)

\* What a step of r deletes, and what it leaves to do.
DeletesWell ==
    /\ RequestsOK' /\ \A r \in Socket : Within(req'[r].plan, req'[r].op, req'[r].m, under[r])
    /\ \A m \in DOMAIN tab \ DOMAIN tab' :
         \E r \in Socket : /\ req'[r] # req[r]
                           /\ \/ req[r].op = "delete" /\ m = req[r].m
                              \/ req[r].op = "deleteAll" /\ m \in under[r]

LEMMA WorksWell ==
    ASSUME Inv, DeleteInv, RequestsOK', NEW r \in Socket, Works(r),
           \A m \in DOMAIN tab \ DOMAIN tab' :
             /\ req'[r] # req[r]
             /\ \/ req[r].op = "delete" /\ m = req[r].m
                \/ req[r].op = "deleteAll" /\ m \in under[r]
    PROVE  DeletesWell
  <1>1. PICK n : req' = [req EXCEPT ![r] = n] /\ Within(n.plan, n.op, n.m, under[r])
    BY DEF Works
  <1>2. req'[r] = n /\ \A s \in Socket \ {r} : req'[s] = req[s]
    BY <1>1 DEF Inv, RequestsOK
  <1>3. ASSUME NEW s \in Socket
        PROVE  Within(req'[s].plan, req'[s].op, req'[s].m, under[s])
    BY <1>1, <1>2 DEF DeleteInv, Deletes
  <1> QED BY <1>3 DEF DeletesWell

LEMMA NextDeletesWell == ASSUME Inv, DeleteInv, Next PROVE DeletesWell
  <1>1. RequestsOK'  BY ServerSteps
  <1>2. ASSUME NEW r \in Socket, Begin(r) PROVE DeletesWell
    BY <1>1, <1>2, BeginWorks, WorksWell
  <1>3. ASSUME NEW r \in Socket, Store(r) PROVE DeletesWell
    BY <1>1, <1>3, StoreWorks, WorksWell DEF DeleteInv
  <1>4. ASSUME NEW r \in Socket, Quiet(r) PROVE DeletesWell
    BY <1>1, <1>4, QuietWorks, WorksWell DEF DeleteInv
  <1>5. ASSUME NEW r \in Socket, Announce(r) PROVE DeletesWell
    BY <1>1, <1>5, AnnounceWorks, WorksWell DEF DeleteInv
  <1>6. ASSUME Connection PROVE DeletesWell
    BY <1>1, <1>6 DEF Connection, serverVars, DeletesWell, DeleteInv, Deletes
  <1> QED BY <1>2, <1>3, <1>4, <1>5, <1>6 DEF Next, Go

LEMMA DeleteOK ==
    Inv /\ DeleteInv /\ [Next]_vars => DeleteInv' /\ (DeletesWell \/ UNCHANGED vars)
  <1> SUFFICES ASSUME Inv, DeleteInv, [Next]_vars
               PROVE  DeleteInv' /\ (DeletesWell \/ UNCHANGED vars)
    OBVIOUS
  <1>1. CASE Next
    <2>1. DeletesWell  BY <1>1, NextDeletesWell
    <2>2. Remember  BY <1>1 DEF Next
    <2>3. ASSUME NEW r \in Socket PROVE Deletes(r)'
      <3>1. PICK n : n = req'[r]  OBVIOUS
      <3>2. Within(n.plan, n.op, n.m, under[r])  BY <2>1, <3>1 DEF DeletesWell
      <3>3. under'[r] = IF n.op = "deleteAll" THEN Under(tab', under[r] \cup {n.m}) ELSE {}
        BY <2>2, <3>1 DEF Remember
      <3>4. PICK U : U = under'[r]  OBVIOUS
      <3>5. CASE n.op = "deleteAll"
        <4>1. under[r] \cup {n.m} \subseteq U /\ Closed(tab', U)
          BY <3>3, <3>4, <3>5, UnderGrows
        <4>2. Within(n.plan, n.op, n.m, U)  BY <3>2, <4>1, WithinGrows
        <4> QED BY <3>1, <3>4, <4>1, <4>2 DEF Deletes
      <3>6. CASE n.op # "deleteAll"
        <4>1. Within(n.plan, n.op, n.m, U)  BY <3>2, <3>6 DEF Within, May
        <4> QED BY <3>1, <3>4, <3>6, <4>1 DEF Deletes
      <3> QED BY <3>5, <3>6
    <2> QED BY <2>1, <2>3 DEF DeleteInv
  <1>2. CASE UNCHANGED vars
    BY <1>2 DEF vars, DeleteInv, Deletes
  <1> QED BY <1>1, <1>2

LEMMA DeleteInit == Init => DeleteInv
  BY IdleWorks, WithinNothing DEF Init, DeleteInv, Deletes

\* For any monitors and requests: deleteMonitorRecursively works through lists
\* that were read long before (monitor.js 2310-2326), and yet deletes only what
\* has been below the group, or below what had been, since the request began; a
\* deletion that was not told to delete the children deletes its monitor alone.
THEOREM DeletesStayBelow == Spec => DeletesOnlyBelow
  <1>1. Init /\ [][Next]_vars => [](Inv /\ DeleteInv)
    BY InitOK, NextOK, DeleteInit, DeleteOK, PTL
  <1>2. Inv /\ DeleteInv /\ [Next]_vars =>
          [\A m \in DOMAIN tab \ DOMAIN tab' :
             \E r \in Socket : /\ req'[r] # req[r]
                               /\ \/ req[r].op = "delete" /\ m = req[r].m
                                  \/ req[r].op = "deleteAll" /\ m \in under[r]]_vars
    BY DeleteOK DEF DeletesWell
  <1> QED BY <1>1, <1>2, PTL DEF Spec, DeletesOnlyBelow
-----------------------------------------------------------------------------
(* A client's copy                                                         *)

\* A plan tells the client about m.
Tells(plan, m) ==
    \E i \in DOMAIN plan : plan[i].act \in {"read", "emit"} /\ plan[i].id = m

\* A request is about to tell the client about m.
Owes(q, m) ==
    \/ q.op = "edit" /\ q.at \in {"unlink", "restart"} /\ q.m = m
    \/ q.at = "rest" /\ Tells(q.plan, m)

Owed(m) == \E r \in Socket : Owes(req[r], m)

\* What the client's copy has of m, unless it is about to be told, or has an
\* emission behind it that was out of date.
Shows(m) == m \in DOMAIN mirror /\ tab[m].parent \in {None, mirror[m].parent}

MirrorInv ==
    connected /\ list.at = "none" /\ ~late =>
        /\ DOMAIN mirror \ DOMAIN tab \subseteq silent
        /\ \A m \in DOMAIN tab : Shows(m) \/ Owed(m)

LEMMA TellsFirst == ASSUME NEW i, i.act \in {"read", "emit"} PROVE Tells(<<i>>, i.id)
  BY DEF Tells

LEMMA TellsBoth ==
    ASSUME NEW a \in Seq(Item), NEW b \in Seq(Item), NEW m,
           Tells(a, m) \/ Tells(b, m)
    PROVE  Tells(a \o b, m)
  <1>1. CASE Tells(a, m)
    <2>1. \A i \in DOMAIN a : i \in DOMAIN (a \o b) /\ (a \o b)[i] = a[i]
      OBVIOUS
    <2> QED BY <1>1, <2>1 DEF Tells
  <1>2. CASE Tells(b, m)
    <2>1. \A i \in DOMAIN b : Len(a) + i \in DOMAIN (a \o b) /\ (a \o b)[Len(a) + i] = b[i]
      OBVIOUS
    <2> QED BY <1>2, <2>1 DEF Tells
  <1> QED BY <1>1, <1>2

\* What a plan tells after its first step.
LEMMA TellsTail ==
    ASSUME NEW plan \in Seq(Item), plan # <<>>, NEW m, Tells(plan, m)
    PROVE  \/ Tells(Tail(plan), m)
           \/ Head(plan).act \in {"read", "emit"} /\ Head(plan).id = m
  <1>1. PICK i \in DOMAIN plan : plan[i].act \in {"read", "emit"} /\ plan[i].id = m
    BY DEF Tells
  <1>2. CASE i = 1  BY <1>1, <1>2
  <1>3. CASE i # 1
    <2>1. i - 1 \in DOMAIN Tail(plan) /\ Tail(plan)[i - 1] = plan[i]
      BY <1>3
    <2> QED BY <1>1, <2>1 DEF Tells
  <1> QED BY <1>2, <1>3

LEMMA TellsNothing == ASSUME NEW m PROVE ~Tells(<<>>, m)
  BY DEF Tells

\* What a step of r leaves to be told.
Reports(r, m) == \E n : req' = [req EXCEPT ![r] = n] /\ Owes(n, m)

LEMMA RestReports ==
    ASSUME NEW r \in Socket, NEW q \in Request, NEW plan \in Seq(Item),
           Rest(r, q, plan), NEW m, Tells(plan, m)
    PROVE  Reports(r, m)
  <1>1. PICK n \in Request :
              /\ req' = [req EXCEPT ![r] = n]
              /\ \/ n = Idle /\ plan = <<>>
                 \/ n.at = "rest" /\ n.op = q.op /\ n.m = q.m /\ n.plan = plan
    BY RestIs
  <1> QED BY <1>1, TellsNothing DEF Reports, Owes

LEMMA TellReports ==
    ASSUME NEW r \in Socket, NEW q \in Request, q.m \in Monitor, Tell(r, q)
    PROVE  Reports(r, q.m)
  <1> DEFINE read == <<Step("read", q.m, TRUE)>>
             one == <<Step("start", q.m, TRUE)>>
             start == IF q.op = "add" THEN one ELSE <<>>
  <1>1. <<>> \in Seq(Item)  OBVIOUS
  <1>2. read \in Seq(Item) /\ one \in Seq(Item)  BY <1>1, OneStepPlan
  <1>3. Tells(read, q.m)
    <2> DEFINE i == Step("read", q.m, TRUE)
    <2>1. i.act = "read" /\ i.id = q.m  BY DEF Step
    <2> HIDE DEF i
    <2>2. Tells(<<i>>, q.m)  BY <2>1, TellsFirst
    <2> QED BY <2>2 DEF i
  <1>4. Rest(r, q, read \o start)  BY DEF Tell
  <1> HIDE DEF read, one
  <1>5. start \in Seq(Item)  BY <1>1, <1>2
  <1> HIDE DEF start
  <1>6. read \o start \in Seq(Item) /\ Tells(read \o start, q.m)
    BY <1>2, <1>3, <1>5, TellsBoth, PlansInOrder
  <1> QED BY <1>4, <1>6, RestReports

LEMMA AdvanceReports ==
    ASSUME RequestsOK, NEW r \in Socket, NEW a, Doing(r, a),
           Rest(r, req[r], Tail(req[r].plan)), NEW m, Owes(req[r], m)
    PROVE  \/ Reports(r, m)
           \/ a \in {"read", "emit"} /\ Head(req[r].plan).id = m
  <1>1. req[r] \in Request /\ Tail(req[r].plan) \in Seq(Item)  BY DoingItem
  <1>2. req[r].plan \in Seq(Item) /\ req[r].plan # <<>> /\ Head(req[r].plan).act = a
    BY <1>1 DEF Request, Doing
  <1>3. Tells(req[r].plan, m)  BY DEF Owes, Doing
  <1>4. Tells(Tail(req[r].plan), m) \/ (a \in {"read", "emit"} /\ Head(req[r].plan).id = m)
    BY <1>2, <1>3, TellsTail
  <1>5. PICK t \in Seq(Item) : t = Tail(req[r].plan)  BY <1>1
  <1>6. Tells(t, m) => Reports(r, m)  BY <1>1, <1>5, RestReports
  <1> QED BY <1>4, <1>5, <1>6

\* A step that tells nothing leaves what is there to be told.
LEMMA QuietReports ==
    ASSUME Inv, NEW r \in Socket, Deletes(r), Quiet(r), NEW m \in DOMAIN tab,
           Owes(req[r], m)
    PROVE  Reports(r, m)
  <1> DEFINE q == req[r]
  <1> USE RequestIs
  <1>1. q.at \in {"unlink", "restart", "rest"}  BY DEF Owes
  <1>2. CASE UnlinkChildren(r)
    <2>1. q.op = "edit" /\ q.at = "unlink" /\ q.m = m /\ Goto(r, q, "restart")
      BY <1>2 DEF UnlinkChildren, Owes
    <2>2. PICK n \in Request : /\ req' = [req EXCEPT ![r] = n]
                               /\ n.at = "restart" /\ n.op = q.op /\ n.m = q.m
      BY <2>1, GotoIs DEF Places
    <2> QED BY <2>1, <2>2 DEF Reports, Owes
  <1>3. CASE Restart(r)
    <2>1. q.m = m /\ Tell(r, q)  BY <1>3 DEF Restart, Owes
    <2>2. m \in Monitor  BY TableValues DEF ServerOK
    <2> QED BY <2>1, <2>2, TellReports
  <1>4. CASE StartNew(r)
    <2>1. Doing(r, "start")  BY <1>4 DEF StartNew
    <2>2. q.plan \in Seq(Item) /\ q.plan # <<>> /\ Head(q.plan) = q.plan[1]
          /\ 1 \in DOMAIN q.plan /\ q.plan[1].act = "start"
      BY <2>1 DEF Request, Doing
    <2>3. q.op = "add" /\ q.plan[1].id = q.m  BY <2>2 DEF Deletes, Within, May
    <2>4. q.m = m
      <3>1. Tells(q.plan, m)  BY <2>1 DEF Owes, Doing
      <3> QED BY <2>3, <3>1 DEF Tells, Deletes, Within, May
    <2>5. Rest(r, q, Tail(q.plan))  BY <1>4, <2>2, <2>3, <2>4 DEF StartNew, Advance
    <2> QED BY <2>1, <2>5, AdvanceReports
  <1>5. CASE Visit(r)
    <2> DEFINE x == Head(q.plan)
               children == IF x.id \in DOMAIN tab /\ tab[x.id].group
                           THEN ChildrenOf(tab, x.id) ELSE {}
               all(s) == Each(s, "visit", FALSE)
               one == <<Step("remove", x.id, x.top)>>
               tail == Tail(q.plan)
    <2>1. Doing(r, "visit")  BY <1>5 DEF Visit
    <2>2. x.id \in Monitor /\ x.top \in BOOLEAN /\ tail \in Seq(Item)
      BY <2>1, DoingItem
    <2>3. q.plan \in Seq(Item) /\ q.plan # <<>> /\ x.act = "visit"
      BY <2>1 DEF Request, Doing
    <2>4. Tells(tail, m)
      <3>1. Tells(q.plan, m)  BY <2>1 DEF Owes, Doing
      <3> QED BY <2>3, <3>1, TellsTail
    <2>5. PICK s \in SetToSeqs(children) : Rest(r, q, all(s) \o one \o tail)
      BY <1>5 DEF Visit
    <2>6. children \in SUBSET Monitor  BY ChildrenAreMonitors
    <2> HIDE DEF children
    <2>7. all(s) \in Seq(Item)  BY <2>6, ChildrenInOrder, EachIsPlan
    <2>8. <<>> \in Seq(Item)  OBVIOUS
    <2>9. one \in Seq(Item)  BY <2>2, <2>8, OneStepPlan
    <2> HIDE DEF all, one, tail
    <2>10. all(s) \o one \in Seq(Item)  BY <2>7, <2>9, PlansInOrder
    <2>11. all(s) \o one \o tail \in Seq(Item) /\ Tells(all(s) \o one \o tail, m)
      BY <2>2, <2>4, <2>10, PlansInOrder, TellsBoth
    <2> QED BY <2>5, <2>11, RestReports
  <1>6. CASE ReadUpdate(r)
    <2> DEFINE x == Head(q.plan).id
               n == [q EXCEPT !.data = Updated(tab, x)]
               i == Step("emit", x, TRUE)
    <2>1. Doing(r, "read")  BY <1>6 DEF ReadUpdate
    <2>2. x \in Monitor /\ Tail(q.plan) \in Seq(Item) /\ <<>> \in Seq(Item)
      BY <2>1, DoingItem
    <2>3. CASE x \notin DOMAIN tab
      <3>1. Rest(r, q, Tail(q.plan))  BY <1>6, <2>3 DEF ReadUpdate, Advance
      <3> QED BY <2>1, <2>3, <3>1, AdvanceReports
    <2>4. CASE x \in DOMAIN tab
      <3>1. Updated(tab, x) \in Row  BY <2>4, UpdatedIsRow DEF ServerOK
      <3>2. <<i>> \in Seq(Item)  BY <2>2, OneStepPlan
      <3>3. Rest(r, n, <<i>> \o Tail(q.plan))  BY <1>6, <2>4 DEF ReadUpdate
      <3>4. i.act = "emit" /\ i.id = x  BY DEF Step
      <3>5. q.plan \in Seq(Item) /\ q.plan # <<>>  BY <2>1 DEF Request, Doing
      <3>6. Tells(Tail(q.plan), m) \/ x = m
        <4>1. Tells(q.plan, m)  BY <2>1 DEF Owes, Doing
        <4> QED BY <3>5, <4>1, TellsTail
      <3> HIDE DEF x, i
      <3>7. Tells(<<i>>, x)  BY <3>4, TellsFirst
      <3>8. /\ <<i>> \o Tail(q.plan) \in Seq(Item)
            /\ Tells(<<i>> \o Tail(q.plan), m)
        BY <2>2, <3>2, <3>6, <3>7, PlansInOrder, TellsBoth
      <3>9. n \in Request  BY <3>1 DEF Request
      <3> HIDE DEF n
      <3> QED BY <3>3, <3>8, <3>9, RestReports
    <2> QED BY <2>3, <2>4
  <1>7. ~(FindToEdit(r) \/ FindToDelete(r) \/ Walk(r) \/ NestingDepth(r) \/ Switch(r))
    BY <1>1 DEF FindToEdit, FindToDelete, Walk, NestingDepth, Switch
  <1> QED BY <1>2, <1>3, <1>4, <1>5, <1>6, <1>7 DEF Quiet

\* What others owe is still owed.
LEMMA OwedStays ==
    ASSUME RequestsOK, NEW r \in Socket, NEW n, req' = [req EXCEPT ![r] = n],
           NEW m, Owed(m), ~Owes(req[r], m) \/ Reports(r, m)
    PROVE  Owed(m)'
  <1>1. PICK s \in Socket : Owes(req[s], m)  BY DEF Owed
  <1>2. req'[r] = n  BY DEF RequestsOK
  <1>3. CASE s = r
    <2>1. PICK k : req' = [req EXCEPT ![r] = k] /\ Owes(k, m)
      BY <1>1, <1>3 DEF Reports
    <2>2. req'[r] = k  BY <2>1 DEF RequestsOK
    <2> QED BY <2>1, <2>2 DEF Owed, Owes
  <1>4. CASE s # r
    <2>1. req'[s] = req[s]  BY <1>4 DEF RequestsOK
    <2> QED BY <1>1, <2>1 DEF Owed, Owes
  <1> QED BY <1>3, <1>4

LEMMA NowOwed ==
    ASSUME RequestsOK, NEW r \in Socket, NEW m, Reports(r, m) PROVE Owed(m)'
  <1>1. PICK k : req' = [req EXCEPT ![r] = k] /\ Owes(k, m)  BY DEF Reports
  <1>2. req'[r] = k  BY <1>1 DEF RequestsOK
  <1> QED BY <1>1, <1>2 DEF Owed, Owes

\* Nothing that the client has of a monitor changes.
LEMMA ShowsStays ==
    ASSUME ServerOK, NEW m \in DOMAIN tab \cap DOMAIN tab',
           tab'[m].parent \in {tab[m].parent, None},
           m \in DOMAIN mirror => m \in DOMAIN mirror' /\ mirror'[m] = mirror[m],
           Shows(m)
    PROVE  Shows(m)'
  BY DEF Shows

LEMMA MirrorBegin ==
    ASSUME Inv, MirrorInv, NEW r \in Socket, Begin(r) PROVE MirrorInv'
  <1>1. PICK q : BeginAs(r, q)
    BY DEF Begin, BeginAdd, BeginEdit, BeginDelete, BeginSwitch
  <1>2. /\ UNCHANGED <<tab, connected, list, mirror, late, silent>> /\ req[r] = Idle
        /\ req' = [req EXCEPT ![r] = q]
    BY <1>1 DEF BeginAs, clientVars
  <1>3. \A m : Owed(m) => Owed(m)'
    <2>1. \A m : ~Owes(req[r], m)  BY <1>2, IdleWorks DEF Owes
    <2> QED BY <1>2, <2>1, OwedStays DEF Inv
  <1>4. \A m : Shows(m) => Shows(m)'  BY <1>2 DEF Shows
  <1> SUFFICES ASSUME (connected /\ list.at = "none" /\ ~late)'
               PROVE  /\ DOMAIN mirror' \ DOMAIN tab' \subseteq silent'
                      /\ \A m \in DOMAIN tab' : Shows(m)' \/ Owed(m)'
    BY DEF MirrorInv
  <1> QED BY <1>2, <1>3, <1>4 DEF MirrorInv

LEMMA MirrorStoreNew ==
    ASSUME Inv, MirrorInv, NEW r \in Socket, StoreNew(r),
           UNCHANGED <<connected, list, mirror, late, silent>>
    PROVE  MirrorInv'
  <1> DEFINE q == req[r]
             n(m) == [q EXCEPT !.m = m]
  <1> USE RequestIs
  <1>1. q.at = "store"  BY DEF StoreNew
  <1>2. PICK m \in Monitor \ born :
         \/ /\ tab' = [x \in DOMAIN tab \cup {m} |->
                            IF x = m THEN q.new ELSE tab[x]]
            /\ Tell(r, n(m))
         \/ Refuse(r) /\ UNCHANGED tab
    BY DEF StoreNew
  <1>3. PICK k : req' = [req EXCEPT ![r] = k]
    BY <1>2 DEF Refuse, Tell, Rest
  <1>4. \A x : ~Owes(req[r], x)  BY <1>1 DEF Owes
  <1>5. \A x : Owed(x) => Owed(x)'  BY <1>3, <1>4, OwedStays
  <1> SUFFICES ASSUME (connected /\ list.at = "none" /\ ~late)'
               PROVE  /\ DOMAIN mirror' \ DOMAIN tab' \subseteq silent'
                      /\ \A x \in DOMAIN tab' : Shows(x)' \/ Owed(x)'
    BY DEF MirrorInv
  <1>6. /\ DOMAIN mirror \ DOMAIN tab \subseteq silent
        /\ \A x \in DOMAIN tab : Shows(x) \/ Owed(x)
    BY DEF MirrorInv
  <1>7. CASE UNCHANGED tab
    <2>1. \A x : Shows(x) => Shows(x)'  BY <1>7 DEF Shows
    <2> QED BY <1>5, <1>6, <1>7, <2>1
  <1>8. CASE /\ tab' = [x \in DOMAIN tab \cup {m} |-> IF x = m THEN q.new ELSE tab[x]]
             /\ Tell(r, n(m))
    <2>1. n(m) \in Request /\ n(m).m = m  BY DEF Request
    <2> HIDE DEF n
    <2>2. Owed(m)'  BY <1>8, <2>1, TellReports, NowOwed
    <2>3. ASSUME NEW x \in DOMAIN tab' PROVE Shows(x)' \/ Owed(x)'
      <3>1. CASE x = m  BY <2>2, <3>1
      <3>2. CASE x # m
        <4>1. x \in DOMAIN tab /\ tab'[x] = tab[x]  BY <1>8, <2>3, <3>2
        <4>2. Shows(x) => Shows(x)'  BY <4>1 DEF Shows
        <4> QED BY <1>5, <1>6, <4>1, <4>2
      <3> QED BY <3>1, <3>2
    <2> QED BY <1>6, <1>8, <2>3
  <1> QED BY <1>2, <1>7, <1>8

LEMMA MirrorStoreEdit ==
    ASSUME Inv, MirrorInv, NEW r \in Socket, StoreEdit(r),
           UNCHANGED <<connected, list, mirror, late, silent>>
    PROVE  MirrorInv'
  <1> DEFINE q == req[r]
             place == IF q.was.group /\ ~q.new.group THEN "unlink" ELSE "restart"
  <1> USE RequestIs
  <1>1. q.at = "store" /\ q.op = "edit"  BY DEF StoreEdit
  <1>2. \/ Refuse(r) /\ UNCHANGED tab
        \/ /\ Goto(r, q, place)
           /\ \/ UNCHANGED tab
              \/ q.m \in DOMAIN tab /\ \E row : tab' = [tab EXCEPT ![q.m] = row]
    BY DEF StoreEdit
  <1>3. PICK k : req' = [req EXCEPT ![r] = k]
    BY <1>2 DEF Refuse, Goto
  <1>4. \A x : ~Owes(req[r], x)  BY <1>1 DEF Owes
  <1>5. \A x : Owed(x) => Owed(x)'  BY <1>3, <1>4, OwedStays
  <1> SUFFICES ASSUME (connected /\ list.at = "none" /\ ~late)'
               PROVE  /\ DOMAIN mirror' \ DOMAIN tab' \subseteq silent'
                      /\ \A x \in DOMAIN tab' : Shows(x)' \/ Owed(x)'
    BY DEF MirrorInv
  <1>6. /\ DOMAIN mirror \ DOMAIN tab \subseteq silent
        /\ \A x \in DOMAIN tab : Shows(x) \/ Owed(x)
    BY DEF MirrorInv
  <1>7. CASE UNCHANGED tab
    <2>1. \A x : Shows(x) => Shows(x)'  BY <1>7 DEF Shows
    <2> QED BY <1>5, <1>6, <1>7, <2>1
  <1>8. CASE /\ Goto(r, q, place) /\ q.m \in DOMAIN tab
             /\ \E row : tab' = [tab EXCEPT ![q.m] = row]
    <2>1. place \in Places /\ place \in {"unlink", "restart"}  BY DEF Places
    <2> HIDE DEF place
    <2>2. Reports(r, q.m)
      <3>1. PICK n \in Request : /\ req' = [req EXCEPT ![r] = n]
                                 /\ n.at = place /\ n.op = q.op /\ n.m = q.m
        BY <1>8, <2>1, GotoIs
      <3> QED BY <1>1, <2>1, <3>1 DEF Reports, Owes
    <2>3. PICK y : y = q.m  OBVIOUS
    <2>4. Owed(y)'  BY <2>2, <2>3, NowOwed
    <2>5. DOMAIN tab' = DOMAIN tab /\ \A x \in DOMAIN tab \ {y} : tab'[x] = tab[x]
      BY <1>8, <2>3, TableValues DEF ServerOK
    <2>6. ASSUME NEW x \in DOMAIN tab' PROVE Shows(x)' \/ Owed(x)'
      <3>1. CASE x = y  BY <2>4, <3>1
      <3>2. CASE x # y
        <4>1. x \in DOMAIN tab /\ tab'[x] = tab[x]  BY <2>5, <2>6, <3>2
        <4>2. Shows(x) => Shows(x)'  BY <4>1 DEF Shows
        <4> QED BY <1>5, <1>6, <4>1, <4>2
      <3> QED BY <3>1, <3>2
    <2> QED BY <1>6, <2>5, <2>6
  <1> QED BY <1>2, <1>7, <1>8

LEMMA MirrorQuiet ==
    ASSUME Inv, DeleteInv, MirrorInv, NEW r \in Socket, Quiet(r),
           UNCHANGED <<connected, list>>
    PROVE  MirrorInv'
  <1> USE RequestIs
  <1>1. UNCHANGED <<mirror, late, silent>>  BY DEF Quiet
  <1>2. Sheds /\ Minds(r)  BY QuietSheds
  <1>3. DOMAIN tab' = DOMAIN tab  BY QuietWorks DEF DeleteInv
  <1>4. PICK k : req' = [req EXCEPT ![r] = k]  BY <1>2 DEF Minds
  <1>5. ASSUME NEW x \in DOMAIN tab, Owed(x) PROVE Owed(x)'
    BY <1>4, <1>5, OwedStays, QuietReports DEF DeleteInv
  <1>6. ASSUME NEW x \in DOMAIN tab, Shows(x) PROVE Shows(x)'
    BY <1>1, <1>2, <1>3, <1>6 DEF Sheds, Shows
  <1> SUFFICES ASSUME (connected /\ list.at = "none" /\ ~late)'
               PROVE  /\ DOMAIN mirror' \ DOMAIN tab' \subseteq silent'
                      /\ \A x \in DOMAIN tab' : Shows(x)' \/ Owed(x)'
    BY DEF MirrorInv
  <1> QED BY <1>1, <1>3, <1>5, <1>6 DEF MirrorInv

LEMMA MirrorRemove ==
    ASSUME Inv, MirrorInv, NEW r \in Socket, RemoveRow(r), UNCHANGED <<connected, list>>
    PROVE  MirrorInv'
  <1> USE RequestIs
  <1> DEFINE i == Head(req[r].plan)
  <1>1. /\ Doing(r, "remove") /\ Rest(r, req[r], Tail(req[r].plan)) /\ UNCHANGED late
        /\ tab' = Without(tab, i.id)
    BY DEF RemoveRow, Advance
  <1>2. Sheds  BY QuietSheds DEF Announce
  <1>3. PICK k : req' = [req EXCEPT ![r] = k]  BY <1>1 DEF Rest
  <1>4. ASSUME NEW x, Owed(x) PROVE Owed(x)'
    <2>1. Owes(req[r], x) => Reports(r, x)
      <3>1. "remove" \notin {"read", "emit"}  OBVIOUS
      <3> HIDE DEF i
      <3> QED BY <1>1, <3>1, AdvanceReports
    <2> QED BY <1>3, <1>4, <2>1, OwedStays
  <1> SUFFICES ASSUME (connected /\ list.at = "none" /\ ~late)'
               PROVE  /\ DOMAIN mirror' \ DOMAIN tab' \subseteq silent'
                      /\ \A x \in DOMAIN tab' : Shows(x)' \/ Owed(x)'
    BY DEF MirrorInv
  <1>5. /\ DOMAIN mirror \ DOMAIN tab \subseteq silent /\ connected
        /\ \A x \in DOMAIN tab : Shows(x) \/ Owed(x)
    BY <1>1 DEF MirrorInv
  <1>6. \/ /\ mirror' = [m \in DOMAIN mirror \ {i.id} |-> mirror[m]]
           /\ UNCHANGED silent
        \/ silent' = silent \cup {i.id} /\ UNCHANGED mirror
    BY <1>5 DEF RemoveRow
  <1>7. DOMAIN tab' = DOMAIN tab \ {i.id}  BY <1>1 DEF Without
  <1> HIDE DEF i
  <1>8. DOMAIN mirror' \ DOMAIN tab' \subseteq silent'  BY <1>5, <1>6, <1>7
  <1>9. ASSUME NEW x \in DOMAIN tab' PROVE Shows(x)' \/ Owed(x)'
    <2>1. x \in DOMAIN tab /\ x # i.id  BY <1>7
    <2>2. Shows(x) => Shows(x)'  BY <1>2, <1>6, <2>1 DEF Sheds, Shows
    <2> QED BY <1>4, <1>5, <2>1, <2>2
  <1> QED BY <1>8, <1>9

LEMMA UpdatedParent ==
    ASSUME NEW t \in Table, NEW m \in DOMAIN t
    PROVE  Updated(t, m).parent = t[m].parent
  <1> DEFINE a == t[m].active /\ t[m].parent \in {None, m}
  <1>1. t[m] \in Row  BY TableValues
  <1>2. Updated(t, m) = [t[m] EXCEPT !.active = a]  BY DEF Updated
  <1> HIDE DEF a
  <1> QED BY <1>1, <1>2 DEF Row

LEMMA ListedParents ==
    ASSUME NEW t \in Table
    PROVE  /\ DOMAIN Listed(t) = DOMAIN t
           /\ \A m \in DOMAIN t : Listed(t)[m].parent = t[m].parent
  <1>1. DOMAIN Listed(t) = DOMAIN t  BY DEF Listed
  <1>2. ASSUME NEW m \in DOMAIN t PROVE Listed(t)[m].parent = t[m].parent
    <2> DEFINE a == t[m].active /\ ParentActive(t, m)
    <2>1. t[m] \in Row  BY TableValues
    <2>2. Listed(t)[m] = [t[m] EXCEPT !.active = a]  BY DEF Listed
    <2> HIDE DEF a
    <2> QED BY <2>1, <2>2 DEF Row
  <1> QED BY <1>1, <1>2

LEMMA MirrorEmit ==
    ASSUME Inv, MirrorInv, NEW r \in Socket, EmitUpdate(r), UNCHANGED <<connected, list>>
    PROVE  MirrorInv'
  <1> USE RequestIs
  <1> DEFINE y == Head(req[r].plan).id
             d == req[r].data
  <1>1. /\ Doing(r, "emit") /\ Rest(r, req[r], Tail(req[r].plan))
        /\ UNCHANGED <<tab, silent>>
        /\ late' = (late \/ ~(y \in DOMAIN tab /\ d = Updated(tab, y)))
        /\ connected =>
             mirror' = [x \in DOMAIN mirror \cup {y} |-> IF x = y THEN d ELSE mirror[x]]
    BY DEF EmitUpdate, Advance
  <1>2. PICK k : req' = [req EXCEPT ![r] = k]  BY <1>1 DEF Rest
  <1>3. ASSUME NEW x, Owed(x), x # y PROVE Owed(x)'
    BY <1>1, <1>2, <1>3, OwedStays, AdvanceReports
  <1> SUFFICES ASSUME (connected /\ list.at = "none" /\ ~late)'
               PROVE  /\ DOMAIN mirror' \ DOMAIN tab' \subseteq silent'
                      /\ \A x \in DOMAIN tab' : Shows(x)' \/ Owed(x)'
    BY DEF MirrorInv
  <1>4. connected /\ list.at = "none" /\ ~late  BY <1>1
  <1>5. /\ DOMAIN mirror \ DOMAIN tab \subseteq silent
        /\ \A x \in DOMAIN tab : Shows(x) \/ Owed(x)
    BY <1>4 DEF MirrorInv
  <1>6. y \in DOMAIN tab /\ d.parent = tab[y].parent
    BY <1>1, UpdatedParent DEF ServerOK
  <1>7. mirror' = [x \in DOMAIN mirror \cup {y} |-> IF x = y THEN d ELSE mirror[x]]
    BY <1>1, <1>4
  <1> HIDE DEF y, d
  <1>8. ASSUME NEW x \in DOMAIN tab' PROVE Shows(x)' \/ Owed(x)'
    <2>1. CASE x = y  BY <1>1, <1>6, <1>7, <2>1 DEF Shows
    <2>2. CASE x # y
      <3>1. Shows(x) => Shows(x)'  BY <1>1, <1>7, <2>2 DEF Shows
      <3> QED BY <1>1, <1>3, <1>5, <2>2, <3>1
    <2> QED BY <2>1, <2>2
  <1> QED BY <1>1, <1>5, <1>6, <1>7, <1>8

LEMMA MirrorConnection ==
    ASSUME Inv, MirrorInv, Connection PROVE MirrorInv'
  <1>1. UNCHANGED <<tab, req, silent>>  BY DEF Connection, serverVars
  <1> SUFFICES ASSUME (connected /\ list.at = "none" /\ ~late)'
               PROVE  /\ DOMAIN mirror' \ DOMAIN tab' \subseteq silent'
                      /\ \A x \in DOMAIN tab' : Shows(x)' \/ Owed(x)'
    BY DEF MirrorInv
  <1>2. EmitList
    <2>1. ~Disconnect  BY Zenon DEF Disconnect
    <2>2. list'.at = "none"  BY Zenon
    <2>3. ~Reconnect  BY <2>2 DEF Reconnect
    <2>4. ASSUME ReadList PROVE FALSE
      <3>1. PICK d : list' = [at |-> "read", data |-> d]  BY <2>4, Zenon DEF ReadList
      <3> QED BY <2>2, <3>1
    <2> QED BY <2>1, <2>3, <2>4 DEF Connection
  <1>3. mirror' = Listed(tab)
    BY <1>2 DEF EmitList
  <1>4. /\ DOMAIN mirror' = DOMAIN tab
        /\ \A m \in DOMAIN tab : mirror'[m].parent = tab[m].parent
    BY <1>3, ListedParents DEF Inv, ServerOK
  <1> QED BY <1>1, <1>4 DEF Shows

LEMMA MirrorOK == Inv /\ DeleteInv /\ MirrorInv /\ [Next]_vars => MirrorInv'
  <1> SUFFICES ASSUME Inv, DeleteInv, MirrorInv, [Next]_vars PROVE MirrorInv'  OBVIOUS
  <1>1. CASE Next
    <2>1. ASSUME NEW r \in Socket, Store(r) PROVE MirrorInv'
      BY <2>1, MirrorStoreNew, MirrorStoreEdit DEF Store, clientVars
    <2>2. ASSUME NEW r \in Socket, Announce(r), UNCHANGED <<connected, list>>
          PROVE  MirrorInv'
      BY <2>2, MirrorRemove, MirrorEmit DEF Announce
    <2> QED BY <1>1, <2>1, <2>2, MirrorBegin, MirrorQuiet, MirrorConnection DEF Next, Go
  <1>2. CASE UNCHANGED vars
    <2>1. UNCHANGED <<tab, req, connected, list, mirror, late, silent>>  BY <1>2 DEF vars
    <2> QED BY <2>1 DEF MirrorInv, Shows, Owed
  <1> QED BY <1>1, <1>2

LEMMA MirrorInit == Init => MirrorInv
  <1> SUFFICES ASSUME Init PROVE MirrorInv  OBVIOUS
  <1>1. tab \in Table /\ mirror = Listed(tab)  BY TreeAssumption DEF Init
  <1>2. /\ DOMAIN mirror = DOMAIN tab
        /\ \A m \in DOMAIN tab : mirror[m].parent = tab[m].parent
    BY <1>1, ListedParents
  <1> QED BY <1>2 DEF MirrorInv, Shows

\* For any monitors, requests and lost connections: the copy of a client holds
\* every monitor in its group, and of the deleted ones only those two levels
\* below a group that was deleted (server.js 1185-1234,
\* uptime-kuma-server.js 218-250), unless a list or an update was overtaken
\* between its query and its emission.
THEOREM MirrorCatchesUp == Spec => []MirrorFollows
  <1>1. MirrorInv => MirrorFollows
    <2> SUFFICES ASSUME MirrorInv, connected, list.at = "none", Resting, ~late
                 PROVE  /\ DOMAIN tab \subseteq DOMAIN mirror
                        /\ DOMAIN mirror \ DOMAIN tab \subseteq silent
                        /\ \A m \in DOMAIN tab : tab[m].parent \in {None, mirror[m].parent}
      BY DEF MirrorFollows
    <2>1. \A m : ~Owed(m)  BY IdleWorks DEF Owed, Owes, Resting
    <2> QED BY <2>1 DEF MirrorInv, Shows
  <1>2. Init /\ [][Next]_vars => []MirrorInv
    BY InitOK, NextOK, DeleteInit, DeleteOK, MirrorInit, MirrorOK, PTL
  <1> QED BY <1>1, <1>2, PTL DEF Spec
=============================================================================
