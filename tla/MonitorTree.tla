---------------------------- MODULE MonitorTree ----------------------------
(***************************************************************************)
(* The groups of a server: the socket requests that add, edit, pause,      *)
(* resume and delete monitors (server/server.js), the walks over the       *)
(* parents that they make query by query (server/model/monitor.js), the    *)
(* events that tell the clients (server/uptime-kuma-server.js), and the    *)
(* copy of the monitor list that such a client keeps (the Vue client,      *)
(* iris-public and iris-catalog).                                          *)
(*                                                                         *)
(* An action is one step of a request: a query and what follows it up to   *)
(* the next await.  All else can happen between two steps.                 *)
(***************************************************************************)
EXTENDS Naturals, FiniteSets, Sequences, SequencesExt

CONSTANTS
    Monitor, None,   \* ids of rows, never used twice; no id
    Socket,          \* requests that may be under way at once
    Operations,      \* the kinds of requests that occur
    MaxDepth,        \* ten levels in the code
    MaxEvents,       \* bound on the requests and the connections lost
    Starts           \* the tables there may be at first

Row == [parent : Monitor \cup {None}, group : BOOLEAN, active : BOOLEAN]

Table == UNION {[S -> Row] : S \in SUBSET Monitor}

ASSUME TreeAssumption ==
    /\ IsFiniteSet(Monitor) /\ None \notin Monitor /\ MaxDepth \in Nat \ {0}
    /\ MaxEvents \in Nat
    /\ Starts \subseteq Table

\* The server starts with monitors that form a forest, whose parents are groups.
ASSUME StartAssumption ==
    \A t \in Starts :
        /\ \A m \in DOMAIN t : t[m].parent \in DOMAIN t \cup {None}
        /\ \A S \in SUBSET DOMAIN t : S # {} => \E m \in S : t[m].parent \notin S
        /\ \A m \in DOMAIN t : t[m].parent # None => t[t[m].parent].group

VARIABLES
    tab,        \* the table monitor
    born,       \* the ids given so far
    req,        \* the socket requests under way
    requests,
    connected,  \* the client's connection, and how often it broke
    drops,
    list,       \* the full list that a login sends
    mirror,     \* the client's copy
    \* Kept for the properties:
    changed,    \* another request stored a monitor since this one began
    raced,      \* a parent was stored although its check was out of date
    looped,     \* a monitor was stored as its own parent
    tall,       \* a group was moved together with what is in it
    mistyped,   \* a group became none in an edit that had read it as none
    late,       \* an event said what was no longer so
    silent,     \* rows deleted without an event
    under,      \* what has been below the monitor of a request
    kept        \* the parents, as of the first race or loop

serverVars == <<tab, born, req, requests>>
clientVars == <<connected, drops, list, mirror>>
vars == <<tab, born, req, requests, connected, drops, list, mirror,
          changed, raced, looped, tall, mistyped, late, silent, under, kept>>
-----------------------------------------------------------------------------
(* Trees                                                                   *)

Parents(t) == [m \in DOMAIN t |-> t[m].parent]

ChildrenOf(t, m) == {c \in DOMAIN t : t[c].parent = m}

\* The ancestors of m, itself among them if it is in a cycle.
Above(t, m) ==
    LET up[n \in 0 .. Cardinality(Monitor)] ==
          IF n = 0 THEN {}
          ELSE {t[x].parent : x \in up[n - 1] \cup {m}} \cap DOMAIN t
    IN  up[Cardinality(Monitor)]

ParentActive(t, m) == \A a \in Above(t, m) : t[a].active

\* A monitor is its own parent.
NamesItself(t) == \E m \in DOMAIN t : t[m].parent = m

\* The line above m ends: it leads into no cycle.
Rises(t, m) == \E a \in Above(t, m) \cup {m} : t[a].parent \notin DOMAIN t

\* Lines of n + 1 monitors, each in the next.
Lines(t, n) ==
    {s \in [0 .. n -> DOMAIN t] : \A i \in 1 .. n : t[s[i - 1]].parent = s[i]}

\* It starts with none that is too deep.
ASSUME DepthAssumption == \A t \in Starts : Lines(t, MaxDepth) = {}

\* Mutant: the foreign key deletes the children.
WithoutBranch(t, m) ==
    [x \in {y \in DOMAIN t \ {m} : t[y].parent # m} |-> t[x]]

\* A row without m; the foreign key sets its children free.
Without(t, m) ==
    [x \in DOMAIN t \ {m} |->
        IF t[x].parent = m THEN [t[x] EXCEPT !.parent = None] ELSE t[x]]

\* Mutant: the children of what is no longer a group stay.
UnlinkedNot(t, g) == t

Unlinked(t, g) ==
    [x \in DOMAIN t |-> IF t[x].parent = g THEN [t[x] EXCEPT !.parent = None] ELSE t[x]]

\* What the full list says of a monitor, from the tree of all.
Listed(t) == [m \in DOMAIN t |->
                [t[m] EXCEPT !.active = @ /\ ParentActive(t, m)]]

\* What an update says, from a tree that holds that monitor alone: any other
\* parent is not in it, and counts as inactive.
Updated(t, m) == [t[m] EXCEPT !.active = @ /\ t[m].parent \in {None, m}]
-----------------------------------------------------------------------------
(* Requests                                                                *)

Fresh == [parent |-> None, group |-> FALSE, active |-> TRUE]

\* A request is at a place in its handler; at "rest" it works through a plan
\* of what is left to do with single monitors.  top: the client is told.
Step(a, m, top) == [act |-> a, id |-> m, top |-> top]

Idle == [op |-> "none", at |-> "none", m |-> None, new |-> Fresh, was |-> Fresh,
         todo |-> {}, seen |-> {}, cur |-> None, depth |-> 0,
         data |-> Fresh, plan |-> <<>>]

Doing(r, a) == req[r].at = "rest" /\ req[r].plan # <<>> /\ Head(req[r].plan).act = a

Goto(r, q, place) == req' = [req EXCEPT ![r] = [q EXCEPT !.at = place]]

\* r goes on with plan, or is answered when nothing is left to do.
Rest(r, q, plan) ==
    req' = [req EXCEPT ![r] = IF plan = <<>> THEN Idle
                              ELSE [q EXCEPT !.at = "rest", !.plan = plan]]

Advance(r) == Rest(r, req[r], Tail(req[r].plan))

\* A check fails or a query throws: the error is the answer.
Refuse(r) == req' = [req EXCEPT ![r] = Idle]

\* The last thing that edit, pause and resume do, and add before the new monitor
\* is started.
Tell(r, q) ==
    Rest(r, q, <<Step("read", q.m, TRUE)>>
               \o (IF q.op = "add" THEN <<Step("start", q.m, TRUE)>> ELSE <<>>))

\* A step for each monitor of a list.
Each(s, a, top) == [i \in DOMAIN s |-> Step(a, s[i], top)]

\* A request takes what a client has: a parent is any group in its list.  That may
\* be the edited monitor itself, which the page does not offer, but iris-sync may
\* send, and which the handler accepts.
Offers == {None} \cup {g \in DOMAIN mirror : mirror[g].group}

\* Adds that have not stored their monitor yet; there are ids for all of them.
Adding == {s \in Socket : req[s].op = "add" /\ req[s].at # "rest"}

Stale(p) == p # None /\ ~(p \in DOMAIN tab /\ tab[p].group)

BeginAs(r, q) ==
    /\ req[r] = Idle /\ requests + drops < MaxEvents
    /\ requests' = requests + 1
    /\ req' = [req EXCEPT ![r] = q]
    /\ changed' = [changed EXCEPT ![r] = Stale(q.new.parent)]
    /\ UNCHANGED <<tab, born, clientVars, raced, tall, mistyped, late, silent>>

BeginAdd(r) ==
    \E p \in Offers, g \in BOOLEAN :
        /\ "add" \in Operations
        /\ Cardinality(born) + Cardinality(Adding) < Cardinality(Monitor)
        /\ BeginAs(r, [Idle EXCEPT
              !.op = "add", !.at = IF p = None THEN "store" ELSE "depth",
              !.new = [Fresh EXCEPT !.parent = p, !.group = g], !.cur = p])

BeginEdit(r) ==
    \E m \in DOMAIN mirror, g \in BOOLEAN, p \in Offers :
        /\ "edit" \in Operations
        /\ BeginAs(r, [Idle EXCEPT
              !.op = "edit", !.at = "find", !.m = m,
              !.new = [Fresh EXCEPT !.parent = p, !.group = g]])

BeginDelete(r) ==
    \E m \in DOMAIN mirror, all \in BOOLEAN :
        /\ "delete" \in Operations
        /\ BeginAs(r, [Idle EXCEPT !.op = IF all THEN "deleteAll" ELSE "delete",
                                   !.at = "find", !.m = m])

\* Pause and resume.
BeginSwitch(r) ==
    \E m \in DOMAIN mirror, a \in BOOLEAN :
        /\ "switch" \in Operations
        /\ BeginAs(r, [Idle EXCEPT !.op = "switch", !.at = "switch", !.m = m,
                                   !.new = [Fresh EXCEPT !.active = a]])

\* editMonitor reads the row.
FindToEdit(r) ==
    LET q == req[r] IN
    /\ q.op = "edit" /\ q.at = "find"
    /\ IF q.m \notin DOMAIN tab THEN Refuse(r)
       ELSE Goto(r, [q EXCEPT !.was = tab[q.m], !.todo = {q.m}, !.cur = q.new.parent],
                 IF q.new.parent = None THEN "store" ELSE "walk")
    /\ UNCHANGED <<tab, raced>>

\* deleteMonitor reads the row and, of a group, the children.
FindToDelete(r) ==
    LET q == req[r]
        group == q.m \in DOMAIN tab /\ tab[q.m].group
        last  == <<Step("remove", q.m, TRUE)>>
    IN
    /\ q.op \in {"delete", "deleteAll"} /\ q.at = "find"
    /\ IF ~group THEN Rest(r, q, last)
       ELSE \E s \in SetToSeqs(ChildrenOf(tab, q.m)) :
              IF q.op = "deleteAll"
              THEN Rest(r, q, Each(s, "visit", TRUE) \o last)
              ELSE Goto(r, [q EXCEPT !.plan = Each(s, "read", TRUE) \o last], "unlink")
    /\ UNCHANGED <<tab, raced>>

\* Mutant: what the walk finds is not looked at.
WalkInVain(r) == req[r].at = "walk" /\ Goto(r, req[r], "depth") /\ UNCHANGED <<tab, raced>>

\* One query of getAllChildrenIDs; after the last, the new parent is looked for.
Walk(r) ==
    LET q == req[r] IN
    /\ q.at = "walk"
    /\ \E x \in q.todo :
         LET found == ChildrenOf(tab, x) \ q.seen
             todo  == (q.todo \ {x}) \cup found
             seen  == q.seen \cup found
         IN  IF todo = {} /\ q.new.parent \in seen THEN Refuse(r)
             ELSE Goto(r, [q EXCEPT !.todo = todo, !.seen = seen],
                       IF todo = {} THEN "depth" ELSE "walk")
    /\ UNCHANGED <<tab, raced>>

\* Mutant: the depth of the parent is compared, not that of the monitor.
NestingDepthOfParent(r) ==
    LET q     == req[r]
        depth == IF q.depth > MaxDepth THEN q.depth ELSE q.depth + 1
        up    == IF q.cur \in DOMAIN tab THEN tab[q.cur].parent ELSE None
    IN
    /\ q.at = "depth"
    /\ IF up = None /\ depth > MaxDepth THEN Refuse(r)
       ELSE Goto(r, [q EXCEPT !.cur = up, !.depth = depth],
                 IF up = None THEN "store" ELSE "depth")
    /\ UNCHANGED <<tab, raced>>

\* Mutant: the same parent is asked for again and again.
NestingDepthInPlace(r) ==
    LET q     == req[r]
        depth == IF q.depth = MaxDepth THEN MaxDepth ELSE q.depth + 1
        up    == IF q.new.parent \in DOMAIN tab THEN tab[q.new.parent].parent ELSE None
    IN
    /\ q.at = "depth"
    /\ IF up = None /\ depth + 1 > MaxDepth THEN Refuse(r)
       ELSE Goto(r, [q EXCEPT !.cur = up, !.depth = depth],
                 IF up = None THEN "store" ELSE "depth")
    /\ UNCHANGED <<tab, raced>>

\* One query of getNestingDepth, whose caller refuses what is too deep.
NestingDepth(r) ==
    LET q     == req[r]
        depth == IF q.depth = MaxDepth THEN MaxDepth ELSE q.depth + 1
        up    == IF q.cur \in DOMAIN tab THEN tab[q.cur].parent ELSE None
    IN
    /\ q.at = "depth"
    /\ IF up = None /\ depth + 1 > MaxDepth THEN Refuse(r)
       ELSE Goto(r, [q EXCEPT !.cur = up, !.depth = depth],
                 IF up = None THEN "store" ELSE "depth")
    /\ UNCHANGED <<tab, raced>>

\* The row is stored.  The foreign key refuses a parent that is gone; an
\* update of a row that is gone does nothing.
Exists(p) == p \in DOMAIN tab \cup {None}

\* Mutant: ids are given again.
StoreNewReusing(r) ==
    LET q == req[r] IN
    /\ q.op = "add" /\ q.at = "store"
    /\ \E m \in Monitor \ DOMAIN tab :
         IF Exists(q.new.parent)
         THEN /\ tab' = [x \in DOMAIN tab \cup {m} |->
                            IF x = m THEN q.new ELSE tab[x]]
              /\ raced' = (raced \/ changed[r])
              /\ Tell(r, [q EXCEPT !.m = m])
         ELSE Refuse(r) /\ UNCHANGED <<tab, raced>>
    /\ UNCHANGED <<born, tall, mistyped>>

StoreNew(r) ==
    LET q == req[r] IN
    /\ q.op = "add" /\ q.at = "store"
    /\ \E m \in Monitor \ born :
         IF Exists(q.new.parent)
         THEN /\ tab' = [x \in DOMAIN tab \cup {m} |->
                            IF x = m THEN q.new ELSE tab[x]]
              /\ born' = born \cup {m}
              /\ raced' = (raced \/ changed[r])
              /\ Tell(r, [q EXCEPT !.m = m])
         ELSE Refuse(r) /\ UNCHANGED <<tab, born, raced>>
    /\ UNCHANGED <<tall, mistyped>>

StoreEdit(r) ==
    LET q == req[r]
        unlinks == q.was.group /\ ~q.new.group
    IN
    /\ q.op = "edit" /\ q.at = "store"
    /\ IF q.m \in DOMAIN tab /\ ~Exists(q.new.parent)
       THEN Refuse(r) /\ UNCHANGED <<tab, raced, tall, mistyped>>
       ELSE /\ Goto(r, q, IF unlinks THEN "unlink" ELSE "restart")
            /\ IF q.m \notin DOMAIN tab THEN UNCHANGED <<tab, raced, tall, mistyped>>
               ELSE /\ tab' = [tab EXCEPT ![q.m] = [@ EXCEPT !.parent = q.new.parent,
                                                             !.group = q.new.group]]
                    /\ raced' = (raced \/ (q.new.parent # None /\ changed[r]))
                    /\ tall' = (tall \/ ( /\ q.new.parent # None
                                          /\ ChildrenOf(tab, q.m) # {}))
                    /\ mistyped' = (mistyped \/ ( /\ tab[q.m].group
                                                  /\ ~q.new.group /\ ~unlinks))
    /\ UNCHANGED born

UnlinkChildren(r) ==
    LET q == req[r] IN
    /\ q.at = "unlink"
    /\ tab' = Unlinked(tab, q.m)
    /\ IF q.op = "edit" THEN Goto(r, q, "restart") ELSE Rest(r, q, q.plan)
    /\ UNCHANGED raced

\* isActive, which takes a cycle for inactive, then restartMonitor, which sets
\* active; its checkOwner throws when the row is gone.
Restart(r) ==
    LET q == req[r]
        active == q.was.active /\ (q.m \in DOMAIN tab => ParentActive(tab, q.m) /\ Rises(tab, q.m))
    IN
    /\ q.at = "restart"
    /\ IF active /\ q.m \notin DOMAIN tab THEN Refuse(r) /\ UNCHANGED tab
       ELSE /\ tab' = IF active THEN [tab EXCEPT ![q.m] = [@ EXCEPT !.active = TRUE]]
                      ELSE tab
            /\ Tell(r, q)
    /\ UNCHANGED raced

Switch(r) ==
    LET q == req[r] IN
    /\ q.at = "switch"
    /\ IF q.m \notin DOMAIN tab THEN Refuse(r) /\ UNCHANGED tab
       ELSE /\ tab' = [tab EXCEPT ![q.m] = [@ EXCEPT !.active = q.new.active]]
            /\ Tell(r, q)
    /\ UNCHANGED raced

\* add starts what it has stored: startMonitor sets active.
StartNew(r) ==
    LET m == Head(req[r].plan).id IN
    /\ Doing(r, "start")
    /\ IF m \notin DOMAIN tab THEN Refuse(r) /\ UNCHANGED tab
       ELSE tab' = [tab EXCEPT ![m] = [@ EXCEPT !.active = TRUE]] /\ Advance(r)
    /\ UNCHANGED raced

\* deleteMonitorRecursively looks at a row and its children, which are deleted
\* before it.  Longer plans than MaxPlan occur only below a cycle.
MaxPlan == 2 * Cardinality(Monitor)

Visit(r) ==
    LET q == req[r]
        x == Head(q.plan)
        children == IF x.id \in DOMAIN tab /\ tab[x.id].group
                    THEN ChildrenOf(tab, x.id) ELSE {}
    IN
    /\ Doing(r, "visit") /\ Len(q.plan) <= MaxPlan
    /\ \E s \in SetToSeqs(children) :
         Rest(r, q, Each(s, "visit", FALSE) \o <<Step("remove", x.id, x.top)>>
                                            \o Tail(q.plan))
    /\ UNCHANGED <<tab, raced>>

RemoveRow(r) ==
    LET x == Head(req[r].plan) IN
    /\ Doing(r, "remove")
    /\ tab' = Without(tab, x.id)
    /\ Advance(r)
    /\ IF x.top
       THEN /\ mirror' = IF connected
                         THEN [m \in DOMAIN mirror \ {x.id} |-> mirror[m]] ELSE mirror
            /\ UNCHANGED silent
       ELSE silent' = silent \cup {x.id} /\ UNCHANGED mirror
    /\ UNCHANGED <<raced, late>>
-----------------------------------------------------------------------------
(* Events                                                                  *)

\* sendUpdateMonitorIntoList reads a row; of one that is gone it says nothing.
ReadUpdate(r) ==
    LET q == req[r]
        m == Head(q.plan).id
    IN
    /\ Doing(r, "read")
    /\ IF m \notin DOMAIN tab THEN Advance(r)
       ELSE Rest(r, [q EXCEPT !.data = Updated(tab, m)],
                 <<Step("emit", m, TRUE)>> \o Tail(q.plan))
    /\ UNCHANGED <<tab, raced>>

\* A client that is connected merges it into its list.
EmitUpdate(r) ==
    LET m == Head(req[r].plan).id
        d == req[r].data
    IN
    /\ Doing(r, "emit")
    /\ mirror' = IF connected
                 THEN [x \in DOMAIN mirror \cup {m} |-> IF x = m THEN d ELSE mirror[x]]
                 ELSE mirror
    /\ late' = (late \/ ~(m \in DOMAIN tab /\ d = Updated(tab, m)))
    /\ Advance(r)
    /\ UNCHANGED <<tab, raced, silent>>

Nothing == [x \in {} |-> Fresh]

Disconnect ==
    /\ connected /\ requests + drops < MaxEvents
    /\ connected' = FALSE /\ drops' = drops + 1
    /\ list' = [at |-> "none", data |-> Nothing]
    /\ UNCHANGED <<mirror, late>>

\* The client logs in again, and is sent the full list.
Reconnect ==
    /\ ~connected
    /\ connected' = TRUE
    /\ list' = [at |-> "due", data |-> Nothing]
    /\ UNCHANGED <<drops, mirror, late>>

ReadList ==
    /\ list.at = "due"
    /\ list' = [at |-> "read", data |-> Listed(tab)]
    /\ UNCHANGED <<connected, drops, mirror, late>>

\* Mutant: the client merges the full list as it does an update.
EmitListMerged ==
    /\ list.at = "read"
    /\ mirror' = [m \in DOMAIN mirror \cup DOMAIN list.data |->
                     IF m \in DOMAIN list.data THEN list.data[m] ELSE mirror[m]]
    /\ late' = (late \/ list.data # Listed(tab))
    /\ list' = [at |-> "none", data |-> Nothing]
    /\ UNCHANGED <<connected, drops>>

EmitList ==
    /\ list.at = "read"
    /\ mirror' = list.data
    /\ late' = (late \/ list.data # Listed(tab))
    /\ list' = [at |-> "none", data |-> Nothing]
    /\ UNCHANGED <<connected, drops>>
-----------------------------------------------------------------------------
Init ==
    /\ tab \in Starts
    /\ born = DOMAIN tab
    /\ req = [r \in Socket |-> Idle]
    /\ requests = 0 /\ drops = 0
    /\ connected = TRUE
    /\ list = [at |-> "none", data |-> Nothing]
    /\ mirror = Listed(tab)
    /\ changed = [r \in Socket |-> FALSE]
    /\ raced = FALSE /\ looped = FALSE /\ tall = FALSE /\ mistyped = FALSE /\ late = FALSE
    /\ silent = {}
    /\ under = [r \in Socket |-> {}]
    /\ kept = Parents(tab)

Begin(r) == BeginAdd(r) \/ BeginEdit(r) \/ BeginDelete(r) \/ BeginSwitch(r)

\* Steps that store a monitor: the others' checks are out of date.
Store(r) ==
    /\ StoreNew(r) \/ StoreEdit(r)
    /\ changed' = [s \in Socket |-> (changed[s] \/ s # r) /\ req'[s] # Idle]
    /\ UNCHANGED <<requests, clientVars, late, silent>>

Quiet(r) ==
    /\ \/ FindToEdit(r) \/ FindToDelete(r) \/ Walk(r) \/ NestingDepth(r)
       \/ UnlinkChildren(r) \/ Restart(r) \/ Switch(r) \/ StartNew(r) \/ Visit(r)
       \/ ReadUpdate(r)
    /\ UNCHANGED <<mirror, late, silent>>

Announce(r) == RemoveRow(r) \/ EmitUpdate(r)

\* A request under way takes a step.
Go(r) ==
    \/ Store(r)
    \/ /\ Quiet(r) \/ Announce(r)
       /\ changed' = [changed EXCEPT ![r] = @ /\ req'[r] # Idle]
       /\ UNCHANGED <<born, requests, connected, drops, list, tall, mistyped>>

Connection ==
    /\ Disconnect \/ Reconnect \/ ReadList \/ EmitList
    /\ UNCHANGED <<serverVars, changed, raced, tall, mistyped, silent>>

\* Those of S, and what is below them.
Under(t, S) ==
    {x \in DOMAIN t \cup S :
        \A C \in SUBSET (DOMAIN t \cup S) :
            S \subseteq C /\ (\A c \in DOMAIN t : t[c].parent \in C => c \in C) => x \in C}

\* What the properties remember of a step.
Remember ==
    /\ looped' = (looped \/ NamesItself(tab'))
    /\ kept' = IF raced' \/ looped' THEN kept ELSE Parents(tab')
    /\ under' = [r \in Socket |->
                   IF req'[r].op = "deleteAll"
                   THEN Under(tab', under[r] \cup {req'[r].m}) ELSE {}]

Next ==
    /\ (\E r \in Socket : Begin(r) \/ Go(r)) \/ Connection
    /\ Remember

Fairness ==
    /\ \A r \in Socket : WF_vars(Go(r) /\ Remember)
    /\ WF_vars((ReadList \/ EmitList) /\ UNCHANGED <<serverVars, changed, raced, tall, mistyped, silent>>
               /\ Remember)

Spec == Init /\ [][Next]_vars /\ Fairness
-----------------------------------------------------------------------------
(* Properties                                                              *)

Item == [act : {"read", "emit", "start", "visit", "remove"},
         id : Monitor, top : BOOLEAN]

Request == [op : {"none", "add", "edit", "delete", "deleteAll", "switch"},
            at : {"none", "find", "walk", "depth", "store", "unlink",
                  "restart", "switch", "rest"},
            m : Monitor \cup {None}, new : Row, was : Row,
            todo : SUBSET Monitor, seen : SUBSET Monitor,
            cur : Monitor \cup {None}, depth : 0 .. MaxDepth, data : Row,
            plan : Seq(Item)]

TypeOK ==
    /\ tab \in Table /\ born \in SUBSET Monitor /\ DOMAIN tab \subseteq born
    /\ req \in [Socket -> Request] /\ requests \in Nat
    /\ connected \in BOOLEAN /\ drops \in Nat
    /\ list \in [at : {"none", "due", "read"}, data : Table]
    /\ mirror \in Table
    /\ changed \in [Socket -> BOOLEAN]
    /\ raced \in BOOLEAN /\ looped \in BOOLEAN /\ tall \in BOOLEAN /\ mistyped \in BOOLEAN
    /\ late \in BOOLEAN
    /\ silent \in SUBSET Monitor
    /\ under \in [Socket -> SUBSET Monitor]
    /\ kept \in UNION {[S -> S \cup {None}] : S \in SUBSET Monitor}

Resting == \A r \in Socket : req[r] = Idle

\* server.js:855-867, "Check if Parent is Descendant (would cause endless
\* loop)": the check, made query by query while other requests change the
\* tree, keeps the monitors a forest up to the first store of a parent whose
\* check was overtaken by another store.  It does not look at the monitor
\* itself: one request that names it as its own parent closes a cycle, too
\* (looped).
F == INSTANCE Forest WITH parent <- kept
Implements == F!Spec

\* What has children is a group, once the requests are done: the type is
\* stored before the children are unlinked (server.js:988-992), and an edit
\* that read the type before another made the monitor a group unlinks none.
OnlyGroupsHaveChildren ==
    ~raced /\ ~mistyped /\ Resting =>
        \A m \in DOMAIN tab : tab[m].parent # None => tab[tab[m].parent].group

\* server.js:863, "Enforce maximum nesting depth": kept as long as no group is
\* moved with what is in it, whose own height nothing checks: no line of monitors,
\* each in the next, has more than MaxDepth.  Nor must a monitor be its own
\* parent, whose line has no end.
DepthBounded ==
    ~raced /\ ~looped /\ ~tall => Lines(tab, MaxDepth) = {}

\* deleteMonitorRecursively works through lists that were read long before:
\* what a request deletes has, at some time since the request began, at least
\* been below the group or below what had been below it, and one that was not
\* told to delete the children does not.
DeletesOnlyBelow ==
    [][\A m \in DOMAIN tab \ DOMAIN tab' :
         \E r \in Socket : /\ req'[r] # req[r]
                           /\ \/ req[r].op = "delete" /\ m = req[r].m
                              \/ req[r].op = "deleteAll" /\ m \in under[r]]_vars

\* The walks end, and so do the requests, as long as there is no cycle: no check
\* was overtaken (raced), and no monitor is its own parent (looped).  In one,
\* getNestingDepth, which remembers nothing, goes round for ever.
RequestsEnd ==
    \A r \in Socket : req[r] # Idle ~> req[r] = Idle \/ raced \/ looped

\* The copy of a client that is connected holds every monitor, and of others
\* only those that a deleted group took along two levels down; and it has each
\* in its group.  Only an update or a list that was overtaken between its
\* query and its emission (late) can hide a change for good.
MirrorFollows ==
    connected /\ list.at = "none" /\ Resting /\ ~late =>
        /\ DOMAIN tab \subseteq DOMAIN mirror
        /\ DOMAIN mirror \ DOMAIN tab \subseteq silent
        /\ \A m \in DOMAIN tab :
              tab[m].parent \in {None, mirror[m].parent}

=============================================================================
