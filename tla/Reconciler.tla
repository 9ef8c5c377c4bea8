----------------------------- MODULE Reconciler -----------------------------
(***************************************************************************)
(* iris-sync: one Go process copies the monitors of a master database to a *)
(* set of probes, each an independent Uptime Kuma server, once per sync    *)
(* interval.  A cycle reads the master's active monitors, and then one     *)
(* goroutine per probe plans (ComputeSyncPlan), executes (ExecuteSyncPlan) *)
(* and verifies (VerifyParentDrift) the operations that bring that probe   *)
(* into line; when every goroutine has ended, the mappings of the probes   *)
(* that succeeded are written to disk.                                     *)
(*                                                                         *)
(* The monitors read at the start of a cycle are Go pointers that every    *)
(* goroutine shares.  An update works on a clone, a create does not: it    *)
(* writes the probe's own parent id, and perhaps an empty hash, into the   *)
(* shared object.  obj holds these two mutable fields.                     *)
(***************************************************************************)
EXTENDS Naturals, FiniteSets, Sequences, IdMapping

CONSTANTS
    Probe, Name, Version, NoMonitor,
    InitMaster,     \* the master's table at the start
    Choices,        \* Choices[m]: the configurations an operator may give m
    Deletable,      \* the monitors an operator may delete
    Direct,         \* Direct[pr]: what the type and tag filters of pr select
    Group,          \* the monitors of type "group"
    Concurrency,    \* sync.concurrency: probes synced at the same time
    Fault,          \* the kinds of failure that occur
    MaxEdits, MaxFaults   \* bounds on operator edits and on failures

FaultKind == {"unreachable", "reject", "lostAck", "disconnect", "deadline",
              "verify", "crash", "tornSave", "probeDelete", "revert"}

\* A row of the master's monitor table.  ver stands for every column that
\* ComputeHash covers besides the name and the parent.
Config == [name : Name, parent : MasterId \cup {NoId}, ver : Version,
           active : BOOLEAN]

\* What a probe stores: the payload, with a parent id of its own.
ProbeMonitor == [name : Name, parent : ProbeId \cup {NoId}, ver : Version]

\* ComputeHash, taken as one-to-one on the columns it covers.
HashValue == [name : Name, parent : MasterId \cup ProbeId \cup {NoId},
              ver : Version]

ASSUME ReconcilerAssumption ==
    /\ MasterId \subseteq Nat /\ ProbeId \subseteq Nat /\ Version \subseteq Nat
    /\ IsFiniteSet(MasterId)
    /\ HashValue \subseteq Hash
    /\ NoMonitor \notin Config \cup ProbeMonitor
    /\ InitMaster \in [MasterId -> Config \cup {NoMonitor}]
    /\ Choices \in [MasterId -> SUBSET Config]
    /\ Direct \in [Probe -> SUBSET MasterId]
    /\ Deletable \subseteq MasterId /\ Group \subseteq MasterId
    /\ Concurrency \in Nat \ {0}
    /\ Fault \subseteq FaultKind
    /\ MaxEdits \in Nat /\ MaxFaults \in Nat

VARIABLES
    master,   \* the master database
    issued,   \* master ids ever used: auto-increment never reuses one
    probe,    \* probe[pr]: the monitor table of a probe
    nextId,   \* nextId[pr]: its next auto-increment id
    mem,      \* mem[pr]: the IDMapping in the process's memory
    disk,     \* disk[pr]: the mapping file
    snap,     \* the master rows this cycle has read
    obj,      \* the mutable fields of the shared *db.Monitor objects
    cyc,      \* cyc[pr]: where the goroutine of a probe stands
    edits, faults

vars == <<master, issued, probe, nextId, mem, disk, snap, obj, cyc, edits, faults>>

Update == [m : MasterId, p : ProbeId, hash : HashValue,
           parent : MasterId \cup ProbeId \cup {NoId}]
Delete == [m : MasterId, p : ProbeId]

Phase == {"idle", "waiting", "plan", "updates", "rest", "ok", "failed", "saved"}

Goroutine == [pc     : Phase,
              wanted : SUBSET MasterId,   \* the filtered monitors
              listed : SUBSET ProbeId,    \* the probe's monitor list
              byName : [Name -> ProbeId \cup {NoId}],
              todo   : SUBSET MasterId,   \* monitors not yet planned
              upd    : SUBSET Update,
              new    : SUBSET MasterId,   \* creates, until they are sorted
              queue  : Seq(MasterId),     \* creates, parents first
              asked  : SUBSET (ProbeId \cup {NoId}),  \* the parent sent with the create
                                                      \* under way, if there is one
              del    : SUBSET Delete,
              failed : SUBSET MasterId,   \* failedCreates
              did    : BOOLEAN]           \* stats.Creates > 0 || stats.Updates > 0

NoNames == [n \in Name |-> NoId]

Asleep(pc) == [pc |-> pc, wanted |-> {}, listed |-> {}, byName |-> NoNames,
               todo |-> {}, upd |-> {}, new |-> {}, queue |-> <<>>,
               asked |-> {}, del |-> {}, failed |-> {}, did |-> FALSE]

NoRows    == [m \in MasterId |-> NoMonitor]
NoObjects == [m \in MasterId |-> [parent |-> NoId, hash |-> NoHash]]

Init ==
    /\ master = InitMaster
    /\ issued = {m \in MasterId : InitMaster[m] # NoMonitor}
    /\ probe  = [pr \in Probe |-> [p \in ProbeId |-> NoMonitor]]
    /\ nextId = [pr \in Probe |-> 1]
    /\ mem    = [pr \in Probe |-> NewIDMapping]
    /\ disk   = [pr \in Probe |-> EmptyFile]
    /\ snap   = NoRows
    /\ obj    = NoObjects
    /\ cyc    = [pr \in Probe |-> Asleep("idle")]
    /\ edits  = 0
    /\ faults = 0

Fails(kind) == kind \in Fault /\ faults < MaxFaults /\ faults' = faults + 1

-----------------------------------------------------------------------------
(* Forests: parent is a function whose domain is the monitors that exist.  *)

Children(parent, x) == {y \in DOMAIN parent : parent[y] = x}

\* The transitive children of x: the least set that holds its children and
\* the children of its members (getAllChildrenIDs).
Below(parent, x) ==
    {y \in DOMAIN parent :
        \A C \in SUBSET DOMAIN parent :
            (/\ Children(parent, x) \subseteq C
             /\ \A z \in C : Children(parent, z) \subseteq C) => y \in C}

Cyclic(parent, x) == x \in Below(parent, x)

MasterParent ==
    [m \in {x \in MasterId : master[x] # NoMonitor} |-> master[m].parent]
ProbeParent(pr) ==
    [p \in {x \in ProbeId : probe[pr][x] # NoMonitor} |-> probe[pr][p].parent]

-----------------------------------------------------------------------------
(* The operators of the master and of the probes.                          *)

\* "add" and "editMonitor" on the master; resume and pause change active.
SaveMonitor(m, c) ==
    /\ edits < MaxEdits /\ edits' = edits + 1
    /\ c \in Choices[m] /\ c # master[m]
    /\ IF m \in issued
       THEN /\ master[m] # NoMonitor
            /\ "revert" \notin Fault => c.ver >= master[m].ver
       ELSE TRUE
    /\ c.parent # NoId => /\ master[c.parent] # NoMonitor
                          /\ c.parent # m
                          /\ c.parent \notin Below(MasterParent, m)
    /\ master' = [master EXCEPT ![m] = c]
    /\ issued' = issued \cup {m}
    /\ UNCHANGED <<probe, nextId, mem, disk, snap, obj, cyc, faults>>

\* "deleteMonitor" on the master, the children being unlinked.
DeleteOnMaster(m) ==
    /\ edits < MaxEdits /\ edits' = edits + 1
    /\ m \in Deletable /\ master[m] # NoMonitor
    /\ master' = [x \in MasterId |->
                    IF x = m \/ master[x] = NoMonitor THEN NoMonitor
                    ELSE IF x # m /\ master[x].parent = m
                         THEN [master[x] EXCEPT !.parent = NoId]
                         ELSE master[x]]
    /\ UNCHANGED <<issued, probe, nextId, mem, disk, snap, obj, cyc, faults>>

\* A probe's table once p is deleted: its children are unlinked.
Without(table, p) ==
    [q \in ProbeId |->
        IF q = p \/ table[q] = NoMonitor THEN NoMonitor
        ELSE IF table[q].parent = p THEN [table[q] EXCEPT !.parent = NoId]
        ELSE table[q]]

\* Somebody deletes a monitor in the probe's own interface.
DeleteOnProbe(pr, p) ==
    /\ Fails("probeDelete")
    /\ probe[pr][p] # NoMonitor
    /\ probe' = [probe EXCEPT ![pr] = Without(@, p)]
    /\ UNCHANGED <<master, issued, nextId, mem, disk, snap, obj, cyc, edits>>

-----------------------------------------------------------------------------
(* The start of a cycle.                                                   *)

\* runSyncCycle: GetAllMonitors (active = 1), then one goroutine per probe.
FetchMasters ==
    /\ \A pr \in Probe : cyc[pr].pc = "idle"
    /\ snap' = [m \in MasterId |->
                  IF master[m] = NoMonitor THEN NoMonitor
                  ELSE IF master[m].active THEN master[m] ELSE NoMonitor]
    /\ obj' = [m \in MasterId |->
                 [parent |-> IF snap'[m] = NoMonitor THEN NoId ELSE snap'[m].parent,
                  hash   |-> NoHash]]
    /\ cyc' = [pr \in Probe |-> Asleep("waiting")]
    /\ UNCHANGED <<master, issued, probe, nextId, mem, disk, edits, faults>>

Running == {pr \in Probe : cyc[pr].pc \in {"plan", "updates", "rest"}}

Fetched == {m \in MasterId : snap[m] # NoMonitor}

\* includeAncestorGroups walks up the parents found in the shared objects.
WalkedParent == [m \in Fetched |-> obj[m].parent]

FilterMonitorsForProbe(pr) ==
    IF Direct[pr] = MasterId THEN Fetched
    ELSE LET seeds == Direct[pr] \cap Fetched
         IN  seeds \cup {g \in Group \cap Fetched :
                            \E s \in seeds : s \in Below(WalkedParent, g)}

\* GetMonitorList, and the name index of ComputeSyncPlan: of the monitors
\* with one name, the one visited last by the map iteration stays.
StartProbe(pr) ==
    /\ cyc[pr].pc = "waiting"
    /\ Cardinality(Running) < Concurrency
    /\ LET listed   == {p \in ProbeId : probe[pr][p] # NoMonitor}
           named(n) == {p \in listed : probe[pr][p].name = n}
           wanted   == FilterMonitorsForProbe(pr)
       IN \E index \in [Name -> listed \cup {NoId}] :
            /\ \A n \in Name : IF named(n) = {} THEN index[n] = NoId
                                                ELSE index[n] \in named(n)
            /\ cyc' = [cyc EXCEPT ![pr] =
                         [Asleep("plan") EXCEPT !.wanted = wanted, !.todo = wanted,
                                                !.listed = listed, !.byName = index]]
    /\ UNCHANGED <<master, issued, probe, nextId, mem, disk, snap, obj, edits, faults>>

\* Connect, Login or GetMonitorList returns an error.
StartFails(pr) ==
    /\ cyc[pr].pc = "waiting"
    /\ Cardinality(Running) < Concurrency
    /\ Fails("unreachable")
    /\ cyc' = [cyc EXCEPT ![pr].pc = "failed"]
    /\ UNCHANGED <<master, issued, probe, nextId, mem, disk, snap, obj, edits>>

-----------------------------------------------------------------------------
(* ComputeSyncPlan: the loop over the wanted monitors, in any order.       *)

\* masterMon.ComputeHash(), which reads the shared object's parent.
ComputeHash(m) == [name |-> snap[m].name, parent |-> obj[m].parent,
                   ver |-> snap[m].ver]

Planning(pr, m) == cyc[pr].pc = "plan" /\ m \in cyc[pr].todo

\* masterMon.ContentHash = currentHash, before any of the branches.
StampHash(m) == obj' = [obj EXCEPT ![m].hash = ComputeHash(m)]

\* Mutant: the monitor is cloned before its hash is stamped.
PlannedUpdateUnstamped(m, p) == [m |-> m, p |-> p, hash |-> obj[m].hash,
                                 parent |-> obj[m].parent]

\* updateMon := *masterMon, a clone of the shared object.
PlannedUpdate(m, p) == [m |-> m, p |-> p, hash |-> ComputeHash(m),
                        parent |-> obj[m].parent]

\* Mutants: the name index is not consulted, or not by name.
NothingToAdopt(pr, m)  == NoId
AnythingToAdopt(pr, m) ==
    IF cyc[pr].listed = {} THEN NoId ELSE CHOOSE p \in cyc[pr].listed : TRUE

\* probeByName[masterMon.Name]
Adoptable(pr, m) == cyc[pr].byName[snap[m].name]

\* Not mapped, but a probe monitor has the name: adopt it.
PlanAdopt(pr, m) ==
    /\ Planning(pr, m)
    /\ mem[pr].m2p[m] = NoId
    /\ LET p == Adoptable(pr, m)
           claimed == [cyc[pr].byName EXCEPT ![snap[m].name] = NoId]
       IN /\ p # NoId
          /\ mem' = [mem EXCEPT ![pr] = SetHash(SetMapping(@, m, p), m, NoHash)]
          /\ cyc' = [cyc EXCEPT ![pr].todo = @ \ {m},
                                ![pr].byName = claimed,
                                ![pr].upd = @ \cup {PlannedUpdate(m, p)}]
    /\ StampHash(m)
    /\ UNCHANGED <<master, issued, probe, nextId, disk, snap, edits, faults>>

PlanCreate(pr, m) ==
    /\ Planning(pr, m)
    /\ mem[pr].m2p[m] = NoId
    /\ Adoptable(pr, m) = NoId
    /\ cyc' = [cyc EXCEPT ![pr].todo = @ \ {m}, ![pr].new = @ \cup {m}]
    /\ StampHash(m)
    /\ UNCHANGED <<master, issued, probe, nextId, mem, disk, snap, edits, faults>>

\* Mapped, but the probe has lost the monitor: forget it and create it anew.
PlanRecreate(pr, m) ==
    /\ Planning(pr, m)
    /\ mem[pr].m2p[m] # NoId
    /\ mem[pr].m2p[m] \notin cyc[pr].listed
    /\ mem' = [mem EXCEPT ![pr] = RemoveByMasterID(@, m)]
    /\ cyc' = [cyc EXCEPT ![pr].todo = @ \ {m}, ![pr].new = @ \cup {m}]
    /\ StampHash(m)
    /\ UNCHANGED <<master, issued, probe, nextId, disk, snap, edits, faults>>

PlanUpdate(pr, m) ==
    /\ Planning(pr, m)
    /\ mem[pr].m2p[m] \in cyc[pr].listed
    /\ mem[pr].hash[m] # ComputeHash(m)
    /\ cyc' = [cyc EXCEPT ![pr].todo = @ \ {m},
                          ![pr].upd = @ \cup {PlannedUpdate(m, mem[pr].m2p[m])}]
    /\ StampHash(m)
    /\ UNCHANGED <<master, issued, probe, nextId, mem, disk, snap, edits, faults>>

PlanNothing(pr, m) ==
    /\ Planning(pr, m)
    /\ mem[pr].m2p[m] \in cyc[pr].listed
    /\ mem[pr].hash[m] = ComputeHash(m)
    /\ cyc' = [cyc EXCEPT ![pr].todo = @ \ {m}]
    /\ StampHash(m)
    /\ UNCHANGED <<master, issued, probe, nextId, mem, disk, snap, edits, faults>>

\* Mutant: only what is updated counts as known.
OrphansUnlessUpdated(pr) == GetAllMasterIDs(mem[pr]) \ {u.m : u \in cyc[pr].upd}

\* Phase 2 (delete_orphans: true): mapped master ids that are not wanted.
Orphans(pr) == GetAllMasterIDs(mem[pr]) \ cyc[pr].wanted

\* With an empty plan syncToProbe returns at once.
PlanOrphans(pr) ==
    /\ cyc[pr].pc = "plan" /\ cyc[pr].todo = {}
    /\ LET orphans == Orphans(pr)
           c == cyc[pr]
       IN  cyc' = [cyc EXCEPT
               ![pr].del = {[m |-> m, p |-> mem[pr].m2p[m]] : m \in orphans},
               ![pr].pc  = IF c.upd = {} /\ c.new = {} /\ orphans = {}
                           THEN "ok" ELSE "updates"]
    /\ UNCHANGED <<master, issued, probe, nextId, mem, disk, snap, obj, edits, faults>>

-----------------------------------------------------------------------------
(* What the handlers of the probe's server accept.                         *)

\* getNestingDepth(parent) follows parents until it finds none; on a cycle it
\* never answers.  The foreign key refuses a parent that does not exist.
ParentAccepted(pr, parent) ==
    parent # NoId =>
        /\ probe[pr][parent] # NoMonitor
        /\ \A p \in DOMAIN ProbeParent(pr) :
              Cyclic(ProbeParent(pr), p) =>
                 p # parent /\ parent \notin Below(ProbeParent(pr), p)

EditAccepted(pr, p, parent) ==
    /\ probe[pr][p] # NoMonitor
    /\ parent \notin Below(ProbeParent(pr), p)   \* "Invalid Monitor Group"
    /\ ParentAccepted(pr, parent)

Payload(m, parent) == [name |-> snap[m].name, parent |-> parent,
                       ver |-> snap[m].ver]

-----------------------------------------------------------------------------
(* ExecuteSyncPlan, phase 1: updates, in any order.                        *)

Updating(pr, u) == cyc[pr].pc = "updates" /\ u \in cyc[pr].upd

\* The parent id, remapped at the moment the update is sent; NoId if the
\* parent is not on the probe.
UpdateParent(pr, u) == GetProbeID(mem[pr], u.parent)

UpdateOk(pr, u) ==
    /\ Updating(pr, u)
    /\ EditAccepted(pr, u.p, UpdateParent(pr, u))
    /\ LET parent  == UpdateParent(pr, u)
           cleared == u.parent # NoId /\ parent = NoId
       IN  /\ probe' = [probe EXCEPT ![pr][u.p] = Payload(u.m, parent)]
           /\ mem' = [mem EXCEPT ![pr] =
                        SetHash(@, u.m, IF cleared THEN NoHash ELSE u.hash)]
    /\ cyc' = [cyc EXCEPT ![pr].upd = @ \ {u}, ![pr].did = TRUE]
    /\ UNCHANGED <<master, issued, nextId, disk, snap, obj, edits, faults>>

\* Mutant: the hash is stored although the probe refused the edit.
UpdateRefusedAndStored(pr, u) ==
    /\ Updating(pr, u)
    /\ EditAccepted(pr, u.p, UpdateParent(pr, u)) /\ Fails("reject")
    /\ mem' = [mem EXCEPT ![pr] = SetHash(@, u.m, u.hash)]
    /\ cyc' = [cyc EXCEPT ![pr].upd = @ \ {u}]
    /\ UNCHANGED <<master, issued, probe, nextId, disk, snap, obj, edits>>

UpdateRefused(pr, u) ==
    /\ Updating(pr, u)
    /\ \/ ~EditAccepted(pr, u.p, UpdateParent(pr, u)) /\ UNCHANGED faults
       \/ EditAccepted(pr, u.p, UpdateParent(pr, u)) /\ Fails("reject")
    /\ cyc' = [cyc EXCEPT ![pr].upd = @ \ {u}]
    /\ UNCHANGED <<master, issued, probe, nextId, mem, disk, snap, obj, edits>>

\* The probe has stored the edit, but its answer is an error (a step after
\* R.store failed) or does not come before the 30 s timeout.
UpdateUnanswered(pr, u) ==
    /\ Updating(pr, u)
    /\ EditAccepted(pr, u.p, UpdateParent(pr, u))
    /\ Fails("lostAck")
    /\ probe' = [probe EXCEPT ![pr][u.p] = Payload(u.m, UpdateParent(pr, u))]
    /\ cyc' = [cyc EXCEPT ![pr].upd = @ \ {u}]
    /\ UNCHANGED <<master, issued, nextId, mem, disk, snap, obj, edits>>

-----------------------------------------------------------------------------
(* Phase 2: creates, sorted so that parents precede their children.        *)

\* The monitors that Kahn's algorithm can never reach: those on, or below, a
\* cycle of parents within the batch.
Stuck(batch) == UNION {S \in SUBSET batch : \A m \in S : obj[m].parent \in S}

TopologicalOrders(batch) ==
    LET n == Cardinality(batch)
        before(s, i) == {s[j] : j \in 1..(i - 1)}
    IN  {s \in [1..n -> batch] :
            /\ \A m \in batch : \E i \in 1..n : s[i] = m
            /\ \A i \in 1..n :
                 IF s[i] \in Stuck(batch)
                 THEN batch \ Stuck(batch) \subseteq before(s, i)
                 ELSE obj[s[i]].parent \in batch => obj[s[i]].parent \in before(s, i)}

SortCreates(pr) ==
    /\ cyc[pr].pc = "updates" /\ cyc[pr].upd = {}
    /\ \E order \in TopologicalOrders(cyc[pr].new) :
         cyc' = [cyc EXCEPT ![pr].pc = "rest", ![pr].queue = order, ![pr].new = {}]
    /\ UNCHANGED <<master, issued, probe, nextId, mem, disk, snap, obj, edits, faults>>

Creating(pr) == cyc[pr].pc = "rest" /\ cyc[pr].queue # <<>>
NextCreate(pr) == Head(cyc[pr].queue)
ParentFailed(pr) == obj[NextCreate(pr)].parent \in cyc[pr].failed

\* Mutant: the parent is sent as the master knows it.
CreateParentUnmapped(pr, m) == obj[m].parent

CreateParent(pr, m) == GetProbeID(mem[pr], obj[m].parent)

\* The parent of this batch failed: so does the child.
CreateSkipped(pr) ==
    /\ Creating(pr) /\ cyc[pr].asked = {}
    /\ ParentFailed(pr)
    /\ cyc' = [cyc EXCEPT ![pr].queue = Tail(@), ![pr].failed = @ \cup {NextCreate(pr)}]
    /\ UNCHANGED <<master, issued, probe, nextId, mem, disk, snap, obj, edits, faults>>

\* plan.Monitor.Parent, and an emptied ContentHash, go into the shared object,
\* whatever becomes of the request.
WriteShared(pr, m) ==
    LET cleared == obj[m].parent # NoId /\ CreateParent(pr, m) = NoId
    IN  obj' = [obj EXCEPT ![m].parent = CreateParent(pr, m),
                           ![m].hash   = IF cleared THEN NoHash ELSE @]

\* AddMonitor is called, and waits for the probe's answer.
SendCreate(pr) ==
    /\ Creating(pr) /\ cyc[pr].asked = {}
    /\ ~ParentFailed(pr)
    /\ WriteShared(pr, NextCreate(pr))
    /\ cyc' = [cyc EXCEPT ![pr].asked = {CreateParent(pr, NextCreate(pr))}]
    /\ UNCHANGED <<master, issued, probe, nextId, mem, disk, snap, edits, faults>>

Awaiting(pr, parent) == Creating(pr) /\ parent \in cyc[pr].asked

AddedTable(pr, parent) ==
    [probe EXCEPT ![pr][nextId[pr]] = Payload(NextCreate(pr), parent)]

\* The hash is what the shared object holds when the answer comes.
CreateOk(pr, parent) ==
    /\ Awaiting(pr, parent)
    /\ ParentAccepted(pr, parent)
    /\ nextId[pr] \in ProbeId
    /\ probe' = AddedTable(pr, parent)
    /\ nextId' = [nextId EXCEPT ![pr] = @ + 1]
    /\ mem' = [mem EXCEPT ![pr] = SetHash(SetMapping(@, NextCreate(pr), nextId[pr]),
                                          NextCreate(pr), obj[NextCreate(pr)].hash)]
    /\ cyc' = [cyc EXCEPT ![pr].queue = Tail(@), ![pr].asked = {}, ![pr].did = TRUE]
    /\ UNCHANGED <<master, issued, disk, snap, obj, edits, faults>>

CreateGivenUp(pr) ==
    cyc' = [cyc EXCEPT ![pr].queue = Tail(@), ![pr].asked = {},
                       ![pr].failed = @ \cup {NextCreate(pr)}]

CreateRefused(pr, parent) ==
    /\ Awaiting(pr, parent)
    /\ \/ ~ParentAccepted(pr, parent) /\ UNCHANGED faults
       \/ ParentAccepted(pr, parent) /\ Fails("reject")
    /\ CreateGivenUp(pr)
    /\ UNCHANGED <<master, issued, probe, nextId, mem, disk, snap, obj, edits>>

CreateUnanswered(pr, parent) ==
    /\ Awaiting(pr, parent)
    /\ ParentAccepted(pr, parent)
    /\ nextId[pr] \in ProbeId
    /\ Fails("lostAck")
    /\ probe' = AddedTable(pr, parent)
    /\ nextId' = [nextId EXCEPT ![pr] = @ + 1]
    /\ CreateGivenUp(pr)
    /\ UNCHANGED <<master, issued, mem, disk, snap, obj, edits>>

-----------------------------------------------------------------------------
(* Phase 3: deletes, in the order of a map iteration.                      *)

Deleting(pr, d) == cyc[pr].pc = "rest" /\ cyc[pr].queue = <<>> /\ d \in cyc[pr].del

\* DELETE of a row that is gone succeeds too.
DeleteOk(pr, d) ==
    /\ Deleting(pr, d)
    /\ probe' = [probe EXCEPT ![pr] = Without(@, d.p)]
    /\ mem' = [mem EXCEPT ![pr] = RemoveByMasterID(@, d.m)]
    /\ cyc' = [cyc EXCEPT ![pr].del = @ \ {d}]
    /\ UNCHANGED <<master, issued, nextId, disk, snap, obj, edits, faults>>

\* Mutant: the mapping is forgotten although the delete failed.
DeleteFailsAndForgets(pr, d) ==
    /\ Deleting(pr, d)
    /\ Fails("reject")
    /\ mem' = [mem EXCEPT ![pr] = RemoveByMasterID(@, d.m)]
    /\ cyc' = [cyc EXCEPT ![pr].del = @ \ {d}]
    /\ UNCHANGED <<master, issued, probe, nextId, disk, snap, obj, edits>>

DeleteFails(pr, d) ==
    /\ Deleting(pr, d)
    /\ \/ Fails("reject") /\ UNCHANGED probe
       \/ Fails("lostAck") /\ probe' = [probe EXCEPT ![pr] = Without(@, d.p)]
    /\ cyc' = [cyc EXCEPT ![pr].del = @ \ {d}]
    /\ UNCHANGED <<master, issued, nextId, mem, disk, snap, obj, edits>>

-----------------------------------------------------------------------------
(* The ends of a goroutine.                                                *)

Executing(pr) == cyc[pr].pc \in {"updates", "rest"}
Executed(pr)  == cyc[pr].pc = "rest" /\ cyc[pr].queue = <<>> /\ cyc[pr].del = {}

Ends(pr, pc) == cyc' = [cyc EXCEPT ![pr] = Asleep(pc)]

\* VerifyParentDrift expects the parent that the shared object names, looked
\* up as a master id.
ExpectedParent(pr, m) == GetProbeID(mem[pr], obj[m].parent)

\* Mutant: no drift is ever found.
DriftedNever(pr) == {}

Drifted(pr) ==
    {m \in cyc[pr].wanted :
        LET p == mem[pr].m2p[m]
        IN  /\ p # NoId
            /\ probe[pr][p] # NoMonitor
            /\ probe[pr][p].parent # ExpectedParent(pr, m)}

VerifyParentDrift(pr) ==
    /\ Executed(pr)
    /\ mem' = IF cyc[pr].did
              THEN [mem EXCEPT ![pr].hash =
                      [m \in MasterId |-> IF m \in Drifted(pr) THEN NoHash ELSE @[m]]]
              ELSE mem
    /\ Ends(pr, "ok")
    /\ UNCHANGED <<master, issued, probe, nextId, disk, snap, obj, edits, faults>>

\* Fetching the list again fails: logged, and the sync still succeeds.
VerifyFails(pr) ==
    /\ Executed(pr) /\ cyc[pr].did
    /\ Fails("verify")
    /\ Ends(pr, "ok")
    /\ UNCHANGED <<master, issued, probe, nextId, mem, disk, snap, obj, edits>>

\* The create that is tried first once no update is left.
Foremost(batch) == {order[1] : order \in TopologicalOrders(batch)}

\* The WebSocket dies: every phase stops at its first operation, the list
\* cannot be fetched for verification, and ExecuteSyncPlan returns no error.
\* The create loop has remapped its next parent before it finds that out; a
\* create under way is the one that fails.
Disconnect(pr) ==
    /\ Executing(pr)
    /\ Fails("disconnect")
    /\ \/ /\ cyc[pr].pc = "updates" /\ cyc[pr].new # {}
          /\ \E m \in Foremost(cyc[pr].new) : WriteShared(pr, m)
       \/ /\ Creating(pr) /\ cyc[pr].asked = {} /\ ~ParentFailed(pr)
          /\ WriteShared(pr, NextCreate(pr))
       \/ /\ cyc[pr].pc = "updates" => cyc[pr].new = {}
          /\ UNCHANGED obj
    /\ Ends(pr, "ok")
    /\ UNCHANGED <<master, issued, probe, nextId, mem, disk, snap, edits>>

\* The sync timeout expires between two operations.
DeadlineExceeded(pr) ==
    /\ Executing(pr)
    /\ Fails("deadline")
    /\ Ends(pr, "failed")
    /\ UNCHANGED <<master, issued, probe, nextId, mem, disk, snap, obj, edits>>

-----------------------------------------------------------------------------
(* The end of a cycle, and of the process.                                 *)

AllEnded == \A pr \in Probe : cyc[pr].pc \in {"ok", "failed", "saved"}

SaveMapping(pr) ==
    /\ AllEnded /\ cyc[pr].pc = "ok"
    /\ disk' = [disk EXCEPT ![pr] = SaveToFile(mem[pr])]
    /\ Ends(pr, "saved")
    /\ UNCHANGED <<master, issued, probe, nextId, mem, snap, obj, edits, faults>>

EndCycle ==
    /\ \A pr \in Probe : cyc[pr].pc \in {"failed", "saved"}
    /\ cyc' = [pr \in Probe |-> Asleep("idle")]
    /\ snap' = NoRows
    /\ obj' = NoObjects
    /\ UNCHANGED <<master, issued, probe, nextId, mem, disk, edits, faults>>

\* The process dies and is started again: NewMappingStore, then LoadFromFile.
Restart(files) ==
    /\ disk' = files
    /\ mem' = [pr \in Probe |-> LoadFromFile(files[pr])]
    /\ cyc' = [pr \in Probe |-> Asleep("idle")]
    /\ snap' = NoRows
    /\ obj' = NoObjects
    /\ UNCHANGED <<master, issued, probe, nextId, edits>>

Crash == Fails("crash") /\ Restart(disk)

\* os.WriteFile is not atomic.  LoadFromFile's error is ignored.
CrashWhileSaving(pr) ==
    /\ AllEnded /\ cyc[pr].pc = "ok"
    /\ Fails("tornSave")
    /\ Restart([disk EXCEPT ![pr] = EmptyFile])

\* SIGTERM between two cycles: SaveAll, then the next process.
Shutdown ==
    /\ \A pr \in Probe : cyc[pr].pc = "idle"
    /\ Fails("crash")
    /\ Restart([pr \in Probe |-> SaveToFile(mem[pr])])

-----------------------------------------------------------------------------

Plan(pr) == \/ \E m \in MasterId : \/ PlanAdopt(pr, m)
                                   \/ PlanCreate(pr, m)
                                   \/ PlanRecreate(pr, m)
                                   \/ PlanUpdate(pr, m)
                                   \/ PlanNothing(pr, m)
            \/ PlanOrphans(pr)

Execute(pr) == \/ \E u \in cyc[pr].upd : UpdateOk(pr, u) \/ UpdateRefused(pr, u)
               \/ SortCreates(pr)
               \/ CreateSkipped(pr) \/ SendCreate(pr)
               \/ \E parent \in cyc[pr].asked : CreateOk(pr, parent) \/ CreateRefused(pr, parent)
               \/ \E d \in cyc[pr].del : DeleteOk(pr, d)
               \/ VerifyParentDrift(pr)

Sync(pr) == StartProbe(pr) \/ Plan(pr) \/ Execute(pr) \/ SaveMapping(pr)

Failure(pr) == \/ StartFails(pr)
               \/ \E u \in cyc[pr].upd : UpdateUnanswered(pr, u)
               \/ \E parent \in cyc[pr].asked : CreateUnanswered(pr, parent)
               \/ \E d \in cyc[pr].del : DeleteFails(pr, d)
               \/ VerifyFails(pr) \/ Disconnect(pr) \/ DeadlineExceeded(pr)
               \/ CrashWhileSaving(pr)
               \/ \E p \in ProbeId : DeleteOnProbe(pr, p)

Operator == \E m \in MasterId : \/ \E c \in Choices[m] : SaveMonitor(m, c)
                                \/ DeleteOnMaster(m)

Next == \/ FetchMasters
        \/ \E pr \in Probe : Sync(pr) \/ Failure(pr)
        \/ EndCycle
        \/ Crash
        \/ Shutdown
        \/ Operator

Spec == Init /\ [][Next]_vars

\* The ticker keeps firing, and no request hangs for ever: each is bounded by
\* a timeout.  Failures and operators owe nothing.
Fairness == /\ WF_vars(FetchMasters)
            /\ WF_vars(EndCycle)
            /\ \A pr \in Probe : WF_vars(Sync(pr))

FairSpec == Spec /\ Fairness

-----------------------------------------------------------------------------
(* Properties.                                                             *)

TableType == [ProbeId -> ProbeMonitor \cup {NoMonitor}]

ObjectType == [parent : MasterId \cup ProbeId \cup {NoId},
               hash   : HashValue \cup {NoHash}]

\* The type invariant: every variable, and every mapping in memory or on
\* disk, is of the shape the Go types give it.
TypeOK ==
    /\ master \in [MasterId -> Config \cup {NoMonitor}]
    /\ issued \subseteq MasterId
    /\ probe \in [Probe -> TableType]
    /\ nextId \in [Probe -> Nat]
    /\ mem \in [Probe -> Mapping]
    /\ disk \in [Probe -> File]
    /\ snap \in [MasterId -> Config \cup {NoMonitor}]
    /\ obj \in [MasterId -> ObjectType]
    /\ cyc \in [Probe -> Goroutine]
    /\ edits \in Nat /\ faults \in Nat

\* mapper.go keeps two maps by hand, and rebuilds one of them from a file:
\* through every theft, removal, crash and reload each stays the inverse of
\* the other, so no two masters are ever mapped to one probe monitor.
MappingsAgree ==
    \A pr \in Probe : Agree(mem[pr]) /\ OneToOne(disk[pr])

Rows(pr) == {p \in ProbeId : probe[pr][p] # NoMonitor}

\* reconciler.go:88-89: adopting by name "prevents creating duplicate
\* monitors on the probe", even when an answer or a mapping file is lost.  It
\* does as long as no row disappears whose monitor is still wanted.
NoDuplicates ==
    \A pr \in Probe : \A p, q \in Rows(pr) :
        probe[pr][p].name = probe[pr][q].name => p = q

\* A mapping never points at another monitor's row: were it stale after a
\* crash, updates and deletes would hit, and erase the history of, a monitor
\* that has nothing to do with it.
MapsToOwnRow ==
    \A pr \in Probe, m \in MasterId :
        mem[pr].m2p[m] \in Rows(pr) =>
            probe[pr][mem[pr].m2p[m]].name \in {c.name : c \in Choices[m]}

\* A cached hash is what makes later cycles skip a monitor: while the process
\* lives and every stored edit is answered, the row it vouches for has the
\* name and the settings that were hashed.
HashMatchesRow ==
    \A pr \in Probe, m \in MasterId :
        mem[pr].m2p[m] \in Rows(pr) /\ mem[pr].hash[m] # NoHash =>
            LET row == probe[pr][mem[pr].m2p[m]]
            IN  row.name = mem[pr].hash[m].name /\ row.ver = mem[pr].hash[m].ver

\* What the master, as this cycle read it, means the probe to run: what the
\* filters of the probe select, and the groups above that.  The groups are
\* left out where other goroutines share the objects: a create writes its own
\* probe's parent id there, and the walk of another probe's filter then misses
\* a group (reconciler.go:335, main.go:264).
MeantFor(pr) ==
    LET seeds  == Direct[pr] \cap Fetched
        parent == [m \in Fetched |-> snap[m].parent]
    IN  seeds \cup {g \in Group \cap Fetched :
                       Probe = {pr} /\ \E m \in seeds : m \in Below(parent, g)}

\* A sync never deletes the row of such a monitor, whatever happened to the
\* mapping before ("Heartbeat history is preserved", iris-sync/README.md:109).
DeletesOnlyUnwanted ==
    [][\A pr \in Probe : \A d \in cyc[pr].del : DeleteOk(pr, d) =>
          \A m \in MeantFor(pr) :
             probe[pr][d.p] # NoMonitor => probe[pr][d.p].name # snap[m].name]_vars

Wanted == {m \in MasterId : IF master[m] = NoMonitor THEN FALSE ELSE master[m].active}

\* What a probe is meant to run: what its filters select, and the groups above.
WantedBy(pr) ==
    LET seeds  == Direct[pr] \cap Wanted
        parent == [m \in Wanted |-> master[m].parent]
    IN  seeds \cup {g \in Group \cap Wanted : \E m \in seeds : m \in Below(parent, g)}

\* The row of the probe that stands for m: same name and settings, and under
\* the row of m's group if that is wanted too.
Mirrors(pr, p, m) ==
    /\ probe[pr][p].name = master[m].name
    /\ probe[pr][p].ver = master[m].ver
    /\ IF master[m].parent \in WantedBy(pr)
       THEN /\ probe[pr][p].parent # NoId
            /\ probe[pr][probe[pr][p].parent].name = master[master[m].parent].name
       ELSE probe[pr][p].parent = NoId

\* Once edits and failures stop, every probe comes to run every monitor it is
\* meant to run, as configured and in its group, and stays so.
Converges ==
    <>[](\A pr \in Probe : \A m \in WantedBy(pr) : \E p \in Rows(pr) : Mirrors(pr, p, m))

\* iris-sync/README.md:15, "Only creates, updates, or deletes monitors that have
\* changed": in the end a cycle sends nothing.
Settles ==
    <>[](\A pr \in Probe : cyc[pr].upd = {} /\ cyc[pr].queue = <<>> /\ cyc[pr].del = {})
=============================================================================
