-------------------------- MODULE ReconcilerProofs --------------------------
(***************************************************************************)
(* TypeOK and MappingsAgree are invariants of Spec, for every set of       *)
(* probes, monitors and failures and without any bound.                    *)
(*                                                                         *)
(* Neither is inductive alone.  The plan of a goroutine names monitors     *)
(* whose rows its operations read, so what is planned must stay within     *)
(* what the cycle has fetched (PlansFetched); and a mapping reloaded after *)
(* a crash agrees only because the file was one-to-one.                    *)
(*                                                                         *)
(* Then, which row of a probe is whose: a mapping points at a row of its   *)
(* own monitor only, a delete takes no row that is wanted, a cached hash   *)
(* says what the row holds, and no monitor is given two rows.  Each needs  *)
(* something of the operators or of the failures, stated before it as a    *)
(* hypothesis: NamesApart, NothingLost, RowsStayWanted.                    *)
(***************************************************************************)
EXTENDS Reconciler, FiniteSetTheorems, TLAPS

-----------------------------------------------------------------------------
(* What every operation of IdMapping preserves: the type of a mapping, and *)
(* the agreement of its two directions.  A mapping that agrees is saved as *)
(* a one-to-one file, and a one-to-one file is loaded as a mapping that    *)
(* agrees.                                                                 *)

\* mapper.go:17-24 and the empty file of a first start.
LEMMA EmptyMappings ==
    /\ NewIDMapping \in Mapping /\ Agree(NewIDMapping)
    /\ EmptyFile \in File /\ OneToOne(EmptyFile)
BY DEF NewIDMapping, Mapping, Agree, EmptyFile, File, OneToOne

\* SetMapping keeps a mapping well-formed, whether m or p was mapped before.
LEMMA SetMappingType ==
    ASSUME NEW map \in Mapping, NEW m \in MasterId, NEW p \in ProbeId
    PROVE  SetMapping(map, m, p) \in Mapping
BY DEF SetMapping, Mapping

\* SetMapping clears whatever it must so that the directions still agree.
LEMMA SetMappingAgree ==
    ASSUME NEW map \in Mapping, NEW m \in MasterId, NEW p \in ProbeId, Agree(map)
    PROVE  Agree(SetMapping(map, m, p))
<1> DEFINE new == SetMapping(map, m, p)
<1>1. map.m2p \in [MasterId -> ProbeId \cup {NoId}] /\ map.p2m \in [ProbeId -> MasterId \cup {NoId}]
  BY DEF Mapping
<1>2. NoId \notin MasterId /\ NoId \notin ProbeId
  BY IdAssumption
<1>3. ASSUME NEW x \in MasterId, new.m2p[x] # NoId
      PROVE  new.p2m[new.m2p[x]] = x
  <2>1. CASE x = m
    BY <2>1, <1>1 DEF SetMapping
  <2>2. CASE x # m
    <3>1. new.m2p[x] = map.m2p[x] /\ map.m2p[x] \in ProbeId
      BY <2>2, <1>1, <1>3 DEF SetMapping
    <3>2. map.p2m[map.m2p[x]] = x
      BY <3>1, <1>3 DEF Agree
    <3>3. map.m2p[x] # p
      BY <3>1, <3>2, <2>2, <1>1, <1>2, <1>3 DEF SetMapping, Agree
    <3>4. map.m2p[x] # map.m2p[m]
      BY <3>1, <3>2, <2>2, <1>2 DEF Agree
    <3> QED BY <3>1, <3>2, <3>3, <3>4 DEF SetMapping
  <2> QED BY <2>1, <2>2
<1>4. ASSUME NEW q \in ProbeId, new.p2m[q] # NoId
      PROVE  new.m2p[new.p2m[q]] = q
  <2>1. CASE q = p
    BY <2>1, <1>1 DEF SetMapping
  <2>2. CASE q # p
    <3>1. new.p2m[q] = map.p2m[q] /\ map.p2m[q] \in MasterId /\ q # map.m2p[m]
      BY <2>2, <1>1, <1>4 DEF SetMapping
    <3>2. map.m2p[map.p2m[q]] = q
      BY <3>1, <1>4 DEF Agree
    <3>3. map.p2m[q] # m
      BY <3>1, <3>2
    <3>4. p # map.m2p[m] /\ map.p2m[p] # NoId => map.p2m[p] # map.p2m[q]
      BY <3>2, <2>2, <1>1, <1>2 DEF Agree
    <3> QED BY <3>1, <3>2, <3>3, <3>4, <1>2 DEF SetMapping
  <2> QED BY <2>1, <2>2
<1> QED BY <1>3, <1>4 DEF Agree

\* RemoveByMasterID of a monitor that may or may not be mapped.
LEMMA RemoveByMasterIDAgree ==
    ASSUME NEW map \in Mapping, NEW m \in MasterId, Agree(map)
    PROVE  /\ RemoveByMasterID(map, m) \in Mapping
           /\ Agree(RemoveByMasterID(map, m))
<1>1. RemoveByMasterID(map, m) \in Mapping
  BY DEF RemoveByMasterID, Mapping
<1>2. Agree(RemoveByMasterID(map, m))
  BY IdAssumption DEF RemoveByMasterID, Mapping, Agree
<1> QED BY <1>1, <1>2

\* Hashes play no part in the agreement.
LEMMA SetHashAgree ==
    ASSUME NEW map \in Mapping, NEW m \in MasterId, NEW h \in Hash \cup {NoHash}
    PROVE  /\ SetHash(map, m, h) \in Mapping
           /\ Agree(map) => Agree(SetHash(map, m, h))
BY DEF SetHash, Mapping, Agree

\* SaveToFile drops the inverse, and loses nothing by it.
LEMMA SaveToFileOneToOne ==
    ASSUME NEW map \in Mapping, Agree(map)
    PROVE  SaveToFile(map) \in File /\ OneToOne(SaveToFile(map))
BY DEF SaveToFile, Mapping, File, Agree, OneToOne

\* LoadFromFile rebuilds it.
LEMMA LoadFromFileAgree ==
    ASSUME NEW file \in File, OneToOne(file)
    PROVE  LoadFromFile(file) \in Mapping /\ Agree(LoadFromFile(file))
<1> DEFINE owner(p) == {m \in MasterId : file.m2p[m] = p}
<1>1. file.m2p \in [MasterId -> ProbeId \cup {NoId}]
  BY DEF File
<1>2. ASSUME NEW p \in ProbeId
      PROVE  LET o == LoadFromFile(file).p2m[p]
             IN  IF owner(p) = {} THEN o = NoId ELSE o \in owner(p)
  BY DEF LoadFromFile
<1>3. LoadFromFile(file) \in Mapping
  <2>1. LoadFromFile(file).p2m \in [ProbeId -> MasterId \cup {NoId}]
    BY <1>2 DEF LoadFromFile
  <2> QED BY <2>1 DEF LoadFromFile, Mapping, File
<1>4. ASSUME NEW m \in MasterId, file.m2p[m] # NoId
      PROVE  LoadFromFile(file).p2m[file.m2p[m]] = m
  BY <1>1, <1>2, <1>4 DEF OneToOne
<1>5. ASSUME NEW p \in ProbeId, LoadFromFile(file).p2m[p] # NoId
      PROVE  file.m2p[LoadFromFile(file).p2m[p]] = p
  BY <1>2, <1>5
<1> QED BY <1>3, <1>4, <1>5 DEF Agree, LoadFromFile

-----------------------------------------------------------------------------
(* The strengthened invariant.                                             *)

\* What a goroutine still has to do concerns monitors this cycle has read.
WithinFetched(c) ==
    /\ c.wanted \subseteq Fetched /\ c.todo \subseteq Fetched
    /\ c.new \subseteq Fetched /\ c.queue \in Seq(Fetched)
    /\ \A u \in c.upd : u.m \in Fetched

PlansFetched == \A pr \in Probe : WithinFetched(cyc[pr])

IInv == TypeOK /\ MappingsAgree /\ PlansFetched

-----------------------------------------------------------------------------

\* A goroutine that does nothing is well typed and plans nothing.
LEMMA AsleepType ==
    ASSUME NEW pc \in Phase
    PROVE  Asleep(pc) \in Goroutine /\ WithinFetched(Asleep(pc))
<1>1. NoNames \in [Name -> ProbeId \cup {NoId}]
  BY DEF NoNames
<1>2. << >> \in Seq(MasterId) /\ << >> \in Seq(Fetched)
  OBVIOUS
<1> QED BY <1>1, <1>2 DEF Asleep, Goroutine, WithinFetched

LEMMA InitIInv == Init => IInv
<1> SUFFICES ASSUME Init PROVE IInv
  OBVIOUS
<1> USE DEF Init
<1>1. TypeOK
  <2>1. master \in [MasterId -> Config \cup {NoMonitor}] /\ issued \subseteq MasterId
    BY ReconcilerAssumption
  <2>2. probe \in [Probe -> TableType] /\ nextId \in [Probe -> Nat]
    BY DEF TableType
  <2>3. mem \in [Probe -> Mapping] /\ disk \in [Probe -> File]
    BY EmptyMappings
  <2>4. snap \in [MasterId -> Config \cup {NoMonitor}]
    BY DEF NoRows
  <2>5. obj \in [MasterId -> ObjectType]
    BY DEF NoObjects, ObjectType
  <2>6. cyc \in [Probe -> Goroutine]
    BY AsleepType DEF Phase
  <2> QED BY <2>1, <2>2, <2>3, <2>4, <2>5, <2>6 DEF TypeOK
<1>2. MappingsAgree
  BY EmptyMappings DEF MappingsAgree
<1>3. PlansFetched
  BY AsleepType DEF PlansFetched, Phase
<1> QED BY <1>1, <1>2, <1>3 DEF IInv

-----------------------------------------------------------------------------
(* Facts about one goroutine, cited by the steps of its actions.           *)

\* A step that leaves the master rows alone and changes one goroutine to one
\* that is well typed and within them.
MovesOne(pr) ==
    /\ cyc' = [cyc EXCEPT ![pr] = cyc'[pr]]
    /\ cyc'[pr] \in Goroutine /\ WithinFetched(cyc'[pr])
    /\ snap' = snap

LEMMA StepOfOne ==
    ASSUME IInv, NEW pr \in Probe, MovesOne(pr)
    PROVE  cyc' \in [Probe -> Goroutine] /\ PlansFetched'
<1> DEFINE c == cyc'[pr]
<1>1. cyc' \in [Probe -> Goroutine]
  BY DEF IInv, TypeOK, MovesOne
<1>2. \A q \in Probe : cyc'[q] = IF q = pr THEN c ELSE cyc[q]
  BY DEF IInv, TypeOK, MovesOne
<1>3. \A q \in Probe : WithinFetched(cyc'[q])
  BY <1>2 DEF IInv, PlansFetched, MovesOne
<1>4. Fetched' = Fetched
  BY DEF Fetched, MovesOne
<1>5. PlansFetched'
  BY <1>3, <1>4 DEF PlansFetched, WithinFetched
<1> QED BY <1>1, <1>5

\* The same, for a step that plans at most the monitors M, or drops plans.
Plans(pr, M) ==
    LET c == cyc[pr]
        d == cyc'[pr]
    IN  /\ cyc' = [cyc EXCEPT ![pr] = d] /\ d \in Goroutine
        /\ d.wanted = c.wanted /\ d.todo \subseteq c.todo /\ d.queue = c.queue
        /\ d.new \subseteq c.new \cup M
        /\ \A u \in d.upd : u \in c.upd \/ u.m \in M
        /\ snap' = snap

LEMMA PlansMoves ==
    ASSUME IInv, NEW pr \in Probe, NEW M \in SUBSET Fetched, Plans(pr, M)
    PROVE  MovesOne(pr)
BY DEF IInv, PlansFetched, WithinFetched, Plans, MovesOne

\* The goroutine of a probe as the invariant gives it.
LEMMA GoroutineFacts ==
    ASSUME IInv, NEW pr \in Probe
    PROVE  /\ cyc \in [Probe -> Goroutine]
           /\ cyc[pr] \in Goroutine /\ WithinFetched(cyc[pr])
           /\ mem[pr] \in Mapping /\ Agree(mem[pr]) /\ probe[pr] \in TableType
BY DEF IInv, TypeOK, PlansFetched, MappingsAgree

\* The mapping of one probe is replaced by another that agrees.
LEMMA MemOfOne ==
    ASSUME IInv, NEW pr \in Probe, NEW map \in Mapping, Agree(map),
           mem' = [mem EXCEPT ![pr] = map], disk' = disk
    PROVE  mem' \in [Probe -> Mapping] /\ disk' \in [Probe -> File] /\ MappingsAgree'
<1>1. mem' \in [Probe -> Mapping] /\ disk' \in [Probe -> File]
  BY DEF IInv, TypeOK
<1>2. \A q \in Probe : Agree(mem'[q])
  BY DEF IInv, TypeOK, MappingsAgree
<1>3. \A q \in Probe : OneToOne(disk'[q])
  BY DEF IInv, MappingsAgree
<1> QED BY <1>1, <1>2, <1>3 DEF MappingsAgree, Agree, OneToOne

LEMMA MemUnchanged ==
    ASSUME IInv, mem' = mem, disk' = disk
    PROVE  mem' \in [Probe -> Mapping] /\ disk' \in [Probe -> File] /\ MappingsAgree'
BY DEF IInv, TypeOK, MappingsAgree, Agree, OneToOne

\* The hash and the planned update of a fetched monitor are well typed.
LEMMA HashType ==
    ASSUME IInv, NEW m \in Fetched
    PROVE  /\ m \in MasterId /\ snap[m] \in Config
           /\ ComputeHash(m) \in HashValue
           /\ \A p \in ProbeId : PlannedUpdate(m, p) \in Update
<1>1. m \in MasterId /\ snap[m] \in Config
  BY DEF Fetched, IInv, TypeOK
<1>2. obj[m].parent \in MasterId \cup ProbeId \cup {NoId}
  BY <1>1 DEF IInv, TypeOK, ObjectType
<1>3. ComputeHash(m) \in HashValue
  BY <1>1, <1>2 DEF ComputeHash, HashValue, Config
<1> QED BY <1>1, <1>2, <1>3 DEF PlannedUpdate, Update

LEMMA StampHashType ==
    ASSUME IInv, NEW m \in Fetched, StampHash(m)
    PROVE  obj' \in [MasterId -> ObjectType]
<1>1. ComputeHash(m) \in HashValue /\ m \in MasterId
  BY HashType
<1>2. obj[m] \in ObjectType
  BY <1>1 DEF IInv, TypeOK
<1>3. [obj[m] EXCEPT !.hash = ComputeHash(m)] \in ObjectType
  BY <1>1, <1>2 DEF ObjectType
<1>4. obj' = [obj EXCEPT ![m] = [obj[m] EXCEPT !.hash = ComputeHash(m)]]
  BY DEF StampHash
<1> QED BY <1>1, <1>3, <1>4 DEF IInv, TypeOK

-----------------------------------------------------------------------------
(* ComputeSyncPlan.                                                        *)

\* What every branch of the loop may rely on.
LEMMA PlanningFacts ==
    ASSUME IInv, NEW pr \in Probe, NEW m \in MasterId, Planning(pr, m)
    PROVE  /\ m \in Fetched /\ snap[m].name \in Name
           /\ cyc[pr].byName[snap[m].name] \in ProbeId \cup {NoId}
<1>1. cyc[pr] \in Goroutine /\ WithinFetched(cyc[pr])
  BY GoroutineFacts
<1>2. m \in Fetched
  BY <1>1 DEF Planning, WithinFetched
<1>3. snap[m].name \in Name
  BY <1>2, HashType DEF Config
<1> QED BY <1>1, <1>2, <1>3 DEF Goroutine

LEMMA PlanAdoptIInv ==
    ASSUME IInv, NEW pr \in Probe, NEW m \in MasterId, PlanAdopt(pr, m)
    PROVE  IInv'
<1> DEFINE p == Adoptable(pr, m)
           u == PlannedUpdate(m, p)
           map == SetHash(SetMapping(mem[pr], m, p), m, NoHash)
           claimed == [cyc[pr].byName EXCEPT ![snap[m].name] = NoId]
<1>1. /\ Planning(pr, m) /\ StampHash(m) /\ p # NoId
      /\ UNCHANGED <<master, issued, probe, nextId, disk, snap, edits, faults>>
      /\ mem' = [mem EXCEPT ![pr] = map]
      /\ cyc' = [cyc EXCEPT ![pr].todo = @ \ {m},
                            ![pr].byName = claimed,
                            ![pr].upd = @ \cup {u}]
  BY DEF PlanAdopt
<1>2. p \in ProbeId /\ m \in Fetched /\ snap[m].name \in Name
  BY <1>1, PlanningFacts DEF Adoptable
<1>3. u \in Update /\ u.m = m
  BY <1>2, HashType DEF PlannedUpdate
<1>4. map \in Mapping /\ Agree(map)
  BY <1>2, GoroutineFacts, SetMappingType, SetMappingAgree, SetHashAgree
<1>5. claimed \in [Name -> ProbeId \cup {NoId}]
  BY GoroutineFacts DEF Goroutine
<1> HIDE DEF map, u, claimed
<1>6. Plans(pr, {m})
  <2>1. cyc \in [Probe -> Goroutine] /\ cyc[pr] \in Goroutine
    BY GoroutineFacts
  <2>2. cyc'[pr] = [cyc[pr] EXCEPT !.todo = @ \ {m}, !.byName = claimed, !.upd = @ \cup {u}]
    BY <1>1, <2>1 DEF Goroutine
  <2>3. cyc'[pr] \in Goroutine
    <3> DEFINE T == cyc[pr].todo \ {m}
               U == cyc[pr].upd \cup {u}
    <3>1. T \subseteq MasterId /\ U \subseteq Update
      BY <1>3, <2>1 DEF Goroutine
    <3>2. cyc'[pr] = [cyc[pr] EXCEPT !.todo = T, !.byName = claimed, !.upd = U]
      BY <2>2
    <3> HIDE DEF T, U
    <3> QED BY <1>5, <2>1, <3>1, <3>2 DEF Goroutine
  <2>4. cyc' = [cyc EXCEPT ![pr] = cyc'[pr]]
    BY <1>1, <2>1 DEF Goroutine
  <2>5. \A w \in cyc'[pr].upd : w \in cyc[pr].upd \/ w.m \in {m}
    BY <1>3, <2>1, <2>2 DEF Goroutine
  <2>6. /\ cyc'[pr].wanted = cyc[pr].wanted /\ cyc'[pr].todo \subseteq cyc[pr].todo
        /\ cyc'[pr].queue = cyc[pr].queue /\ cyc'[pr].new \subseteq cyc[pr].new \cup {m}
    BY <2>1, <2>2 DEF Goroutine
  <2> QED BY <1>1, <2>3, <2>4, <2>5, <2>6 DEF Plans
<1> QED
  BY <1>1, <1>2, <1>4, <1>6, PlansMoves, StepOfOne, MemOfOne, StampHashType
  DEF IInv, TypeOK

LEMMA PlanCreateIInv ==
    ASSUME IInv, NEW pr \in Probe, NEW m \in MasterId, PlanCreate(pr, m)
    PROVE  IInv'
<1>1. /\ Planning(pr, m) /\ StampHash(m)
      /\ UNCHANGED <<master, issued, probe, nextId, mem, disk, snap, edits, faults>>
      /\ cyc' = [cyc EXCEPT ![pr].todo = @ \ {m}, ![pr].new = @ \cup {m}]
  BY DEF PlanCreate
<1>2. Plans(pr, {m})
  BY <1>1, GoroutineFacts DEF Goroutine, Plans
<1> QED
  BY <1>1, <1>2, PlanningFacts, PlansMoves, StepOfOne, MemUnchanged, StampHashType
  DEF IInv, TypeOK

LEMMA PlanRecreateIInv ==
    ASSUME IInv, NEW pr \in Probe, NEW m \in MasterId, PlanRecreate(pr, m)
    PROVE  IInv'
<1> DEFINE map == RemoveByMasterID(mem[pr], m)
<1>1. /\ Planning(pr, m) /\ StampHash(m)
      /\ UNCHANGED <<master, issued, probe, nextId, disk, snap, edits, faults>>
      /\ mem' = [mem EXCEPT ![pr] = map]
      /\ cyc' = [cyc EXCEPT ![pr].todo = @ \ {m}, ![pr].new = @ \cup {m}]
  BY DEF PlanRecreate
<1>2. map \in Mapping /\ Agree(map)
  BY GoroutineFacts, RemoveByMasterIDAgree
<1> HIDE DEF map
<1>3. Plans(pr, {m})
  BY <1>1, GoroutineFacts DEF Goroutine, Plans
<1> QED
  BY <1>1, <1>2, <1>3, PlanningFacts, PlansMoves, StepOfOne, MemOfOne, StampHashType
  DEF IInv, TypeOK

LEMMA PlanUpdateIInv ==
    ASSUME IInv, NEW pr \in Probe, NEW m \in MasterId, PlanUpdate(pr, m)
    PROVE  IInv'
<1> DEFINE u == PlannedUpdate(m, mem[pr].m2p[m])
<1>1. /\ Planning(pr, m) /\ StampHash(m) /\ mem[pr].m2p[m] \in cyc[pr].listed
      /\ UNCHANGED <<master, issued, probe, nextId, mem, disk, snap, edits, faults>>
      /\ cyc' = [cyc EXCEPT ![pr].todo = @ \ {m}, ![pr].upd = @ \cup {u}]
  BY DEF PlanUpdate
<1>2. m \in Fetched /\ mem[pr].m2p[m] \in ProbeId
  BY <1>1, PlanningFacts, GoroutineFacts DEF Goroutine
<1>3. u \in Update /\ u.m = m
  BY <1>2, HashType DEF PlannedUpdate
<1> HIDE DEF u
<1>4. Plans(pr, {m})
  BY <1>1, <1>3, GoroutineFacts DEF Goroutine, Plans
<1> QED
  BY <1>1, <1>2, <1>4, PlansMoves, StepOfOne, MemUnchanged, StampHashType
  DEF IInv, TypeOK

LEMMA PlanNothingIInv ==
    ASSUME IInv, NEW pr \in Probe, NEW m \in MasterId, PlanNothing(pr, m)
    PROVE  IInv'
<1>1. /\ Planning(pr, m) /\ StampHash(m)
      /\ UNCHANGED <<master, issued, probe, nextId, mem, disk, snap, edits, faults>>
      /\ cyc' = [cyc EXCEPT ![pr].todo = @ \ {m}]
  BY DEF PlanNothing
<1>2. Plans(pr, {m})
  BY <1>1, GoroutineFacts DEF Goroutine, Plans
<1> QED
  BY <1>1, <1>2, PlanningFacts, PlansMoves, StepOfOne, MemUnchanged, StampHashType
  DEF IInv, TypeOK

LEMMA PlanOrphansIInv ==
    ASSUME IInv, NEW pr \in Probe, PlanOrphans(pr)
    PROVE  IInv'
<1> DEFINE orphans == Orphans(pr)
           dels == {[m |-> m, p |-> mem[pr].m2p[m]] : m \in orphans}
           pc == IF cyc[pr].upd = {} /\ cyc[pr].new = {} /\ orphans = {}
                 THEN "ok" ELSE "updates"
<1>1. /\ UNCHANGED <<master, issued, probe, nextId, mem, disk, snap, obj, edits, faults>>
      /\ cyc' = [cyc EXCEPT ![pr].del = dels, ![pr].pc = pc]
  BY DEF PlanOrphans
<1>2. dels \subseteq Delete
  <2>1. \A m \in orphans : m \in MasterId /\ mem[pr].m2p[m] \in ProbeId
    BY GoroutineFacts DEF Orphans, GetAllMasterIDs, Mapping
  <2> QED BY <2>1 DEF Delete
<1>3. pc \in Phase
  BY DEF Phase
<1> HIDE DEF dels, pc
<1>4. Plans(pr, {})
  BY <1>1, <1>2, <1>3, GoroutineFacts DEF Goroutine, Plans
<1> QED BY <1>1, <1>4, PlansMoves, StepOfOne, MemUnchanged DEF IInv, TypeOK

-----------------------------------------------------------------------------
(* The start of a cycle, and the ends of a goroutine.                      *)

\* No goroutine has a plan.
LEMMA AllAsleep ==
    ASSUME NEW pc \in Phase, cyc' = [pr \in Probe |-> Asleep(pc)]
    PROVE  cyc' \in [Probe -> Goroutine] /\ PlansFetched'
<1>1. Asleep(pc) \in Goroutine
  BY AsleepType
<1>2. ASSUME NEW pr \in Probe
      PROVE  LET c == cyc'[pr]
             IN  c.wanted = {} /\ c.todo = {} /\ c.new = {} /\ c.queue = << >> /\ c.upd = {}
  BY DEF Asleep
<1> DEFINE F == Fetched'
<1>3. << >> \in Seq(F)
  OBVIOUS
<1>4. PlansFetched'
  BY <1>2, <1>3 DEF PlansFetched, WithinFetched
<1> QED BY <1>1, <1>4

LEMMA FetchMastersIInv ==
    ASSUME IInv, FetchMasters
    PROVE  IInv'
<1> USE DEF FetchMasters
<1>1. snap' \in [MasterId -> Config \cup {NoMonitor}]
  BY DEF IInv, TypeOK
<1>2. \A m \in MasterId : IF snap'[m] = NoMonitor THEN TRUE ELSE snap'[m] \in Config
  BY <1>1
<1>3. obj' \in [MasterId -> ObjectType]
  BY <1>2 DEF ObjectType, Config
<1>4. cyc' \in [Probe -> Goroutine] /\ PlansFetched'
  BY AllAsleep DEF Phase
<1> QED BY <1>1, <1>3, <1>4, MemUnchanged DEF IInv, TypeOK

LEMMA StartProbeIInv ==
    ASSUME IInv, NEW pr \in Probe, StartProbe(pr)
    PROVE  IInv'
<1> DEFINE wanted == FilterMonitorsForProbe(pr)
           listed == {p \in ProbeId : probe[pr][p] # NoMonitor}
<1>1. PICK index \in [Name -> listed \cup {NoId}] :
        cyc' = [cyc EXCEPT ![pr] =
                  [Asleep("plan") EXCEPT !.wanted = wanted, !.todo = wanted,
                                         !.listed = listed, !.byName = index]]
  BY DEF StartProbe
<1>2. UNCHANGED <<master, issued, probe, nextId, mem, disk, snap, obj, edits, faults>>
  BY DEF StartProbe
<1>3. wanted \subseteq Fetched /\ Fetched \subseteq MasterId
  BY DEF FilterMonitorsForProbe, Fetched
<1>4. index \in [Name -> ProbeId \cup {NoId}] /\ listed \subseteq ProbeId
  OBVIOUS
<1>5. Asleep("plan") \in Goroutine /\ WithinFetched(Asleep("plan"))
  BY AsleepType DEF Phase
<1> HIDE DEF wanted, listed
<1> DEFINE c == [Asleep("plan") EXCEPT !.wanted = wanted, !.todo = wanted,
                                       !.listed = listed, !.byName = index]
<1>6. c \in Goroutine
  BY <1>3, <1>4, <1>5 DEF Goroutine
<1>7. WithinFetched(c)
  BY <1>3, <1>5 DEF WithinFetched, Asleep
<1>8. cyc' = [cyc EXCEPT ![pr] = c]
  BY <1>1
<1> HIDE DEF c
<1>9. MovesOne(pr)
  BY <1>2, <1>6, <1>7, <1>8, GoroutineFacts DEF MovesOne
<1> QED BY <1>2, <1>9, StepOfOne, MemUnchanged DEF IInv, TypeOK

LEMMA EndsMoves ==
    ASSUME IInv, NEW pr \in Probe, NEW pc \in Phase, Ends(pr, pc), snap' = snap
    PROVE  MovesOne(pr)
<1>1. Asleep(pc) \in Goroutine /\ WithinFetched(Asleep(pc))
  BY AsleepType
<1>2. cyc' = [cyc EXCEPT ![pr] = Asleep(pc)]
  BY DEF Ends
<1> HIDE DEF Asleep
<1> QED BY <1>1, <1>2, GoroutineFacts DEF MovesOne

\* One failure more.
LEMMA FailsType ==
    ASSUME IInv, NEW kind, Fails(kind)
    PROVE  faults' \in Nat
BY DEF IInv, TypeOK, Fails

LEMMA StartFailsIInv ==
    ASSUME IInv, NEW pr \in Probe, StartFails(pr)
    PROVE  IInv'
<1>1. /\ UNCHANGED <<master, issued, probe, nextId, mem, disk, snap, obj, edits>>
      /\ cyc' = [cyc EXCEPT ![pr].pc = "failed"]
      /\ faults' \in Nat
  BY FailsType DEF StartFails
<1>2. Plans(pr, {})
  BY <1>1, GoroutineFacts DEF Goroutine, Plans, Phase
<1> QED BY <1>1, <1>2, PlansMoves, StepOfOne, MemUnchanged DEF IInv, TypeOK

LEMMA VerifyParentDriftIInv ==
    ASSUME IInv, NEW pr \in Probe, VerifyParentDrift(pr)
    PROVE  IInv'
<1>1. UNCHANGED <<master, issued, probe, nextId, disk, snap, obj, edits, faults>>
  BY DEF VerifyParentDrift
<1>2. MovesOne(pr)
  BY <1>1, EndsMoves DEF VerifyParentDrift, Phase
<1>3. mem' \in [Probe -> Mapping] /\ disk' \in [Probe -> File] /\ MappingsAgree'
  <2> DEFINE h == [m \in MasterId |-> IF m \in Drifted(pr) THEN NoHash ELSE mem[pr].hash[m]]
             map == [mem[pr] EXCEPT !.hash = h]
  <2>1. CASE mem' = mem
    BY <1>1, <2>1, MemUnchanged
  <2>2. CASE mem' = [mem EXCEPT ![pr].hash = h]
    <3>1. h \in [MasterId -> Hash \cup {NoHash}]
      BY GoroutineFacts DEF Mapping
    <3> HIDE DEF h
    <3>2. map \in Mapping /\ Agree(map)
      BY <3>1, GoroutineFacts DEF Mapping, Agree
    <3>3. mem \in [Probe -> Mapping]
      BY DEF IInv, TypeOK
    <3>4. mem' = [mem EXCEPT ![pr] = map]
      BY <2>2, <3>3 DEF Mapping
    <3> HIDE DEF map
    <3> QED BY <1>1, <3>2, <3>4, MemOfOne
  <2> QED BY <2>1, <2>2 DEF VerifyParentDrift
<1> QED BY <1>1, <1>2, <1>3, StepOfOne DEF IInv, TypeOK

-----------------------------------------------------------------------------
(* ExecuteSyncPlan.                                                        *)

LEMMA GetProbeIDType ==
    ASSUME NEW map \in Mapping, NEW x
    PROVE  GetProbeID(map, x) \in ProbeId \cup {NoId}
BY DEF GetProbeID, Mapping

LEMMA PayloadType ==
    ASSUME IInv, NEW m \in Fetched, NEW parent \in ProbeId \cup {NoId}
    PROVE  Payload(m, parent) \in ProbeMonitor
BY HashType DEF Payload, Config, ProbeMonitor

\* One row of one probe is written.
LEMMA RowWritten ==
    ASSUME IInv, NEW pr \in Probe, NEW p, NEW row \in ProbeMonitor,
           probe' = [probe EXCEPT ![pr][p] = row]
    PROVE  probe' \in [Probe -> TableType]
<1>1. probe \in [Probe -> TableType]
  BY DEF IInv, TypeOK
<1> QED BY <1>1 DEF TableType

LEMMA RowDeleted ==
    ASSUME IInv, NEW pr \in Probe, NEW p, probe' = [probe EXCEPT ![pr] = Without(@, p)]
    PROVE  probe' \in [Probe -> TableType]
<1>1. probe \in [Probe -> TableType] /\ probe[pr] \in TableType
  BY DEF IInv, TypeOK
<1>2. \A q \in ProbeId : Without(probe[pr], p)[q] \in ProbeMonitor \cup {NoMonitor}
  BY <1>1 DEF Without, TableType, ProbeMonitor
<1>3. Without(probe[pr], p) \in TableType
  BY <1>2 DEF Without, TableType
<1> HIDE DEF Without
<1> QED BY <1>1, <1>3

\* What an update of the plan works with.
LEMMA UpdatingFacts ==
    ASSUME IInv, NEW pr \in Probe, NEW u, Updating(pr, u)
    PROVE  /\ u.m \in Fetched /\ u.m \in MasterId /\ u.hash \in Hash
           /\ Payload(u.m, UpdateParent(pr, u)) \in ProbeMonitor
<1>1. u \in Update /\ u.m \in Fetched
  BY GoroutineFacts DEF Updating, Goroutine, WithinFetched
<1>2. UpdateParent(pr, u) \in ProbeId \cup {NoId}
  BY GoroutineFacts, GetProbeIDType DEF UpdateParent
<1> QED BY <1>1, <1>2, PayloadType, ReconcilerAssumption DEF Update

LEMMA UpdateOkIInv ==
    ASSUME IInv, NEW pr \in Probe, NEW u, UpdateOk(pr, u)
    PROVE  IInv'
<1> DEFINE row == Payload(u.m, UpdateParent(pr, u))
           h == IF u.parent # NoId /\ UpdateParent(pr, u) = NoId THEN NoHash ELSE u.hash
           map == SetHash(mem[pr], u.m, h)
<1>1. /\ Updating(pr, u)
      /\ UNCHANGED <<master, issued, nextId, disk, snap, obj, edits, faults>>
      /\ probe' = [probe EXCEPT ![pr][u.p] = row]
      /\ mem' = [mem EXCEPT ![pr] = map]
      /\ cyc' = [cyc EXCEPT ![pr].upd = @ \ {u}, ![pr].did = TRUE]
  BY DEF UpdateOk
<1>2. row \in ProbeMonitor /\ u.m \in MasterId /\ h \in Hash \cup {NoHash}
  BY <1>1, UpdatingFacts
<1> HIDE DEF h, row
<1>3. map \in Mapping /\ Agree(map)
  BY <1>2, GoroutineFacts, SetHashAgree
<1> HIDE DEF map
<1>4. Plans(pr, {})
  BY <1>1, GoroutineFacts DEF Goroutine, Plans
<1> QED
  BY <1>1, <1>2, <1>3, <1>4, PlansMoves, StepOfOne, MemOfOne, RowWritten DEF IInv, TypeOK

\* The updates that leave the mapping alone: refused, or never answered.
LEMMA UpdateLostIInv ==
    ASSUME IInv, NEW pr \in Probe, NEW u, UpdateRefused(pr, u) \/ UpdateUnanswered(pr, u)
    PROVE  IInv'
<1>1. /\ Updating(pr, u)
      /\ UNCHANGED <<master, issued, nextId, mem, disk, snap, obj, edits>>
      /\ cyc' = [cyc EXCEPT ![pr].upd = @ \ {u}]
  BY DEF UpdateRefused, UpdateUnanswered
<1>2. faults' \in Nat
  BY FailsType DEF UpdateRefused, UpdateUnanswered, IInv, TypeOK
<1>3. probe' \in [Probe -> TableType]
  <2>1. CASE UpdateRefused(pr, u)
    BY <2>1 DEF UpdateRefused, IInv, TypeOK
  <2>2. CASE UpdateUnanswered(pr, u)
    BY <2>2, UpdatingFacts, RowWritten DEF UpdateUnanswered
  <2> QED BY <2>1, <2>2
<1>4. Plans(pr, {})
  BY <1>1, GoroutineFacts DEF Goroutine, Plans
<1> QED
  BY <1>1, <1>2, <1>3, <1>4, PlansMoves, StepOfOne, MemUnchanged DEF IInv, TypeOK

LEMMA SortCreatesIInv ==
    ASSUME IInv, NEW pr \in Probe, SortCreates(pr)
    PROVE  IInv'
<1> DEFINE batch == cyc[pr].new
           n == Cardinality(batch)
<1>1. PICK order \in [1..n -> batch] :
        cyc' = [cyc EXCEPT ![pr].pc = "rest", ![pr].queue = order, ![pr].new = {}]
  BY DEF SortCreates, TopologicalOrders
<1>2. UNCHANGED <<master, issued, probe, nextId, mem, disk, snap, obj, edits, faults>>
  BY DEF SortCreates
<1>3. batch \subseteq MasterId /\ batch \subseteq Fetched
  BY GoroutineFacts DEF Goroutine, WithinFetched
<1>4. n \in Nat
  BY <1>3, FS_Subset, FS_CardinalityType, ReconcilerAssumption
<1>5. order \in Seq(Fetched) /\ order \in Seq(MasterId)
  BY <1>1, <1>3, <1>4
<1>6. MovesOne(pr)
  <2>0. cyc[pr] \in Goroutine /\ cyc \in [Probe -> Goroutine]
    BY GoroutineFacts DEF IInv, TypeOK
  <2>1. cyc' = [cyc EXCEPT ![pr] = cyc'[pr]] /\ cyc'[pr] \in Goroutine
    <3>1. cyc'[pr] = [cyc[pr] EXCEPT !.pc = "rest", !.queue = order, !.new = {}]
      BY <1>1, <2>0 DEF Goroutine
    <3>2. cyc'[pr] \in Goroutine
      BY <3>1, <1>5, <2>0 DEF Goroutine, Phase
    <3>3. cyc' = [cyc EXCEPT ![pr] = cyc'[pr]]
      BY <1>1, <2>0 DEF Goroutine
    <3> QED BY <3>2, <3>3
  <2>2. /\ cyc'[pr].wanted = cyc[pr].wanted /\ cyc'[pr].queue = order
        /\ cyc'[pr].todo = cyc[pr].todo /\ cyc'[pr].new = {}
        /\ cyc'[pr].upd = cyc[pr].upd
    BY <1>1, GoroutineFacts DEF Goroutine
  <2>3. WithinFetched(cyc'[pr])
    BY <2>2, <1>5, GoroutineFacts DEF WithinFetched
  <2> QED BY <1>2, <2>1, <2>3 DEF MovesOne
<1> QED BY <1>2, <1>6, StepOfOne, MemUnchanged DEF IInv, TypeOK

LEMMA CreateParentType ==
    ASSUME IInv, NEW pr \in Probe, NEW m
    PROVE  CreateParent(pr, m) \in ProbeId \cup {NoId}
BY GoroutineFacts, GetProbeIDType DEF CreateParent

\* What the next create of the queue works with.
LEMMA CreatingFacts ==
    ASSUME IInv, NEW pr \in Probe, Creating(pr)
    PROVE  /\ NextCreate(pr) \in Fetched /\ NextCreate(pr) \in MasterId
           /\ Tail(cyc[pr].queue) \in Seq(MasterId) /\ Tail(cyc[pr].queue) \in Seq(Fetched)
           /\ \A parent \in cyc[pr].asked :
                /\ parent \in ProbeId \cup {NoId}
                /\ Payload(NextCreate(pr), parent) \in ProbeMonitor
<1>1. /\ cyc[pr].queue \in Seq(MasterId) /\ cyc[pr].queue \in Seq(Fetched)
      /\ cyc[pr].queue # << >>
  BY GoroutineFacts DEF Goroutine, WithinFetched, Creating
<1>2. NextCreate(pr) \in Fetched /\ NextCreate(pr) \in MasterId
  BY <1>1 DEF NextCreate
<1>3. Tail(cyc[pr].queue) \in Seq(MasterId) /\ Tail(cyc[pr].queue) \in Seq(Fetched)
  BY <1>1
<1>4. \A parent \in cyc[pr].asked : parent \in ProbeId \cup {NoId}
  BY GoroutineFacts DEF Goroutine
<1> QED BY <1>2, <1>3, <1>4, PayloadType

LEMMA WriteSharedType ==
    ASSUME IInv, NEW pr \in Probe, NEW m \in MasterId, WriteShared(pr, m)
    PROVE  obj' \in [MasterId -> ObjectType]
<1>1. CreateParent(pr, m) \in ProbeId \cup {NoId}
  BY CreateParentType
<1>2. obj \in [MasterId -> ObjectType]
  BY DEF IInv, TypeOK
<1>3. PICK h \in {NoHash, obj[m].hash} :
        obj' = [obj EXCEPT ![m].parent = CreateParent(pr, m), ![m].hash = h]
  BY DEF WriteShared
<1>4. obj[m].hash \in HashValue \cup {NoHash}
  BY <1>2 DEF ObjectType
<1> QED BY <1>1, <1>2, <1>3, <1>4 DEF ObjectType

\* A lost connection writes at most one of the monitors that were to be
\* created.
LEMMA DisconnectShares ==
    ASSUME IInv, NEW pr \in Probe, Disconnect(pr), obj' # obj
    PROVE  \E m \in Fetched : m \in MasterId /\ WriteShared(pr, m)
<1>1. CASE Creating(pr) /\ WriteShared(pr, NextCreate(pr))
  BY <1>1, CreatingFacts
<1>2. ASSUME NEW m \in Foremost(cyc[pr].new), cyc[pr].new # {}, WriteShared(pr, m)
      PROVE  m \in Fetched /\ m \in MasterId
  <2> DEFINE batch == cyc[pr].new
             n == Cardinality(batch)
  <2>1. batch \subseteq MasterId /\ batch \subseteq Fetched
    BY GoroutineFacts DEF Goroutine, WithinFetched
  <2>2. IsFiniteSet(batch)
    BY <2>1, FS_Subset, ReconcilerAssumption
  <2>3. n \in Nat /\ n # 0
    BY <1>2, <2>2, FS_CardinalityType, FS_EmptySet
  <2>4. PICK order \in [1..n -> batch] : m = order[1]
    BY DEF Foremost, TopologicalOrders
  <2> QED BY <2>1, <2>3, <2>4
<1> QED BY <1>1, <1>2 DEF Disconnect

\* A goroutine that ends without having touched the mappings.
LEMMA EndsIInv ==
    ASSUME IInv, NEW pr \in Probe, VerifyFails(pr) \/ Disconnect(pr) \/ DeadlineExceeded(pr)
    PROVE  IInv'
<1>1. /\ UNCHANGED <<master, issued, probe, nextId, mem, disk, snap, edits>>
      /\ Ends(pr, "ok") \/ Ends(pr, "failed")
      /\ faults' \in Nat
  BY FailsType DEF VerifyFails, Disconnect, DeadlineExceeded
<1>2. MovesOne(pr)
  BY <1>1, EndsMoves DEF Phase
<1>3. obj' \in [MasterId -> ObjectType]
  <2>1. CASE obj' = obj
    BY <2>1 DEF IInv, TypeOK
  <2>2. CASE Disconnect(pr) /\ obj' # obj
    <3>1. PICK m \in MasterId : WriteShared(pr, m)
      BY <2>2, DisconnectShares
    <3> QED BY <3>1, WriteSharedType
  <2> QED BY <2>1, <2>2 DEF VerifyFails, DeadlineExceeded
<1> QED BY <1>1, <1>2, <1>3, StepOfOne, MemUnchanged DEF IInv, TypeOK

\* The goroutine after a create of its queue.
LEMMA CreateMoves ==
    ASSUME IInv, NEW pr \in Probe, Creating(pr), snap' = snap,
           NEW M \in SUBSET MasterId, NEW b \in BOOLEAN,
           cyc' = [cyc EXCEPT ![pr].queue = Tail(@), ![pr].asked = {},
                              ![pr].failed = M, ![pr].did = b]
    PROVE  MovesOne(pr)
<1> DEFINE rest == Tail(cyc[pr].queue)
<1>1. rest \in Seq(MasterId) /\ rest \in Seq(Fetched)
  BY CreatingFacts
<1>2. cyc' = [cyc EXCEPT ![pr].queue = rest, ![pr].asked = {}, ![pr].failed = M, ![pr].did = b]
  OBVIOUS
<1> HIDE DEF rest
<1>3. cyc' = [cyc EXCEPT ![pr] = cyc'[pr]] /\ cyc'[pr] \in Goroutine
  <2>1. cyc \in [Probe -> Goroutine]
    BY GoroutineFacts
  <2>2. cyc' = [cyc EXCEPT ![pr] = cyc'[pr]]
    BY <1>2, <2>1 DEF Goroutine
  <2>3. cyc'[pr] = [cyc[pr] EXCEPT !.queue = rest, !.asked = {}, !.failed = M, !.did = b]
    BY <1>2, <2>1 DEF Goroutine
  <2>4. cyc[pr] \in Goroutine
    BY <2>1
  <2>5. [cyc[pr] EXCEPT !.queue = rest, !.asked = {}, !.failed = M, !.did = b] \in Goroutine
    BY <1>1, <2>4 DEF Goroutine
  <2> QED BY <2>2, <2>3, <2>5
<1>4. /\ cyc'[pr].wanted = cyc[pr].wanted /\ cyc'[pr].queue = rest
      /\ cyc'[pr].todo = cyc[pr].todo /\ cyc'[pr].new = cyc[pr].new
      /\ cyc'[pr].upd = cyc[pr].upd
  BY <1>2, GoroutineFacts DEF Goroutine
<1>5. WithinFetched(cyc'[pr])
  BY <1>1, <1>4, GoroutineFacts DEF WithinFetched
<1> QED BY <1>3, <1>5 DEF MovesOne

\* A create that failed, or was skipped: the monitor joins failedCreates.
LEMMA CreateFailsMoves ==
    ASSUME IInv, NEW pr \in Probe, Creating(pr), snap' = snap, CreateGivenUp(pr)
    PROVE  MovesOne(pr)
<1> DEFINE M == cyc[pr].failed \cup {NextCreate(pr)}
           b == cyc[pr].did
<1>1. M \in SUBSET MasterId /\ b \in BOOLEAN
  BY CreatingFacts, GoroutineFacts DEF Goroutine
<1>2. cyc' = [cyc EXCEPT ![pr].queue = Tail(@), ![pr].asked = {},
                         ![pr].failed = M, ![pr].did = b]
  BY GoroutineFacts DEF Goroutine, CreateGivenUp
<1> HIDE DEF M, b
<1> QED BY <1>1, <1>2, CreateMoves

LEMMA CreateSkippedIInv ==
    ASSUME IInv, NEW pr \in Probe, CreateSkipped(pr)
    PROVE  IInv'
<1>1. UNCHANGED <<master, issued, probe, nextId, mem, disk, snap, obj, edits, faults>>
  BY DEF CreateSkipped
<1>2. CreateGivenUp(pr)
  BY GoroutineFacts DEF CreateSkipped, CreateGivenUp, Goroutine
<1>3. MovesOne(pr)
  BY <1>1, <1>2, CreateFailsMoves DEF CreateSkipped
<1> QED BY <1>1, <1>3, StepOfOne, MemUnchanged DEF IInv, TypeOK

LEMMA SendCreateIInv ==
    ASSUME IInv, NEW pr \in Probe, SendCreate(pr)
    PROVE  IInv'
<1> DEFINE m == NextCreate(pr)
           A == {CreateParent(pr, m)}
<1>1. /\ UNCHANGED <<master, issued, probe, nextId, mem, disk, snap, edits, faults>>
      /\ cyc' = [cyc EXCEPT ![pr].asked = A]
      /\ WriteShared(pr, m) /\ Creating(pr)
  BY DEF SendCreate
<1>2. m \in MasterId /\ A \in SUBSET (ProbeId \cup {NoId})
  BY <1>1, CreatingFacts, CreateParentType
<1>3. obj' \in [MasterId -> ObjectType]
  BY <1>1, <1>2, WriteSharedType
<1> HIDE DEF A
<1>4. Plans(pr, {})
  BY <1>1, <1>2, GoroutineFacts DEF Goroutine, Plans
<1> QED BY <1>1, <1>3, <1>4, PlansMoves, StepOfOne, MemUnchanged DEF IInv, TypeOK

LEMMA CreateOkIInv ==
    ASSUME IInv, NEW pr \in Probe, NEW parent, CreateOk(pr, parent)
    PROVE  IInv'
<1> DEFINE m == NextCreate(pr)
           h == obj[m].hash
           map == SetHash(SetMapping(mem[pr], m, nextId[pr]), m, h)
           M == cyc[pr].failed
<1>1. /\ Creating(pr) /\ nextId[pr] \in ProbeId /\ parent \in cyc[pr].asked
      /\ UNCHANGED <<master, issued, disk, snap, obj, edits, faults>>
      /\ probe' = [probe EXCEPT ![pr][nextId[pr]] = Payload(m, parent)]
      /\ nextId' = [nextId EXCEPT ![pr] = @ + 1]
      /\ mem' = [mem EXCEPT ![pr] = map]
      /\ cyc' = [cyc EXCEPT ![pr].queue = Tail(@), ![pr].asked = {}, ![pr].did = TRUE]
  BY DEF CreateOk, AddedTable, Awaiting
<1>2. m \in MasterId /\ h \in Hash \cup {NoHash}
  <2>1. m \in MasterId
    BY <1>1, CreatingFacts
  <2> HIDE DEF m
  <2>2. obj[m] \in ObjectType
    BY <2>1 DEF IInv, TypeOK
  <2> QED BY <2>1, <2>2, ReconcilerAssumption DEF ObjectType
<1>3. map \in Mapping /\ Agree(map)
  BY <1>1, <1>2, GoroutineFacts, SetMappingType, SetMappingAgree, SetHashAgree
<1>4. probe' \in [Probe -> TableType] /\ nextId' \in [Probe -> Nat]
  <2>1. probe' \in [Probe -> TableType]
    BY <1>1, CreatingFacts, RowWritten
  <2>2. nextId' \in [Probe -> Nat]
    BY <1>1 DEF IInv, TypeOK
  <2> QED BY <2>1, <2>2
<1>5. cyc' = [cyc EXCEPT ![pr].queue = Tail(@), ![pr].asked = {},
                         ![pr].failed = M, ![pr].did = TRUE]
  BY <1>1, GoroutineFacts DEF Goroutine
<1> HIDE DEF map
<1>6. MovesOne(pr)
  BY <1>1, <1>5, CreateMoves, GoroutineFacts DEF Goroutine
<1> QED BY <1>1, <1>2, <1>3, <1>4, <1>6, StepOfOne, MemOfOne DEF IInv, TypeOK

LEMMA CreateLostIInv ==
    ASSUME IInv, NEW pr \in Probe, NEW parent,
           CreateRefused(pr, parent) \/ CreateUnanswered(pr, parent)
    PROVE  IInv'
<1>1. /\ Creating(pr) /\ parent \in cyc[pr].asked
      /\ UNCHANGED <<master, issued, mem, disk, snap, obj, edits>>
      /\ CreateGivenUp(pr)
  BY DEF CreateRefused, CreateUnanswered, Awaiting
<1>2. faults' \in Nat
  BY FailsType DEF CreateRefused, CreateUnanswered, IInv, TypeOK
<1>3. probe' \in [Probe -> TableType] /\ nextId' \in [Probe -> Nat]
  <2>1. CASE CreateRefused(pr, parent)
    BY <2>1 DEF CreateRefused, IInv, TypeOK
  <2>2. CASE CreateUnanswered(pr, parent)
    <3>1. probe' \in [Probe -> TableType]
      BY <1>1, <2>2, CreatingFacts, RowWritten DEF CreateUnanswered, AddedTable
    <3>2. nextId' \in [Probe -> Nat]
      BY <2>2 DEF CreateUnanswered, IInv, TypeOK
    <3> QED BY <3>1, <3>2
  <2> QED BY <2>1, <2>2
<1>4. MovesOne(pr)
  BY <1>1, CreateFailsMoves
<1> QED
  BY <1>1, <1>2, <1>3, <1>4, StepOfOne, MemUnchanged DEF IInv, TypeOK

LEMMA DeleteIInv ==
    ASSUME IInv, NEW pr \in Probe, NEW d, DeleteOk(pr, d) \/ DeleteFails(pr, d)
    PROVE  IInv'
<1>1. /\ Deleting(pr, d)
      /\ UNCHANGED <<master, issued, nextId, disk, snap, obj, edits>>
      /\ cyc' = [cyc EXCEPT ![pr].del = @ \ {d}]
  BY DEF DeleteOk, DeleteFails
<1>2. d.m \in MasterId
  BY <1>1, GoroutineFacts DEF Deleting, Goroutine, Delete
<1>3. probe' \in [Probe -> TableType]
  <2>1. CASE probe' = probe
    BY <2>1 DEF IInv, TypeOK
  <2>2. CASE probe' = [probe EXCEPT ![pr] = Without(@, d.p)]
    BY <2>2, RowDeleted
  <2> QED BY <2>1, <2>2 DEF DeleteOk, DeleteFails
<1>4. mem' \in [Probe -> Mapping] /\ disk' \in [Probe -> File] /\ MappingsAgree'
  <2>1. CASE mem' = mem
    BY <1>1, <2>1, MemUnchanged
  <2>2. CASE mem' = [mem EXCEPT ![pr] = RemoveByMasterID(@, d.m)]
    BY <1>1, <1>2, <2>2, GoroutineFacts, RemoveByMasterIDAgree, MemOfOne
  <2> QED BY <2>1, <2>2 DEF DeleteOk, DeleteFails
<1>5. faults' \in Nat
  BY FailsType DEF DeleteOk, DeleteFails, IInv, TypeOK
<1>6. Plans(pr, {})
  BY <1>1, GoroutineFacts DEF Goroutine, Plans
<1> QED BY <1>1, <1>3, <1>4, <1>5, <1>6, PlansMoves, StepOfOne DEF IInv, TypeOK

-----------------------------------------------------------------------------
(* The mapping files, and the operators.                                   *)

LEMMA SaveMappingIInv ==
    ASSUME IInv, NEW pr \in Probe, SaveMapping(pr)
    PROVE  IInv'
<1>1. /\ UNCHANGED <<master, issued, probe, nextId, mem, snap, obj, edits, faults>>
      /\ disk' = [disk EXCEPT ![pr] = SaveToFile(mem[pr])]
      /\ Ends(pr, "saved")
  BY DEF SaveMapping
<1>2. MovesOne(pr)
  BY <1>1, EndsMoves DEF Phase
<1>3. SaveToFile(mem[pr]) \in File /\ OneToOne(SaveToFile(mem[pr]))
  BY GoroutineFacts, SaveToFileOneToOne
<1> HIDE DEF SaveToFile
<1>4. disk' \in [Probe -> File] /\ \A q \in Probe : OneToOne(disk'[q])
  BY <1>1, <1>3 DEF IInv, TypeOK, MappingsAgree
<1>5. \A q \in Probe : Agree(mem'[q])
  BY <1>1 DEF IInv, MappingsAgree
<1>6. MappingsAgree'
  BY <1>4, <1>5 DEF MappingsAgree, OneToOne, Agree
<1> QED BY <1>1, <1>2, <1>4, <1>6, StepOfOne DEF IInv, TypeOK

\* Between two cycles nothing is fetched, and every goroutine is idle.
LEMMA NoRowsType ==
    NoRows \in [MasterId -> Config \cup {NoMonitor}] /\ NoObjects \in [MasterId -> ObjectType]
BY DEF NoRows, NoObjects, ObjectType

LEMMA EndCycleIInv ==
    ASSUME IInv, EndCycle
    PROVE  IInv'
<1>1. cyc' \in [Probe -> Goroutine] /\ PlansFetched'
  BY AllAsleep DEF EndCycle, Phase
<1> QED BY <1>1, NoRowsType, MemUnchanged DEF EndCycle, IInv, TypeOK

LEMMA RestartIInv ==
    ASSUME IInv, NEW files \in [Probe -> File], \A pr \in Probe : OneToOne(files[pr]),
           Restart(files), faults' \in Nat
    PROVE  IInv'
<1>1. cyc' \in [Probe -> Goroutine] /\ PlansFetched'
  BY AllAsleep DEF Restart, Phase
<1>2. \A pr \in Probe : mem'[pr] \in Mapping /\ Agree(mem'[pr])
  BY LoadFromFileAgree DEF Restart
<1>3. mem' \in [Probe -> Mapping]
  <2>1. mem' = [pr \in Probe |-> LoadFromFile(files[pr])]
    BY DEF Restart
  <2> QED BY <1>2, <2>1
<1>4. MappingsAgree'
  BY <1>2 DEF Restart, MappingsAgree, Agree, OneToOne
<1> QED BY <1>1, <1>3, <1>4, NoRowsType DEF Restart, IInv, TypeOK

LEMMA RestartsIInv ==
    ASSUME IInv, Crash \/ Shutdown \/ \E pr \in Probe : CrashWhileSaving(pr)
    PROVE  IInv'
<1>1. faults' \in Nat
  BY FailsType DEF Crash, Shutdown, CrashWhileSaving
<1>2. disk \in [Probe -> File] /\ \A pr \in Probe : OneToOne(disk[pr])
  BY DEF IInv, TypeOK, MappingsAgree
<1>3. CASE Crash
  BY <1>1, <1>2, <1>3, RestartIInv DEF Crash
<1>4. CASE Shutdown
  <2> DEFINE files == [pr \in Probe |-> SaveToFile(mem[pr])]
  <2>1. \A pr \in Probe : SaveToFile(mem[pr]) \in File /\ OneToOne(SaveToFile(mem[pr]))
    BY GoroutineFacts, SaveToFileOneToOne
  <2>2. files \in [Probe -> File] /\ \A pr \in Probe : OneToOne(files[pr])
    BY <2>1
  <2>3. Restart(files)
    BY <1>4 DEF Shutdown
  <2> HIDE DEF files
  <2> QED BY <1>1, <2>2, <2>3, RestartIInv
<1>5. ASSUME NEW pr \in Probe, CrashWhileSaving(pr) PROVE IInv'
  <2> DEFINE files == [disk EXCEPT ![pr] = EmptyFile]
  <2>1. files \in [Probe -> File] /\ \A q \in Probe : OneToOne(files[q])
    BY <1>2, EmptyMappings
  <2>2. Restart(files)
    BY <1>5 DEF CrashWhileSaving
  <2> HIDE DEF files
  <2> QED BY <1>1, <2>1, <2>2, RestartIInv
<1> QED BY <1>3, <1>4, <1>5

\* A step in which the process has no part.
LEMMA ElsewhereIInv ==
    ASSUME IInv, UNCHANGED <<mem, disk, snap, obj, cyc>>,
           master' \in [MasterId -> Config \cup {NoMonitor}], issued' \subseteq MasterId,
           probe' \in [Probe -> TableType], nextId' = nextId,
           edits' \in Nat, faults' \in Nat
    PROVE  IInv'
<1>1. Fetched' = Fetched
  BY DEF Fetched
<1>2. PlansFetched'
  BY <1>1 DEF IInv, PlansFetched, WithinFetched
<1> QED BY <1>2, MemUnchanged DEF IInv, TypeOK

LEMMA OperatorIInv ==
    ASSUME IInv, Operator
    PROVE  IInv'
<1>1. UNCHANGED <<probe, nextId, mem, disk, snap, obj, cyc, faults>> /\ edits' \in Nat
  BY DEF Operator, SaveMonitor, DeleteOnMaster, IInv, TypeOK
<1>2. master' \in [MasterId -> Config \cup {NoMonitor}] /\ issued' \subseteq MasterId
  <2>1. ASSUME NEW m \in MasterId, NEW c \in Choices[m], SaveMonitor(m, c)
        PROVE  master' \in [MasterId -> Config \cup {NoMonitor}] /\ issued' \subseteq MasterId
    <3>1. c \in Config
      BY ReconcilerAssumption
    <3> QED BY <2>1, <3>1 DEF SaveMonitor, IInv, TypeOK
  <2>2. ASSUME NEW m \in MasterId, DeleteOnMaster(m)
        PROVE  master' \in [MasterId -> Config \cup {NoMonitor}] /\ issued' \subseteq MasterId
    BY <2>2 DEF DeleteOnMaster, IInv, TypeOK, Config
  <2> QED BY <2>1, <2>2 DEF Operator
<1> QED BY <1>1, <1>2, ElsewhereIInv DEF IInv, TypeOK

LEMMA DeleteOnProbeIInv ==
    ASSUME IInv, NEW pr \in Probe, NEW p \in ProbeId, DeleteOnProbe(pr, p)
    PROVE  IInv'
<1>1. /\ UNCHANGED <<master, issued, nextId, mem, disk, snap, obj, cyc, edits>>
      /\ probe' = [probe EXCEPT ![pr] = Without(@, p)]
      /\ faults' \in Nat
  BY FailsType DEF DeleteOnProbe
<1>2. probe' \in [Probe -> TableType]
  BY <1>1, RowDeleted
<1> QED BY <1>1, <1>2, ElsewhereIInv DEF IInv, TypeOK

-----------------------------------------------------------------------------

LEMMA NextIInv ==
    ASSUME IInv, [Next]_vars
    PROVE  IInv'
<1>1. ASSUME NEW pr \in Probe, Sync(pr) PROVE IInv'
  <2>1. CASE StartProbe(pr)
    BY <2>1, StartProbeIInv
  <2>2. CASE Plan(pr)
    BY <2>2, PlanAdoptIInv, PlanCreateIInv, PlanRecreateIInv, PlanUpdateIInv,
       PlanNothingIInv, PlanOrphansIInv DEF Plan
  <2>3. CASE Execute(pr)
    BY <2>3, UpdateOkIInv, UpdateLostIInv, SortCreatesIInv, CreateSkippedIInv,
       SendCreateIInv, CreateOkIInv, CreateLostIInv, DeleteIInv, VerifyParentDriftIInv DEF Execute
  <2>4. CASE SaveMapping(pr)
    BY <2>4, SaveMappingIInv
  <2> QED BY <1>1, <2>1, <2>2, <2>3, <2>4 DEF Sync
<1>2. ASSUME NEW pr \in Probe, Failure(pr) PROVE IInv'
  BY <1>2, StartFailsIInv, UpdateLostIInv, CreateLostIInv, DeleteIInv, EndsIInv,
     RestartsIInv, DeleteOnProbeIInv DEF Failure
<1>3. CASE UNCHANGED vars
  BY <1>3, ElsewhereIInv DEF vars, IInv, TypeOK
<1> QED
  BY <1>1, <1>2, <1>3, FetchMastersIInv, EndCycleIInv, RestartsIInv, OperatorIInv DEF Next

\* Whatever fails, and however often, every mapping stays well typed.
THEOREM TypeCorrect == Spec => []TypeOK
<1>1. IInv => TypeOK
  BY DEF IInv
<1> QED BY InitIInv, NextIInv, <1>1, PTL DEF Spec

\* On every probe, through every theft of a mapping, failure, crash and
\* reload, the two directions of the mapping stay inverse to each other, and
\* every file can be read back: mapper.go never maps two masters to one row.
THEOREM MappingsStayAgreed == Spec => []MappingsAgree
<1>1. IInv => MappingsAgree
  BY DEF IInv
<1> QED BY InitIInv, NextIInv, <1>1, PTL DEF Spec

-----------------------------------------------------------------------------
(* What the steps of one probe's goroutine, and the failures of that       *)
(* probe, leave alone.                                                     *)

Elsewhere(pr) ==
    \A q \in Probe : q # pr =>
        /\ probe'[q] = probe[q] /\ nextId'[q] = nextId[q]
        /\ mem'[q] = mem[q] /\ disk'[q] = disk[q] /\ cyc'[q] = cyc[q]

Local(pr) == UNCHANGED <<master, issued, snap>> /\ Elsewhere(pr)

\* Every step of a goroutine is local to its probe.
LEMMA SyncIsLocal ==
    ASSUME IInv, NEW pr \in Probe, Sync(pr)
    PROVE  Local(pr)
<1> USE GoroutineFacts DEF Local, Elsewhere, IInv, TypeOK
<1>1. CASE StartProbe(pr)
  BY <1>1 DEF StartProbe
<1>2. CASE Plan(pr)
  BY <1>2 DEF Plan, PlanAdopt, PlanCreate, PlanRecreate, PlanUpdate, PlanNothing, PlanOrphans
<1>3. CASE Execute(pr)
  <2>1. ASSUME NEW u \in cyc[pr].upd, UpdateOk(pr, u) \/ UpdateRefused(pr, u)
        PROVE  Local(pr)
    BY <2>1 DEF UpdateOk, UpdateRefused
  <2>2. CASE SortCreates(pr)
    BY <2>2 DEF SortCreates
  <2>3. CASE CreateSkipped(pr) \/ SendCreate(pr)
    BY <2>3 DEF CreateSkipped, SendCreate
  <2>6. ASSUME NEW parent \in cyc[pr].asked, CreateOk(pr, parent) \/ CreateRefused(pr, parent)
        PROVE  Local(pr)
    BY <2>6 DEF CreateOk, CreateRefused, CreateGivenUp, AddedTable
  <2>4. ASSUME NEW d \in cyc[pr].del, DeleteOk(pr, d)
        PROVE  Local(pr)
    BY <2>4 DEF DeleteOk
  <2>5. CASE VerifyParentDrift(pr)
    BY <2>5 DEF VerifyParentDrift, Ends
  <2> QED BY <1>3, <2>1, <2>2, <2>3, <2>4, <2>5, <2>6 DEF Execute
<1>4. CASE SaveMapping(pr)
  BY <1>4 DEF SaveMapping, Ends
<1> QED BY <1>1, <1>2, <1>3, <1>4 DEF Sync

Lapse(pr) == \/ StartFails(pr)
             \/ \E u \in cyc[pr].upd : UpdateUnanswered(pr, u)
             \/ \E parent \in cyc[pr].asked : CreateUnanswered(pr, parent)
             \/ \E d \in cyc[pr].del : DeleteFails(pr, d)
             \/ VerifyFails(pr) \/ Disconnect(pr) \/ DeadlineExceeded(pr)
             \/ \E p \in ProbeId : DeleteOnProbe(pr, p)

\* And so is every failure but those of the process.
LEMMA LapseIsLocal ==
    ASSUME IInv, NEW pr \in Probe, Lapse(pr)
    PROVE  Local(pr)
<1> USE GoroutineFacts DEF Local, Elsewhere, IInv, TypeOK
<1>1. CASE StartFails(pr)
  BY <1>1 DEF StartFails
<1>2. ASSUME NEW u \in cyc[pr].upd, UpdateUnanswered(pr, u)
      PROVE  Local(pr)
  BY <1>2 DEF UpdateUnanswered
<1>3. ASSUME NEW parent \in cyc[pr].asked, CreateUnanswered(pr, parent)
      PROVE  Local(pr)
  BY <1>3 DEF CreateUnanswered, CreateGivenUp, AddedTable
<1>4. ASSUME NEW d \in cyc[pr].del, DeleteFails(pr, d)
      PROVE  Local(pr)
  BY <1>4 DEF DeleteFails
<1>5. CASE VerifyFails(pr) \/ Disconnect(pr) \/ DeadlineExceeded(pr)
  BY <1>5 DEF VerifyFails, Disconnect, DeadlineExceeded, Ends
<1>6. ASSUME NEW p \in ProbeId, DeleteOnProbe(pr, p)
      PROVE  Local(pr)
  BY <1>6 DEF DeleteOnProbe
<1> QED BY <1>1, <1>2, <1>3, <1>4, <1>5, <1>6 DEF Lapse

-----------------------------------------------------------------------------
(* A mapping never points at another monitor's row, as long as no two      *)
(* monitors are ever given the same name.                                  *)

Names(m) == {c.name : c \in Choices[m]}

NamesApart ==
    /\ \A m, x \in MasterId : m # x => Names(m) \cap Names(x) = {}
    /\ \A m \in MasterId : InitMaster[m] # NoMonitor => InitMaster[m].name \in Names(m)

\* The id p was given out by the probe, and its row, while there is one, is m's.
Owns(pr, p, m) ==
    /\ p < nextId[pr]
    /\ probe[pr][p] # NoMonitor => probe[pr][p].name \in Names(m)

IssuedRows(pr) == \A p \in Rows(pr) : p < nextId[pr]

EntriesOwn(pr, m2p) == \A m \in MasterId : m2p[m] # NoId => Owns(pr, m2p[m], m)

PlansOwn(pr) ==
    /\ \A u \in cyc[pr].upd : Owns(pr, u.p, u.m)
    /\ \A d \in cyc[pr].del : Owns(pr, d.p, d.m) /\ d.m \notin cyc[pr].wanted

\* While a goroutine plans, its index of names tells the truth: a row that is
\* listed under a name has it, and whoever is mapped to the row may have it.
Indexed(pr, n, p) ==
    /\ p < nextId[pr]
    /\ probe[pr][p] # NoMonitor => probe[pr][p].name = n
    /\ \A m \in MasterId : mem[pr].m2p[m] = p => n \in Names(m)
    /\ \A x \in Name : cyc[pr].byName[x] = p => x = n

IndexOwn(pr) ==
    cyc[pr].pc = "plan" =>
        \A n \in Name : cyc[pr].byName[n] # NoId => Indexed(pr, n, cyc[pr].byName[n])

OwnAt(pr) ==
    /\ IssuedRows(pr)
    /\ EntriesOwn(pr, mem[pr].m2p) /\ EntriesOwn(pr, disk[pr].m2p)
    /\ PlansOwn(pr) /\ IndexOwn(pr)

NamesKept ==
    /\ \A m \in MasterId : master[m] # NoMonitor => master[m].name \in Names(m)
    /\ \A m \in MasterId : snap[m] # NoMonitor => snap[m].name \in Names(m)

OwnInv == NamesKept /\ \A pr \in Probe : OwnAt(pr)

-----------------------------------------------------------------------------

\* What a step may do to the table of a probe: rows vanish, or are changed
\* but keep their name, or are updated or added by the monitor they belong to.
TableStep(pr) ==
    /\ nextId'[pr] \in Nat /\ nextId[pr] <= nextId'[pr]
    /\ \A p \in ProbeId : probe'[pr][p] # NoMonitor =>
        \/ probe[pr][p] # NoMonitor /\ probe'[pr][p].name = probe[pr][p].name
        \/ \E m \in MasterId :
              /\ probe'[pr][p].name \in Names(m)
              /\ \/ probe[pr][p] # NoMonitor /\ Owns(pr, p, m)
                 \/ p = nextId[pr] /\ p < nextId'[pr]

LEMMA OwnsStays ==
    ASSUME NamesApart, IInv, NEW pr \in Probe, IssuedRows(pr), TableStep(pr)
    PROVE  /\ IssuedRows(pr)'
           /\ \A p \in ProbeId, m \in MasterId : Owns(pr, p, m) => Owns(pr, p, m)'
<1>1. ProbeId \subseteq Nat /\ nextId[pr] \in Nat /\ nextId'[pr] \in Nat
  BY ReconcilerAssumption DEF IInv, TypeOK, TableStep
<1>2. ASSUME NEW p \in ProbeId, probe'[pr][p] # NoMonitor PROVE p < nextId'[pr]
  <2>1. \/ probe[pr][p] # NoMonitor
        \/ p = nextId[pr] /\ p < nextId'[pr]
    BY <1>2 DEF TableStep
  <2>2. nextId[pr] <= nextId'[pr] /\ p \in Nat  BY <1>1 DEF TableStep
  <2>3. probe[pr][p] # NoMonitor => p < nextId[pr]  BY DEF IssuedRows, Rows
  <2> QED BY <1>1, <2>1, <2>2, <2>3
<1>3. IssuedRows(pr)'
  BY <1>2 DEF IssuedRows, Rows
<1>4. ASSUME NEW p \in ProbeId, NEW m \in MasterId, Owns(pr, p, m)
      PROVE  Owns(pr, p, m)'
  <2>1. p < nextId'[pr]
    BY <1>1, <1>4 DEF Owns, TableStep
  <2>2. ASSUME probe'[pr][p] # NoMonitor
        PROVE  probe'[pr][p].name \in Names(m)
    <3>1. CASE probe[pr][p] # NoMonitor /\ probe'[pr][p].name = probe[pr][p].name
      BY <3>1, <1>4 DEF Owns
    <3>2. ASSUME NEW x \in MasterId, probe'[pr][p].name \in Names(x),
                 probe[pr][p] # NoMonitor, Owns(pr, p, x)
          PROVE  probe'[pr][p].name \in Names(m)
      BY <3>2, <1>4 DEF Owns, NamesApart
    <3>3. p # nextId[pr]
      BY <1>1, <1>4 DEF Owns
    <3> QED BY <2>2, <3>1, <3>2, <3>3 DEF TableStep
  <2> QED BY <2>1, <2>2 DEF Owns
<1> QED BY <1>3, <1>4

\* A step keeps OwnAt if whatever it maps or plans anew is owned, and the
\* index stays true.
LEMMA OwnAtStays ==
    ASSUME NamesApart, IInv, IInv', NEW pr \in Probe, OwnAt(pr), TableStep(pr),
           \A m \in MasterId, p \in ProbeId : mem'[pr].m2p[m] = p =>
              p \in {mem[pr].m2p[m], disk[pr].m2p[m]} \/ Owns(pr, p, m)',
           \A m \in MasterId, p \in ProbeId : disk'[pr].m2p[m] = p =>
              p \in {mem[pr].m2p[m], disk[pr].m2p[m]},
           \A u \in cyc'[pr].upd : u \in cyc[pr].upd \/ Owns(pr, u.p, u.m)',
           \A d \in cyc'[pr].del :
              \/ d \in cyc[pr].del /\ cyc'[pr].wanted = cyc[pr].wanted
              \/ Owns(pr, d.p, d.m)' /\ d.m \notin cyc'[pr].wanted,
           IndexOwn(pr)'
    PROVE  OwnAt(pr)'
<1>1. /\ IssuedRows(pr)'
      /\ \A p \in ProbeId, m \in MasterId : Owns(pr, p, m) => Owns(pr, p, m)'
  BY OwnsStays DEF OwnAt
<1>2. /\ mem[pr] \in Mapping /\ mem'[pr] \in Mapping
      /\ disk[pr] \in File /\ disk'[pr] \in File
  BY DEF IInv, TypeOK
<1>3. EntriesOwn(pr, mem[pr].m2p)'
  <2>1. ASSUME NEW m \in MasterId, NEW p \in ProbeId, mem'[pr].m2p[m] = p
        PROVE  Owns(pr, p, m)'
    <3>1. NoId \notin ProbeId
      BY IdAssumption
    <3>2. CASE p \in {mem[pr].m2p[m], disk[pr].m2p[m]}
      BY <1>1, <3>1, <3>2 DEF OwnAt, EntriesOwn
    <3> QED BY <3>2, <2>1
  <2>2. \A m \in MasterId : mem'[pr].m2p[m] \in ProbeId \cup {NoId}
    BY <1>2 DEF Mapping
  <2> QED BY <2>1, <2>2 DEF EntriesOwn
<1>4. EntriesOwn(pr, disk[pr].m2p)'
  BY <1>1, <1>2 DEF EntriesOwn, OwnAt, Mapping, File
<1>5. PlansOwn(pr)'
  <2>1. cyc[pr].upd \subseteq Update /\ cyc[pr].del \subseteq Delete
    BY GoroutineFacts DEF Goroutine
  <2>2. \A u \in cyc[pr].upd : u.p \in ProbeId /\ u.m \in MasterId
    BY <2>1 DEF Update
  <2>3. \A d \in cyc[pr].del : d.p \in ProbeId /\ d.m \in MasterId
    BY <2>1 DEF Delete
  <2> QED BY <1>1, <2>2, <2>3 DEF PlansOwn, OwnAt
<1> QED BY <1>1, <1>3, <1>4, <1>5 DEF OwnAt, EntriesOwn

\* The other probes are untouched.
LEMMA OthersOwn ==
    ASSUME OwnInv, NEW pr \in Probe, Local(pr), OwnAt(pr)'
    PROVE  OwnInv'
<1>1. ASSUME NEW q \in Probe, q # pr PROVE OwnAt(q)'
  BY <1>1 DEF OwnInv, Local, Elsewhere, OwnAt, IssuedRows, EntriesOwn, PlansOwn,
     IndexOwn, Indexed, Owns, Rows
<1>2. NamesKept'
  BY DEF OwnInv, NamesKept, Local
<1> QED BY <1>1, <1>2 DEF OwnInv

\* A table whose rows vanish or keep their names.
NamesStay(pr) ==
    /\ nextId'[pr] = nextId[pr]
    /\ \A p \in ProbeId : probe'[pr][p] # NoMonitor =>
          probe[pr][p] # NoMonitor /\ probe'[pr][p].name = probe[pr][p].name

LEMMA NamesStayIsStep ==
    ASSUME IInv, NEW pr \in Probe, NamesStay(pr)
    PROVE  TableStep(pr)
BY DEF NamesStay, TableStep, IInv, TypeOK

LEMMA SameTable ==
    ASSUME NEW pr \in Probe, probe' = probe, nextId' = nextId
    PROVE  NamesStay(pr)
BY DEF NamesStay

LEMMA DeletedTable ==
    ASSUME IInv, NEW pr \in Probe, NEW p, probe' = [probe EXCEPT ![pr] = Without(@, p)],
           nextId' = nextId
    PROVE  NamesStay(pr)
<1>1. probe[pr] \in TableType /\ probe \in [Probe -> TableType]
  BY DEF IInv, TypeOK
<1>2. probe'[pr] = Without(probe[pr], p)
  BY <1>1
<1>3. ASSUME NEW q \in ProbeId, Without(probe[pr], p)[q] # NoMonitor
      PROVE  probe[pr][q] # NoMonitor /\ Without(probe[pr], p)[q].name = probe[pr][q].name
  BY <1>1, <1>3 DEF Without, TableType, ProbeMonitor
<1> QED BY <1>2, <1>3 DEF NamesStay

\* The index stays true while names stay and the mapping loses entries only.
LEMMA IndexStays ==
    ASSUME IInv, NEW pr \in Probe, IndexOwn(pr), NamesStay(pr),
           cyc'[pr].pc = "plan" =>
              cyc[pr].pc = "plan" /\ cyc'[pr].byName = cyc[pr].byName,
           \A m \in MasterId : mem'[pr].m2p[m] \in {mem[pr].m2p[m], NoId}
    PROVE  IndexOwn(pr)'
<1>1. NoId \notin ProbeId /\ cyc[pr].byName \in [Name -> ProbeId \cup {NoId}]
  BY IdAssumption, GoroutineFacts DEF Goroutine
<1> QED BY <1>1 DEF IndexOwn, Indexed, NamesStay

\* A step that maps nothing anew and plans nothing anew.
LEMMA QuietOwn ==
    ASSUME NamesApart, IInv, IInv', NEW pr \in Probe, OwnInv, Local(pr), NamesStay(pr),
           \A m \in MasterId : mem'[pr].m2p[m] \in {mem[pr].m2p[m], NoId},
           \A m \in MasterId : disk'[pr].m2p[m] \in {mem[pr].m2p[m], disk[pr].m2p[m]},
           cyc'[pr].upd \subseteq cyc[pr].upd,
           \/ cyc'[pr].del = {}
           \/ cyc'[pr].del \subseteq cyc[pr].del /\ cyc'[pr].wanted = cyc[pr].wanted,
           cyc'[pr].pc = "plan" =>
              cyc[pr].pc = "plan" /\ cyc'[pr].byName = cyc[pr].byName
    PROVE  OwnInv'
<1>1. IndexOwn(pr)'
  BY IndexStays DEF OwnInv, OwnAt
<1>2. \A m \in MasterId, p \in ProbeId :
         /\ mem'[pr].m2p[m] = p => p = mem[pr].m2p[m]
         /\ disk'[pr].m2p[m] = p => p \in {mem[pr].m2p[m], disk[pr].m2p[m]}
  BY IdAssumption
<1>3. OwnAt(pr) /\ TableStep(pr)
  BY NamesStayIsStep DEF OwnInv
<1>4. OwnAt(pr)'
  BY <1>1, <1>2, <1>3, OwnAtStays
<1> QED BY <1>4, OthersOwn

\* What the operations of a mapping do to its entries.
LEMMA Entries ==
    ASSUME NEW map \in Mapping, NEW m \in MasterId
    PROVE  /\ \A p \in ProbeId :
                 /\ SetMapping(map, m, p).m2p[m] = p
                 /\ \A x \in MasterId : x # m =>
                       SetMapping(map, m, p).m2p[x] \in {map.m2p[x], NoId}
           /\ RemoveByMasterID(map, m).m2p[m] = NoId
           /\ \A x \in MasterId : x # m => RemoveByMasterID(map, m).m2p[x] = map.m2p[x]
           /\ \A h : SetHash(map, m, h).m2p = map.m2p
BY DEF SetMapping, RemoveByMasterID, SetHash, Mapping

\* No monitor in the plan but the one that is planned has its name.
LEMMA NameOf ==
    ASSUME OwnInv, NEW m \in Fetched
    PROVE  snap[m].name \in Names(m)
BY DEF OwnInv, NamesKept, Fetched

LEMMA PlanAdoptOwn ==
    ASSUME NamesApart, IInv, IInv', OwnInv, NEW pr \in Probe, NEW m \in MasterId,
           PlanAdopt(pr, m), Local(pr)
    PROVE  OwnInv'
<1>0. PICK n, p, u : n = snap[m].name /\ p = Adoptable(pr, m) /\ u = PlannedUpdate(m, p)
  OBVIOUS
<1> DEFINE map == SetHash(SetMapping(mem[pr], m, p), m, NoHash)
           claimed == [cyc[pr].byName EXCEPT ![n] = NoId]
<1>1. /\ p = cyc[pr].byName[n]
      /\ Planning(pr, m) /\ p # NoId /\ mem[pr].m2p[m] = NoId
      /\ UNCHANGED <<probe, nextId, disk>>
      /\ mem' = [mem EXCEPT ![pr] = map]
      /\ cyc' = [cyc EXCEPT ![pr].todo = @ \ {m},
                            ![pr].byName = claimed,
                            ![pr].upd = @ \cup {u}]
  BY <1>0 DEF PlanAdopt, Adoptable
<1>2. p \in ProbeId /\ m \in Fetched /\ n \in Name /\ n \in Names(m)
  BY <1>0, <1>1, PlanningFacts, NameOf
<1>3. cyc[pr].byName \in [Name -> ProbeId \cup {NoId}] /\ NoId \notin ProbeId
  BY GoroutineFacts, IdAssumption DEF Goroutine
<1>4. u.m = m /\ u.p = p
  BY <1>0 DEF PlannedUpdate
<1>5. /\ cyc'[pr].pc = "plan" /\ cyc[pr].pc = "plan" /\ cyc'[pr].byName = claimed
      /\ cyc'[pr].upd = cyc[pr].upd \cup {u} /\ cyc'[pr].del = cyc[pr].del
      /\ cyc'[pr].wanted = cyc[pr].wanted
  BY <1>1, GoroutineFacts DEF Planning, Goroutine
<1>6. /\ mem'[pr].m2p[m] = p
      /\ \A x \in MasterId : x # m => mem'[pr].m2p[x] \in {mem[pr].m2p[x], NoId}
  <2>1. mem'[pr] = map
    BY <1>1 DEF IInv, TypeOK
  <2>2. SetMapping(mem[pr], m, p) \in Mapping
    BY <1>2, GoroutineFacts, SetMappingType
  <2>3. map.m2p = SetMapping(mem[pr], m, p).m2p
    BY <2>2, Entries
  <2>4. mem[pr] \in Mapping
    BY GoroutineFacts
  <2> HIDE DEF map
  <2> QED BY <1>2, <2>1, <2>3, <2>4, Entries
<1>7. Indexed(pr, n, p)
  BY <1>1, <1>2, <1>5 DEF OwnInv, OwnAt, IndexOwn
<1>8. Owns(pr, p, m) /\ Owns(pr, p, m)'
  BY <1>1, <1>2, <1>7 DEF Indexed, Owns
<1>9. IndexOwn(pr)'
  <2>1. ASSUME NEW x \in Name, NEW q \in ProbeId, claimed[x] = q
        PROVE  Indexed(pr, x, q)'
    <3>1. x # n /\ cyc[pr].byName[x] = q /\ q # p
      BY <1>2, <1>3, <1>7, <2>1 DEF Indexed
    <3>2. Indexed(pr, x, q)
      BY <1>3, <1>5, <3>1 DEF OwnInv, OwnAt, IndexOwn
    <3>3. ASSUME NEW y \in MasterId, mem'[pr].m2p[y] = q
          PROVE  x \in Names(y)
      BY <1>3, <1>6, <3>1, <3>2, <3>3 DEF Indexed
    <3>4. ASSUME NEW y \in Name, claimed[y] = q
          PROVE  y = x
      BY <1>2, <1>3, <3>2, <3>4 DEF Indexed
    <3> QED BY <1>1, <1>5, <3>2, <3>3, <3>4 DEF Indexed
  <2>2. \A x \in Name : claimed[x] \in ProbeId \cup {NoId}
    BY <1>3
  <2> HIDE DEF claimed
  <2> QED BY <1>5, <2>1, <2>2 DEF IndexOwn
<1>10. TableStep(pr)
  BY <1>1, SameTable, NamesStayIsStep
<1>11. \A x \in MasterId, q \in ProbeId : mem'[pr].m2p[x] = q =>
          q \in {mem[pr].m2p[x], disk[pr].m2p[x]} \/ Owns(pr, q, x)'
  BY <1>3, <1>6, <1>8
<1>12. \A x \in MasterId, q \in ProbeId : disk'[pr].m2p[x] = q =>
          q \in {mem[pr].m2p[x], disk[pr].m2p[x]}
  BY <1>1
<1>13. \A v \in cyc'[pr].upd : v \in cyc[pr].upd \/ Owns(pr, v.p, v.m)'
  BY <1>4, <1>5, <1>8
<1> HIDE DEF map, claimed
<1>14. OwnAt(pr)'
  BY <1>5, <1>9, <1>10, <1>11, <1>12, <1>13, OwnAtStays DEF OwnInv
<1> QED BY <1>14, OthersOwn

\* The monitor is planned, and at most loses its entry.
LEMMA PlanQuietOwn ==
    ASSUME NamesApart, IInv, IInv', OwnInv, NEW pr \in Probe, NEW m \in MasterId,
           PlanCreate(pr, m) \/ PlanRecreate(pr, m) \/ PlanNothing(pr, m), Local(pr)
    PROVE  OwnInv'
<1>1. UNCHANGED <<probe, nextId, disk>>
  BY DEF PlanCreate, PlanRecreate, PlanNothing
<1>2. \A x \in MasterId : mem'[pr].m2p[x] \in {mem[pr].m2p[x], NoId}
  <2>1. CASE mem' = mem
    BY <2>1
  <2>2. CASE mem' = [mem EXCEPT ![pr] = RemoveByMasterID(@, m)]
    <3>1. mem'[pr] = RemoveByMasterID(mem[pr], m)
      BY <2>2 DEF IInv, TypeOK
    <3> QED BY <3>1, GoroutineFacts, Entries
  <2> QED BY <2>1, <2>2 DEF PlanCreate, PlanRecreate, PlanNothing
<1>3. /\ cyc'[pr].upd = cyc[pr].upd /\ cyc'[pr].del = cyc[pr].del
      /\ cyc'[pr].wanted = cyc[pr].wanted /\ cyc'[pr].pc = cyc[pr].pc
      /\ cyc'[pr].byName = cyc[pr].byName
  BY GoroutineFacts DEF PlanCreate, PlanRecreate, PlanNothing, Goroutine
<1> QED BY <1>1, <1>2, <1>3, SameTable, QuietOwn

LEMMA PlanUpdateOwn ==
    ASSUME NamesApart, IInv, IInv', OwnInv, NEW pr \in Probe, NEW m \in MasterId,
           PlanUpdate(pr, m), Local(pr)
    PROVE  OwnInv'
<1>0. PICK u : u = PlannedUpdate(m, mem[pr].m2p[m])
  OBVIOUS
<1>1. /\ mem[pr].m2p[m] \in cyc[pr].listed
      /\ UNCHANGED <<probe, nextId, mem, disk>>
      /\ cyc' = [cyc EXCEPT ![pr].todo = @ \ {m}, ![pr].upd = @ \cup {u}]
  BY <1>0 DEF PlanUpdate
<1>2. /\ cyc'[pr].upd = cyc[pr].upd \cup {u} /\ cyc'[pr].del = cyc[pr].del
      /\ cyc'[pr].wanted = cyc[pr].wanted /\ cyc'[pr].pc = cyc[pr].pc
      /\ cyc'[pr].byName = cyc[pr].byName
  BY <1>1, GoroutineFacts DEF Goroutine
<1>3. u.m = m /\ u.p = mem[pr].m2p[m] /\ u.p # NoId
  BY <1>0, <1>1, GoroutineFacts, IdAssumption DEF PlannedUpdate, Goroutine
<1>4. Owns(pr, u.p, u.m) /\ Owns(pr, u.p, u.m)'
  BY <1>1, <1>3 DEF OwnInv, OwnAt, EntriesOwn, Owns
<1>5. IndexOwn(pr)'
  <2>1. IndexOwn(pr) /\ NamesStay(pr)
    BY <1>1, SameTable DEF OwnInv, OwnAt
  <2> QED BY <1>1, <1>2, <2>1, IndexStays
<1>6. TableStep(pr)
  BY <1>1, SameTable, NamesStayIsStep
<1>7. OwnAt(pr)'
  BY <1>1, <1>2, <1>4, <1>5, <1>6, OwnAtStays DEF OwnInv
<1> QED BY <1>7, OthersOwn

LEMMA PlanOrphansOwn ==
    ASSUME NamesApart, IInv, IInv', OwnInv, NEW pr \in Probe, PlanOrphans(pr), Local(pr)
    PROVE  OwnInv'
<1> DEFINE dels == {[m |-> m, p |-> mem[pr].m2p[m]] : m \in Orphans(pr)}
<1>1. /\ UNCHANGED <<probe, nextId, mem, disk>>
      /\ cyc'[pr].upd = cyc[pr].upd /\ cyc'[pr].del = dels
      /\ cyc'[pr].wanted = cyc[pr].wanted /\ cyc'[pr].pc # "plan"
  BY GoroutineFacts DEF PlanOrphans, Goroutine
<1>2. \A d \in dels : Owns(pr, d.p, d.m) /\ d.m \notin cyc[pr].wanted
  BY DEF Orphans, GetAllMasterIDs, OwnInv, OwnAt, EntriesOwn
<1>3. \A d \in dels : Owns(pr, d.p, d.m)'
  BY <1>1, <1>2 DEF Owns
<1> HIDE DEF dels
<1>4. IndexOwn(pr)' /\ TableStep(pr)
  BY <1>1, SameTable, NamesStayIsStep DEF IndexOwn
<1>5. OwnAt(pr)'
  BY <1>1, <1>2, <1>3, <1>4, OwnAtStays DEF OwnInv
<1> QED BY <1>5, OthersOwn

LEMMA StartProbeOwn ==
    ASSUME NamesApart, IInv, IInv', OwnInv, NEW pr \in Probe, StartProbe(pr), Local(pr)
    PROVE  OwnInv'
<1> DEFINE wanted == FilterMonitorsForProbe(pr)
           named(n) == {p \in Rows(pr) : probe[pr][p].name = n}
<1>1. PICK index \in [Name -> Rows(pr) \cup {NoId}] :
        /\ \A n \in Name : IF named(n) = {} THEN index[n] = NoId ELSE index[n] \in named(n)
        /\ cyc' = [cyc EXCEPT ![pr] =
                     [Asleep("plan") EXCEPT !.wanted = wanted, !.todo = wanted,
                                            !.listed = Rows(pr), !.byName = index]]
  BY DEF StartProbe, Rows
<1>2. UNCHANGED <<probe, nextId, mem, disk>>
  BY DEF StartProbe
<1>3. cyc'[pr].upd = {} /\ cyc'[pr].del = {} /\ cyc'[pr].byName = index
  BY <1>1, GoroutineFacts DEF Asleep
<1>4. IndexOwn(pr)'
  <2>1. ASSUME NEW n \in Name, index[n] # NoId
        PROVE  Indexed(pr, n, index[n])'
    <3> DEFINE p == index[n]
    <3>1. p \in Rows(pr) /\ probe[pr][p].name = n
      BY <1>1, <2>1
    <3>2. p \in ProbeId /\ p < nextId[pr] /\ probe[pr][p] # NoMonitor
      BY <3>1 DEF OwnInv, OwnAt, IssuedRows, Rows
    <3>3. \A m \in MasterId : mem[pr].m2p[m] = p => n \in Names(m)
      BY <3>1, <3>2, IdAssumption DEF OwnInv, OwnAt, EntriesOwn, Owns
    <3>4. \A x \in Name : index[x] = p => x = n
      BY <1>1, <3>1, <3>2, IdAssumption
    <3> QED BY <1>2, <1>3, <3>1, <3>2, <3>3, <3>4 DEF Indexed
  <2> QED BY <1>3, <2>1 DEF IndexOwn
<1>5. TableStep(pr)
  BY <1>2, SameTable, NamesStayIsStep
<1>6. OwnAt(pr)'
  BY <1>2, <1>3, <1>4, <1>5, OwnAtStays DEF OwnInv
<1> QED BY <1>6, OthersOwn

\* The end of a goroutine, however it ends, and what it does when nothing
\* is written to the probe.
LEMMA EndsOwn ==
    ASSUME NamesApart, IInv, IInv', OwnInv, NEW pr \in Probe, Local(pr),
           UNCHANGED <<probe, nextId>>, cyc'[pr].upd = {}, cyc'[pr].del = {},
           cyc'[pr].pc # "plan",
           \A m \in MasterId : mem'[pr].m2p[m] \in {mem[pr].m2p[m], NoId},
           \A m \in MasterId : disk'[pr].m2p[m] \in {mem[pr].m2p[m], disk[pr].m2p[m]}
    PROVE  OwnInv'
<1>1. NamesStay(pr)
  BY SameTable
<1>2. cyc'[pr].upd \subseteq cyc[pr].upd
  OBVIOUS
<1> QED BY <1>1, <1>2, QuietOwn

LEMMA GoroutineEndsOwn ==
    ASSUME NamesApart, IInv, IInv', OwnInv, NEW pr \in Probe, Local(pr),
           \/ VerifyParentDrift(pr) \/ VerifyFails(pr) \/ Disconnect(pr)
           \/ DeadlineExceeded(pr) \/ SaveMapping(pr)
    PROVE  OwnInv'
<1>1. PICK pc \in {"ok", "failed", "saved"} : Ends(pr, pc)
  BY DEF VerifyParentDrift, VerifyFails, Disconnect, DeadlineExceeded, SaveMapping
<1>2. cyc'[pr].upd = {} /\ cyc'[pr].del = {} /\ cyc'[pr].pc # "plan"
  BY <1>1, GoroutineFacts DEF Ends, Asleep
<1>3. mem'[pr].m2p = mem[pr].m2p
  <2>1. mem \in [Probe -> Mapping]
    BY DEF IInv, TypeOK
  <2> QED
    BY <2>1 DEF VerifyParentDrift, VerifyFails, Disconnect, DeadlineExceeded, SaveMapping, Mapping
<1>4. disk'[pr].m2p = mem[pr].m2p \/ disk'[pr].m2p = disk[pr].m2p
  BY DEF VerifyParentDrift, VerifyFails, Disconnect, DeadlineExceeded, SaveMapping,
     SaveToFile, IInv, TypeOK
<1>5. UNCHANGED <<probe, nextId>>
  BY DEF VerifyParentDrift, VerifyFails, Disconnect, DeadlineExceeded, SaveMapping
<1> QED BY <1>2, <1>3, <1>4, <1>5, EndsOwn

\* The steps of an execution that write nothing.
LEMMA IdleStepOwn ==
    ASSUME NamesApart, IInv, IInv', OwnInv, NEW pr \in Probe, Local(pr),
           \/ \E u \in cyc[pr].upd : UpdateRefused(pr, u)
           \/ SortCreates(pr) \/ CreateSkipped(pr) \/ SendCreate(pr)
           \/ \E parent \in cyc[pr].asked : CreateRefused(pr, parent)
           \/ StartFails(pr)
    PROVE  OwnInv'
<1>1. UNCHANGED <<probe, nextId, mem, disk>>
  BY DEF UpdateRefused, SortCreates, CreateSkipped, SendCreate,
     CreateRefused, StartFails
<1>2. /\ cyc'[pr].upd \subseteq cyc[pr].upd /\ cyc'[pr].del = cyc[pr].del
      /\ cyc'[pr].wanted = cyc[pr].wanted /\ cyc'[pr].pc # "plan"
  <2>1. CASE \E u \in cyc[pr].upd : UpdateRefused(pr, u)
    BY <2>1, GoroutineFacts DEF UpdateRefused, Goroutine, Updating
  <2>2. CASE SortCreates(pr)
    <3>1. PICK order :
            cyc' = [cyc EXCEPT ![pr].pc = "rest", ![pr].queue = order, ![pr].new = {}]
      BY <2>2 DEF SortCreates
    <3> QED BY <3>1, GoroutineFacts DEF Goroutine
  <2>3. CASE CreateSkipped(pr) \/ SendCreate(pr)
    <3>1. CASE CreateSkipped(pr)
      BY <3>1, GoroutineFacts DEF CreateSkipped, Creating, Goroutine
    <3>2. CASE SendCreate(pr)
      <4>1. PICK A : cyc' = [cyc EXCEPT ![pr].asked = A]
        BY <3>2 DEF SendCreate
      <4> QED BY <3>2, <4>1, GoroutineFacts DEF SendCreate, Creating, Goroutine
    <3> QED BY <2>3, <3>1, <3>2
  <2>5. CASE \E parent \in cyc[pr].asked : CreateRefused(pr, parent)
    BY <2>5, GoroutineFacts DEF CreateRefused, CreateGivenUp, Awaiting, Creating, Goroutine
  <2>4. CASE StartFails(pr)
    BY <2>4, GoroutineFacts DEF StartFails, Goroutine
  <2> QED BY <2>1, <2>2, <2>3, <2>4, <2>5
<1> QED BY <1>1, <1>2, SameTable, QuietOwn

\* An update writes the row it owns.
LEMMA UpdateOwn ==
    ASSUME NamesApart, IInv, IInv', OwnInv, NEW pr \in Probe, Local(pr),
           NEW u \in cyc[pr].upd, UpdateOk(pr, u) \/ UpdateUnanswered(pr, u)
    PROVE  OwnInv'
<1> DEFINE row == Payload(u.m, UpdateParent(pr, u))
<1>1. /\ Updating(pr, u) /\ EditAccepted(pr, u.p, UpdateParent(pr, u))
      /\ UNCHANGED <<nextId, disk>>
      /\ probe' = [probe EXCEPT ![pr][u.p] = row]
  BY DEF UpdateOk, UpdateUnanswered
<1>2. /\ cyc'[pr].upd \subseteq cyc[pr].upd /\ cyc'[pr].del = cyc[pr].del
      /\ cyc'[pr].wanted = cyc[pr].wanted /\ cyc'[pr].pc # "plan"
  BY GoroutineFacts DEF UpdateOk, UpdateUnanswered, Goroutine, Updating
<1>3. mem'[pr].m2p = mem[pr].m2p
  BY Entries, UpdatingFacts, <1>1, GoroutineFacts
  DEF UpdateOk, UpdateUnanswered, SetHash, Mapping, IInv, TypeOK
<1>4. u.m \in MasterId /\ u.m \in Fetched /\ u.p \in ProbeId
  BY <1>1, UpdatingFacts, GoroutineFacts DEF Goroutine, Update
<1>5. TableStep(pr)
  <2>1. row.name \in Names(u.m)
    BY <1>4, NameOf DEF Payload
  <2>2. Owns(pr, u.p, u.m) /\ probe[pr][u.p] # NoMonitor
    BY <1>1 DEF EditAccepted, OwnInv, OwnAt, PlansOwn
  <2>3. probe[pr] \in TableType /\ probe \in [Probe -> TableType] /\ nextId[pr] \in Nat
    BY DEF IInv, TypeOK
  <2> HIDE DEF row
  <2>4. \A p \in ProbeId : probe'[pr][p] = IF p = u.p THEN row ELSE probe[pr][p]
    BY <1>1, <2>3 DEF TableType
  <2> QED BY <1>1, <1>4, <2>1, <2>2, <2>3, <2>4 DEF TableStep
<1>6. IndexOwn(pr)'
  BY <1>2 DEF IndexOwn
<1>7. OwnAt(pr)'
  BY <1>1, <1>2, <1>3, <1>5, <1>6, OwnAtStays DEF OwnInv
<1> QED BY <1>7, OthersOwn

\* A create adds a row under an id that nobody has been given yet.
LEMMA CreateOwn ==
    ASSUME NamesApart, IInv, IInv', OwnInv, NEW pr \in Probe, Local(pr),
           NEW parent \in cyc[pr].asked, CreateOk(pr, parent) \/ CreateUnanswered(pr, parent)
    PROVE  OwnInv'
<1>0. PICK m, p : m = NextCreate(pr) /\ p = nextId[pr]
  OBVIOUS
<1> DEFINE row == Payload(m, parent)
<1>1. /\ Creating(pr) /\ p \in ProbeId
      /\ disk' = disk
      /\ probe' = [probe EXCEPT ![pr][p] = row]
      /\ nextId' = [nextId EXCEPT ![pr] = p + 1]
  BY <1>0 DEF CreateOk, CreateUnanswered, AddedTable, Awaiting
<1>2. /\ cyc'[pr].upd = cyc[pr].upd /\ cyc'[pr].del = cyc[pr].del
      /\ cyc'[pr].wanted = cyc[pr].wanted /\ cyc'[pr].pc # "plan"
  <2>1. CASE CreateOk(pr, parent)
    BY <1>1, <2>1, GoroutineFacts DEF CreateOk, Goroutine, Creating
  <2>2. CASE CreateUnanswered(pr, parent)
    BY <1>1, <2>2, GoroutineFacts DEF CreateUnanswered, CreateGivenUp, Goroutine, Creating
  <2> QED BY <2>1, <2>2
<1>3. m \in MasterId /\ m \in Fetched /\ row.name \in Names(m)
  BY <1>0, <1>1, CreatingFacts, NameOf DEF Payload
<1>4. p \in Nat /\ nextId[pr] = p /\ nextId'[pr] = p + 1
  BY <1>0, <1>1, ReconcilerAssumption DEF IInv, TypeOK
<1>5. /\ probe'[pr][p] = row
      /\ \A q \in ProbeId : q # p => probe'[pr][q] = probe[pr][q]
  BY <1>1 DEF IInv, TypeOK, TableType
<1> HIDE DEF row
<1>6. TableStep(pr)
  BY <1>3, <1>4, <1>5 DEF TableStep
<1>7. Owns(pr, p, m)'
  BY <1>3, <1>4, <1>5 DEF Owns
<1>8. \A x \in MasterId :
         mem'[pr].m2p[x] \in {mem[pr].m2p[x], NoId} \/ (x = m /\ mem'[pr].m2p[x] = p)
  <2>1. CASE CreateOk(pr, parent)
    <3> DEFINE map == SetMapping(mem[pr], m, p)
    <3>1. PICK h : mem' = [mem EXCEPT ![pr] = SetHash(map, m, h)]
      BY <1>0, <2>1 DEF CreateOk
    <3>2. map \in Mapping
      BY <1>1, <1>3, GoroutineFacts, SetMappingType
    <3>3. mem'[pr].m2p = map.m2p
      BY <3>1, <3>2, <1>3, Entries DEF IInv, TypeOK
    <3>4. mem[pr] \in Mapping
      BY GoroutineFacts
    <3> QED BY <1>1, <1>3, <3>3, <3>4, Entries
  <2>2. CASE CreateUnanswered(pr, parent)
    BY <2>2 DEF CreateUnanswered
  <2> QED BY <2>1, <2>2
<1>9. IndexOwn(pr)'
  BY <1>2 DEF IndexOwn
<1>10. \A x \in MasterId, q \in ProbeId : mem'[pr].m2p[x] = q =>
          q \in {mem[pr].m2p[x], disk[pr].m2p[x]} \/ Owns(pr, q, x)'
  BY <1>7, <1>8, IdAssumption
<1>11. \A x \in MasterId, q \in ProbeId : disk'[pr].m2p[x] = q =>
          q \in {mem[pr].m2p[x], disk[pr].m2p[x]}
  BY <1>1
<1>12. OwnAt(pr)'
  BY <1>2, <1>6, <1>9, <1>10, <1>11, OwnAtStays DEF OwnInv
<1> QED BY <1>12, OthersOwn

LEMMA DeleteOwn ==
    ASSUME NamesApart, IInv, IInv', OwnInv, NEW pr \in Probe, Local(pr),
           NEW d \in cyc[pr].del, DeleteOk(pr, d) \/ DeleteFails(pr, d)
    PROVE  OwnInv'
<1>1. Deleting(pr, d) /\ UNCHANGED <<nextId, disk>>
  BY DEF DeleteOk, DeleteFails
<1>2. NamesStay(pr)
  <2>1. CASE probe' = probe
    BY <1>1, <2>1, SameTable
  <2>2. CASE probe' = [probe EXCEPT ![pr] = Without(@, d.p)]
    BY <1>1, <2>2, DeletedTable
  <2> QED BY <2>1, <2>2 DEF DeleteOk, DeleteFails
<1>3. d.m \in MasterId
  BY GoroutineFacts DEF Goroutine, Delete
<1>4. \A x \in MasterId : mem'[pr].m2p[x] \in {mem[pr].m2p[x], NoId}
  <2>1. CASE mem' = mem
    BY <2>1
  <2>2. CASE mem' = [mem EXCEPT ![pr] = RemoveByMasterID(@, d.m)]
    <3>1. mem'[pr] = RemoveByMasterID(mem[pr], d.m)
      BY <2>2 DEF IInv, TypeOK
    <3> QED BY <1>3, <3>1, GoroutineFacts, Entries
  <2> QED BY <2>1, <2>2 DEF DeleteOk, DeleteFails
<1>5. /\ cyc'[pr].upd = cyc[pr].upd /\ cyc'[pr].del \subseteq cyc[pr].del
      /\ cyc'[pr].wanted = cyc[pr].wanted /\ cyc'[pr].pc # "plan"
  <2>1. cyc' = [cyc EXCEPT ![pr].del = @ \ {d}]
    BY DEF DeleteOk, DeleteFails
  <2> QED BY <1>1, <2>1, GoroutineFacts DEF Goroutine, Deleting
<1> QED BY <1>1, <1>2, <1>4, <1>5, QuietOwn

LEMMA DeleteOnProbeOwn ==
    ASSUME NamesApart, IInv, IInv', OwnInv, NEW pr \in Probe, Local(pr),
           NEW p \in ProbeId, DeleteOnProbe(pr, p)
    PROVE  OwnInv'
<1>1. UNCHANGED <<nextId, mem, disk, cyc>> /\ NamesStay(pr)
  BY DeletedTable DEF DeleteOnProbe
<1> QED BY <1>1, QuietOwn

\* All goroutines asleep, with mappings that were in memory or in the files.
LEMMA AsleepOwn ==
    ASSUME NamesApart, IInv, IInv', OwnInv, NamesKept', UNCHANGED <<probe, nextId>>,
           NEW pc \in {"idle", "waiting"}, cyc' = [pr \in Probe |-> Asleep(pc)],
           \A pr \in Probe, m \in MasterId :
              /\ mem'[pr].m2p[m] \in {mem[pr].m2p[m], disk[pr].m2p[m], NoId}
              /\ disk'[pr].m2p[m] \in {mem[pr].m2p[m], disk[pr].m2p[m], NoId}
    PROVE  OwnInv'
<1>1. ASSUME NEW pr \in Probe PROVE OwnAt(pr)'
  <2>1. cyc'[pr].upd = {} /\ cyc'[pr].del = {} /\ cyc'[pr].pc # "plan"
    BY DEF Asleep
  <2>2. TableStep(pr) /\ IndexOwn(pr)'
    BY <2>1, SameTable, NamesStayIsStep DEF IndexOwn
  <2>3. \A m \in MasterId, p \in ProbeId :
           /\ mem'[pr].m2p[m] = p => p \in {mem[pr].m2p[m], disk[pr].m2p[m]}
           /\ disk'[pr].m2p[m] = p => p \in {mem[pr].m2p[m], disk[pr].m2p[m]}
    BY IdAssumption
  <2> QED BY <2>1, <2>2, <2>3, OwnAtStays DEF OwnInv
<1> QED BY <1>1 DEF OwnInv

LEMMA CycleOwn ==
    ASSUME NamesApart, IInv, IInv', OwnInv, FetchMasters \/ EndCycle
    PROVE  OwnInv'
<1>1. NamesKept'
  BY DEF FetchMasters, EndCycle, NoRows, OwnInv, NamesKept
<1> QED BY <1>1, AsleepOwn DEF FetchMasters, EndCycle

\* What a restart finds in the files was in them, or in memory, before.
LEMMA RestartedFiles ==
    ASSUME IInv, Crash \/ Shutdown \/ \E pr \in Probe : CrashWhileSaving(pr)
    PROVE  \E files : /\ Restart(files)
                      /\ \A pr \in Probe, m \in MasterId :
                            files[pr].m2p[m] \in {mem[pr].m2p[m], disk[pr].m2p[m], NoId}
<1>1. CASE Crash
  BY <1>1 DEF Crash
<1>2. CASE Shutdown
  <2> DEFINE files == [pr \in Probe |-> SaveToFile(mem[pr])]
  <2>1. \A pr \in Probe : files[pr].m2p = mem[pr].m2p
    BY DEF SaveToFile
  <2>2. Restart(files)
    BY <1>2 DEF Shutdown
  <2> HIDE DEF files
  <2> QED BY <2>1, <2>2
<1>3. ASSUME NEW q \in Probe, CrashWhileSaving(q)
      PROVE  \E files : /\ Restart(files)
                        /\ \A pr \in Probe, m \in MasterId :
                              files[pr].m2p[m] \in {mem[pr].m2p[m], disk[pr].m2p[m], NoId}
  <2> DEFINE files == [disk EXCEPT ![q] = EmptyFile]
  <2>1. \A pr \in Probe, m \in MasterId :
           files[pr].m2p[m] \in {disk[pr].m2p[m], NoId}
    BY DEF EmptyFile, IInv, TypeOK
  <2>2. Restart(files)
    BY <1>3 DEF CrashWhileSaving
  <2> HIDE DEF files
  <2> QED BY <2>1, <2>2
<1> QED BY <1>1, <1>2, <1>3

LEMMA RestartsOwn ==
    ASSUME NamesApart, IInv, IInv', OwnInv,
           Crash \/ Shutdown \/ \E pr \in Probe : CrashWhileSaving(pr)
    PROVE  OwnInv'
<1>1. PICK files : /\ Restart(files)
                   /\ \A pr \in Probe, m \in MasterId :
                         files[pr].m2p[m] \in {mem[pr].m2p[m], disk[pr].m2p[m], NoId}
  BY RestartedFiles
<1>2. NamesKept'
  BY <1>1 DEF Restart, NoRows, OwnInv, NamesKept
<1>3. \A pr \in Probe, m \in MasterId :
         /\ mem'[pr].m2p[m] \in {mem[pr].m2p[m], disk[pr].m2p[m], NoId}
         /\ disk'[pr].m2p[m] \in {mem[pr].m2p[m], disk[pr].m2p[m], NoId}
  BY <1>1 DEF Restart, LoadFromFile
<1> QED BY <1>1, <1>2, <1>3, AsleepOwn DEF Restart

LEMMA OperatorOwn ==
    ASSUME IInv, OwnInv, Operator
    PROVE  OwnInv'
<1>1. UNCHANGED <<probe, nextId, mem, disk, snap, cyc>>
  BY DEF Operator, SaveMonitor, DeleteOnMaster
<1>2. \A pr \in Probe : OwnAt(pr)'
  BY <1>1 DEF OwnInv, OwnAt, IssuedRows, EntriesOwn, PlansOwn, IndexOwn, Indexed, Owns, Rows
<1>3. \A m \in MasterId : master'[m] # NoMonitor => master'[m].name \in Names(m)
  <2>1. ASSUME NEW m \in MasterId, NEW c \in Choices[m], SaveMonitor(m, c)
        PROVE  \A x \in MasterId : master'[x] # NoMonitor => master'[x].name \in Names(x)
    BY <2>1 DEF SaveMonitor, OwnInv, NamesKept, Names, IInv, TypeOK
  <2>2. ASSUME NEW m \in MasterId, DeleteOnMaster(m)
        PROVE  \A x \in MasterId : master'[x] # NoMonitor => master'[x].name \in Names(x)
    <3>1. ASSUME NEW x \in MasterId, master'[x] # NoMonitor
          PROVE  master[x] # NoMonitor /\ master'[x].name = master[x].name
      BY <2>2, <3>1 DEF DeleteOnMaster, IInv, TypeOK, Config
    <3> QED BY <3>1 DEF OwnInv, NamesKept
  <2> QED BY <2>1, <2>2 DEF Operator
<1> QED BY <1>1, <1>2, <1>3 DEF OwnInv, NamesKept

LEMMA InitOwn ==
    ASSUME NamesApart, Init
    PROVE  OwnInv
<1> USE DEF Init
<1>1. NamesKept
  BY DEF NamesKept, NamesApart, NoRows
<1>2. ASSUME NEW pr \in Probe PROVE OwnAt(pr)
  BY DEF OwnAt, IssuedRows, Rows, EntriesOwn, NewIDMapping, EmptyFile, PlansOwn, IndexOwn, Asleep
<1> QED BY <1>1, <1>2 DEF OwnInv

LEMMA NextOwn ==
    ASSUME NamesApart, IInv, OwnInv, [Next]_vars
    PROVE  OwnInv'
<1>0. IInv'
  BY NextIInv
<1>1. ASSUME NEW pr \in Probe, Sync(pr) PROVE OwnInv'
  <2>1. Local(pr)
    BY <1>1, SyncIsLocal
  <2>2. CASE StartProbe(pr)
    BY <1>0, <2>1, <2>2, StartProbeOwn
  <2>3. CASE Plan(pr)
    BY <1>0, <2>1, <2>3, PlanAdoptOwn, PlanQuietOwn, PlanUpdateOwn, PlanOrphansOwn DEF Plan
  <2>4. CASE Execute(pr)
    BY <1>0, <2>1, <2>4, UpdateOwn, IdleStepOwn, CreateOwn, DeleteOwn, GoroutineEndsOwn DEF Execute
  <2>5. CASE SaveMapping(pr)
    BY <1>0, <2>1, <2>5, GoroutineEndsOwn
  <2> QED BY <1>1, <2>2, <2>3, <2>4, <2>5 DEF Sync
<1>2. ASSUME NEW pr \in Probe, Lapse(pr) PROVE OwnInv'
  <2>1. Local(pr)
    BY <1>2, LapseIsLocal
  <2> QED
    BY <1>0, <1>2, <2>1, IdleStepOwn, UpdateOwn, CreateOwn, DeleteOwn, GoroutineEndsOwn,
       DeleteOnProbeOwn DEF Lapse
<1>3. ASSUME NEW pr \in Probe, Failure(pr) PROVE OwnInv'
  BY <1>0, <1>2, <1>3, RestartsOwn DEF Failure, Lapse
<1>4. CASE UNCHANGED vars
  BY <1>4 DEF vars, OwnInv, NamesKept, OwnAt, IssuedRows, EntriesOwn, PlansOwn,
     IndexOwn, Indexed, Owns, Rows
<1> QED
  BY <1>0, <1>1, <1>3, <1>4, CycleOwn, RestartsOwn, OperatorOwn DEF Next

\* Whatever is adopted, recreated, lost, crashed or restored from an old
\* file, a mapping points at a row of its own monitor or at no row: a stale
\* entry never leads an update or a delete to another monitor's history
\* (reconciler.go:77-195, mapper.go).
THEOREM MapsToOwn == ASSUME NamesApart PROVE Spec => []MapsToOwnRow
<1>1. Init => IInv /\ OwnInv
  BY InitIInv, InitOwn
<1>2. IInv /\ OwnInv /\ [Next]_vars => IInv' /\ OwnInv'
  BY NextIInv, NextOwn
<1>3. IInv /\ OwnInv => MapsToOwnRow
  BY IdAssumption DEF OwnInv, OwnAt, EntriesOwn, Owns, MapsToOwnRow, Rows, Names
<1> QED BY <1>1, <1>2, <1>3, PTL DEF Spec

-----------------------------------------------------------------------------
(* What a goroutine wants holds what the master means its probe to run.    *)

Working == {"plan", "updates", "rest"}

\* The filter of a probe that shares the objects with nobody walks up the
\* parents that the master gave.
Unwritten(pr) ==
    cyc[pr].pc = "waiting" /\ Probe = {pr} =>
        \A m \in Fetched : obj[m].parent = snap[m].parent

WantsMeant(pr) == cyc[pr].pc \in Working => MeantFor(pr) \subseteq cyc[pr].wanted

MeantInv == \A pr \in Probe : Unwritten(pr) /\ WantsMeant(pr)

\* The goroutine goes on with what it wanted, or does not work any more.
GoesOn(pr) ==
    /\ cyc'[pr].pc # "waiting"
    /\ cyc'[pr].pc \in Working =>
         cyc[pr].pc \in Working /\ cyc'[pr].wanted = cyc[pr].wanted

LEMMA MeantStays ==
    ASSUME MeantInv, NEW pr \in Probe, Local(pr), Unwritten(pr)', WantsMeant(pr)'
    PROVE  MeantInv'
<1>1. \A q \in Probe : MeantFor(q)' = MeantFor(q)
  BY DEF MeantFor, Fetched, Below, Children, Local
<1>2. ASSUME NEW q \in Probe, q # pr PROVE Unwritten(q)' /\ WantsMeant(q)'
  <2>1. cyc'[q] = cyc[q] /\ Probe # {q}
    BY <1>2 DEF Local, Elsewhere
  <2>2. WantsMeant(q)
    BY DEF MeantInv
  <2> QED BY <1>1, <2>1, <2>2 DEF Unwritten, WantsMeant
<1> QED BY <1>2 DEF MeantInv

LEMMA GoesOnMeant ==
    ASSUME MeantInv, NEW pr \in Probe, Local(pr), GoesOn(pr)
    PROVE  MeantInv'
<1>1. MeantFor(pr)' = MeantFor(pr)
  BY DEF MeantFor, Fetched, Below, Children, Local
<1>2. Unwritten(pr)'
  BY DEF Unwritten, GoesOn
<1>3. WantsMeant(pr)'
  BY <1>1 DEF MeantInv, WantsMeant, GoesOn
<1> QED BY <1>2, <1>3, MeantStays

LEMMA PlanGoesOn ==
    ASSUME IInv, NEW pr \in Probe, Plan(pr)
    PROVE  GoesOn(pr)
<1> USE GoroutineFacts DEF GoesOn, Working, Goroutine
<1>1. ASSUME NEW m \in MasterId, PlanAdopt(pr, m) PROVE GoesOn(pr)
  BY <1>1 DEF PlanAdopt, Planning
<1>2. ASSUME NEW m \in MasterId, PlanCreate(pr, m) \/ PlanRecreate(pr, m) PROVE GoesOn(pr)
  BY <1>2 DEF PlanCreate, PlanRecreate, Planning
<1>3. ASSUME NEW m \in MasterId, PlanUpdate(pr, m) \/ PlanNothing(pr, m) PROVE GoesOn(pr)
  BY <1>3 DEF PlanUpdate, PlanNothing, Planning
<1>4. CASE PlanOrphans(pr)
  BY <1>4 DEF PlanOrphans
<1> QED BY <1>1, <1>2, <1>3, <1>4 DEF Plan

LEMMA EndsGoesOn ==
    ASSUME IInv, NEW pr \in Probe, NEW pc \in {"ok", "failed", "saved"}, Ends(pr, pc)
    PROVE  GoesOn(pr)
BY GoroutineFacts DEF Ends, Asleep, GoesOn, Working

LEMMA ExecuteGoesOn ==
    ASSUME IInv, NEW pr \in Probe, Execute(pr)
    PROVE  GoesOn(pr)
<1> USE GoroutineFacts DEF GoesOn, Working, Goroutine
<1>1. ASSUME NEW u \in cyc[pr].upd, UpdateOk(pr, u) \/ UpdateRefused(pr, u) PROVE GoesOn(pr)
  BY <1>1 DEF UpdateOk, UpdateRefused, Updating
<1>2. CASE SortCreates(pr)
  <2>1. PICK order :
          cyc' = [cyc EXCEPT ![pr].pc = "rest", ![pr].queue = order, ![pr].new = {}]
    BY <1>2 DEF SortCreates
  <2> QED BY <1>2, <2>1 DEF SortCreates
<1>3. CASE CreateSkipped(pr) \/ SendCreate(pr)
  BY <1>3 DEF CreateSkipped, SendCreate, Creating
<1>4. ASSUME NEW parent \in cyc[pr].asked, CreateOk(pr, parent) \/ CreateRefused(pr, parent)
      PROVE  GoesOn(pr)
  BY <1>4 DEF CreateOk, CreateRefused, CreateGivenUp, Awaiting, Creating
<1>5. ASSUME NEW d \in cyc[pr].del, DeleteOk(pr, d) PROVE GoesOn(pr)
  BY <1>5 DEF DeleteOk, Deleting
<1>6. CASE VerifyParentDrift(pr)
  BY <1>6, EndsGoesOn DEF VerifyParentDrift
<1> QED BY <1>1, <1>2, <1>3, <1>4, <1>5, <1>6 DEF Execute

LEMMA LapseGoesOn ==
    ASSUME IInv, NEW pr \in Probe, Lapse(pr),
           ~ \E p \in ProbeId : DeleteOnProbe(pr, p)
    PROVE  GoesOn(pr)
<1> USE GoroutineFacts DEF GoesOn, Working, Goroutine
<1>1. CASE StartFails(pr)
  BY <1>1 DEF StartFails
<1>2. ASSUME NEW u \in cyc[pr].upd, UpdateUnanswered(pr, u) PROVE GoesOn(pr)
  BY <1>2 DEF UpdateUnanswered, Updating
<1>3. ASSUME NEW parent \in cyc[pr].asked, CreateUnanswered(pr, parent) PROVE GoesOn(pr)
  BY <1>3 DEF CreateUnanswered, CreateGivenUp, Awaiting, Creating
<1>4. ASSUME NEW d \in cyc[pr].del, DeleteFails(pr, d) PROVE GoesOn(pr)
  BY <1>4 DEF DeleteFails, Deleting
<1>5. CASE VerifyFails(pr) \/ Disconnect(pr) \/ DeadlineExceeded(pr)
  BY <1>5, EndsGoesOn DEF VerifyFails, Disconnect, DeadlineExceeded
<1> QED BY <1>1, <1>2, <1>3, <1>4, <1>5 DEF Lapse

LEMMA StartProbeMeant ==
    ASSUME IInv, MeantInv, NEW pr \in Probe, StartProbe(pr), Local(pr)
    PROVE  MeantInv'
<1>1. cyc'[pr].pc = "plan" /\ cyc'[pr].wanted = FilterMonitorsForProbe(pr)
  BY GoroutineFacts DEF StartProbe, Asleep
<1>2. MeantFor(pr) \subseteq FilterMonitorsForProbe(pr)
  <2>1. CASE Probe = {pr}
    <3>1. [m \in Fetched |-> snap[m].parent] = WalkedParent
      BY <2>1 DEF MeantInv, Unwritten, WalkedParent, StartProbe
    <3> QED BY <3>1 DEF MeantFor, FilterMonitorsForProbe, Fetched
  <2>2. CASE Probe # {pr}
    BY <2>2 DEF MeantFor, FilterMonitorsForProbe, Fetched
  <2> QED BY <2>1, <2>2
<1>3. MeantFor(pr)' = MeantFor(pr)
  BY DEF MeantFor, Fetched, Below, Children, Local
<1> QED BY <1>1, <1>2, <1>3, MeantStays DEF Unwritten, WantsMeant

LEMMA SameObjectsMeant ==
    ASSUME MeantInv, UNCHANGED <<snap, obj, cyc>>
    PROVE  MeantInv'
<1>1. \A q \in Probe : MeantFor(q)' = MeantFor(q)
  BY DEF MeantFor, Fetched, Below, Children
<1> QED BY <1>1 DEF MeantInv, Unwritten, WantsMeant, Fetched

LEMMA CycleMeant ==
    ASSUME IInv, FetchMasters \/ EndCycle \/ Crash \/ Shutdown \/ \E pr \in Probe : CrashWhileSaving(pr)
    PROVE  MeantInv'
<1>1. CASE FetchMasters
  <2>1. \A pr \in Probe : cyc'[pr].pc = "waiting"
    BY <1>1 DEF FetchMasters, Asleep
  <2>2. \A m \in Fetched' : obj'[m].parent = snap'[m].parent
    BY <1>1 DEF FetchMasters, Fetched
  <2> QED BY <2>1, <2>2 DEF MeantInv, Unwritten, WantsMeant, Working
<1>2. CASE ~FetchMasters
  <2>1. \A pr \in Probe : cyc'[pr].pc = "idle"
    BY <1>2 DEF EndCycle, Crash, Shutdown, CrashWhileSaving, Restart, Asleep
  <2> QED BY <2>1 DEF MeantInv, Unwritten, WantsMeant, Working
<1> QED BY <1>1, <1>2

LEMMA NextMeant ==
    ASSUME IInv, MeantInv, [Next]_vars
    PROVE  MeantInv'
<1>1. ASSUME NEW pr \in Probe, Sync(pr) PROVE MeantInv'
  <2>1. Local(pr)
    BY <1>1, SyncIsLocal
  <2>2. CASE StartProbe(pr)
    BY <2>1, <2>2, StartProbeMeant
  <2>3. CASE SaveMapping(pr)
    BY <2>1, <2>3, EndsGoesOn, GoesOnMeant DEF SaveMapping
  <2> QED BY <1>1, <2>1, <2>2, <2>3, PlanGoesOn, ExecuteGoesOn, GoesOnMeant DEF Sync
<1>2. ASSUME NEW pr \in Probe, NEW p \in ProbeId, DeleteOnProbe(pr, p) PROVE MeantInv'
  BY <1>2, SameObjectsMeant DEF DeleteOnProbe
<1>3. ASSUME NEW pr \in Probe, Failure(pr) PROVE MeantInv'
  <2>1. CASE CrashWhileSaving(pr)
    BY <2>1, CycleMeant
  <2>2. CASE Lapse(pr)
    BY <1>2, <2>2, LapseIsLocal, LapseGoesOn, GoesOnMeant
  <2> QED BY <1>3, <2>1, <2>2 DEF Failure, Lapse
<1>4. CASE Operator \/ UNCHANGED vars
  BY <1>4, SameObjectsMeant DEF Operator, SaveMonitor, DeleteOnMaster, vars
<1> QED BY <1>1, <1>3, <1>4, CycleMeant DEF Next

\* Phase 3 of ExecuteSyncPlan deletes no row that carries the name of a
\* monitor the master means the probe to run, whatever happened to the
\* mapping before ("Heartbeat history is preserved", iris-sync/README.md:109).
\* Of several probes that share the objects, this holds of what the filters
\* select, and not of the groups above it (MeantFor).
THEOREM DeletesUnwanted == ASSUME NamesApart PROVE Spec => DeletesOnlyUnwanted
<1> DEFINE Harmless == \A pr \in Probe : \A d \in cyc[pr].del : DeleteOk(pr, d) =>
              \A m \in MeantFor(pr) :
                 probe[pr][d.p] # NoMonitor => probe[pr][d.p].name # snap[m].name
<1>1. Init => IInv /\ OwnInv /\ MeantInv
  <2>1. Init => MeantInv
    BY DEF Init, Asleep, MeantInv, Unwritten, WantsMeant, Working
  <2> QED BY <2>1, InitIInv, InitOwn
<1>2. IInv /\ OwnInv /\ MeantInv /\ [Next]_vars => IInv' /\ OwnInv' /\ MeantInv'
  BY NextIInv, NextOwn, NextMeant
<1>3. IInv /\ OwnInv /\ MeantInv => Harmless
  <2> SUFFICES ASSUME IInv, OwnInv, MeantInv, NEW pr \in Probe, NEW d \in cyc[pr].del,
                      cyc[pr].pc = "rest", NEW m \in MeantFor(pr), probe[pr][d.p] # NoMonitor
               PROVE  probe[pr][d.p].name # snap[m].name
    BY DEF DeleteOk, Deleting
  <2>1. m \in cyc[pr].wanted
    BY DEF MeantInv, WantsMeant, Working
  <2>2. probe[pr][d.p].name \in Names(d.m) /\ d.m # m
    BY <2>1 DEF OwnInv, OwnAt, PlansOwn, Owns
  <2>3. m \in Fetched /\ m \in MasterId /\ d.m \in MasterId
    BY <2>1, GoroutineFacts DEF WithinFetched, Goroutine, Delete
  <2> QED BY <2>2, <2>3, NameOf DEF NamesApart
<1>4. IInv /\ OwnInv /\ MeantInv /\ [Next]_vars => [Harmless]_vars
  BY <1>3
<1> QED BY <1>1, <1>2, <1>4, PTL DEF Spec, DeletesOnlyUnwanted

-----------------------------------------------------------------------------
(* A cached hash tells the truth about the row it vouches for.             *)

\* Every stored edit is answered, and the process lives on.
NothingLost == {"lostAck", "crash", "tornSave"} \cap Fault = {}

SameSettings(x, y) == x.name = y.name /\ x.ver = y.ver

\* A hash in a shared object is that of the row the cycle has read.
Stamped == \A m \in MasterId : obj[m].hash # NoHash => SameSettings(obj[m].hash, snap[m])

\* A planned update carries that hash too, and the monitor stays mapped to
\* the row it is for: nobody steals the row before the update is sent.
PlansHashed(pr) ==
    /\ \A u \in cyc[pr].upd : /\ SameSettings(u.hash, snap[u.m])
                              /\ mem[pr].m2p[u.m] = u.p /\ u.m \notin cyc[pr].todo
    /\ cyc[pr].pc = "rest" => cyc[pr].upd = {}

HashTrue(pr, m) ==
    mem[pr].m2p[m] \in Rows(pr) /\ mem[pr].hash[m] # NoHash =>
        SameSettings(probe[pr][mem[pr].m2p[m]], mem[pr].hash[m])

HashAt(pr) == PlansHashed(pr) /\ \A m \in MasterId : HashTrue(pr, m)

HashInv == Stamped /\ \A pr \in Probe : HashAt(pr)

-----------------------------------------------------------------------------

\* What the operations of a mapping do to its hashes.
LEMMA HashEntries ==
    ASSUME NEW map \in Mapping, NEW m \in MasterId
    PROVE  /\ \A p \in ProbeId, x \in MasterId :
                 SetMapping(map, m, p).hash[x] \in {map.hash[x], NoHash}
           /\ \A x \in MasterId : RemoveByMasterID(map, m).hash[x] \in {map.hash[x], NoHash}
           /\ \A h : /\ SetHash(map, m, h).hash[m] = h
                     /\ \A x \in MasterId : x # m => SetHash(map, m, h).hash[x] = map.hash[x]
BY DEF SetMapping, RemoveByMasterID, SetHash, Mapping

\* The other probes are untouched.
LEMMA OthersHashed ==
    ASSUME HashInv, NEW pr \in Probe, Local(pr), HashAt(pr)', Stamped'
    PROVE  HashInv'
<1>1. ASSUME NEW q \in Probe, q # pr PROVE HashAt(q)'
  BY <1>1 DEF HashInv, Local, Elsewhere, HashAt, PlansHashed, HashTrue, Rows
<1> QED BY <1>1 DEF HashInv

\* A table whose rows vanish or keep what is hashed of them.
RowsStay(pr) ==
    \A p \in ProbeId : probe'[pr][p] # NoMonitor =>
        probe[pr][p] # NoMonitor /\ SameSettings(probe'[pr][p], probe[pr][p])

LEMMA DeletedRows ==
    ASSUME IInv, NEW pr \in Probe, NEW p, probe' = [probe EXCEPT ![pr] = Without(@, p)]
    PROVE  RowsStay(pr)
<1>1. probe[pr] \in TableType /\ probe \in [Probe -> TableType]
  BY DEF IInv, TypeOK
<1>2. probe'[pr] = Without(probe[pr], p)
  BY <1>1
<1>3. ASSUME NEW q \in ProbeId, Without(probe[pr], p)[q] # NoMonitor
      PROVE  probe[pr][q] # NoMonitor /\ SameSettings(Without(probe[pr], p)[q], probe[pr][q])
  BY <1>1, <1>3 DEF Without, TableType, ProbeMonitor, SameSettings
<1> QED BY <1>2, <1>3 DEF RowsStay

\* Hashes stay true while rows stay and entries are only forgotten.
LEMMA HashTrueStays ==
    ASSUME NEW pr \in Probe, NEW m \in MasterId, HashTrue(pr, m), RowsStay(pr),
           \/ mem'[pr].m2p[m] = NoId \/ mem'[pr].hash[m] = NoHash
           \/ mem'[pr].m2p[m] = mem[pr].m2p[m] /\ mem'[pr].hash[m] = mem[pr].hash[m]
    PROVE  HashTrue(pr, m)'
BY IdAssumption DEF HashTrue, RowsStay, Rows, SameSettings

\* A step that plans no update and writes no row.
LEMMA QuietHashed ==
    ASSUME HashInv, NEW pr \in Probe, Local(pr), RowsStay(pr), Stamped',
           cyc'[pr].upd \subseteq cyc[pr].upd, cyc'[pr].todo \subseteq cyc[pr].todo,
           cyc'[pr].pc = "rest" => cyc[pr].pc = "rest" \/ cyc'[pr].upd = {},
           \A u \in cyc'[pr].upd : mem'[pr].m2p[u.m] = mem[pr].m2p[u.m],
           \A m \in MasterId :
              \/ mem'[pr].m2p[m] = NoId \/ mem'[pr].hash[m] = NoHash
              \/ mem'[pr].m2p[m] = mem[pr].m2p[m] /\ mem'[pr].hash[m] = mem[pr].hash[m]
    PROVE  HashInv'
<1>1. PlansHashed(pr)'
  BY DEF HashInv, HashAt, PlansHashed, Local
<1>2. ASSUME NEW m \in MasterId PROVE HashTrue(pr, m)'
  BY HashTrueStays DEF HashInv, HashAt
<1> QED BY <1>1, <1>2, OthersHashed DEF HashAt

LEMMA StampedByPlan ==
    ASSUME IInv, HashInv, NEW m \in MasterId, StampHash(m), snap' = snap
    PROVE  Stamped' /\ SameSettings(ComputeHash(m), snap[m])
<1>1. SameSettings(ComputeHash(m), snap[m])
  BY DEF SameSettings, ComputeHash
<1>2. ASSUME NEW x \in MasterId
      PROVE  obj'[x].hash = IF x = m THEN ComputeHash(m) ELSE obj[x].hash
  BY DEF StampHash, IInv, TypeOK, ObjectType
<1> QED BY <1>1, <1>2 DEF HashInv, Stamped

LEMMA StampedByCreate ==
    ASSUME IInv, HashInv, NEW pr \in Probe, NEW m \in MasterId, WriteShared(pr, m),
           snap' = snap
    PROVE  Stamped'
<1>1. ASSUME NEW x \in MasterId
      PROVE  obj'[x].hash \in {NoHash, obj[x].hash}
  BY DEF WriteShared, IInv, TypeOK, ObjectType
<1> QED BY <1>1 DEF HashInv, Stamped

\* With the names of monitors apart, an adoption takes no row from anybody.
LEMMA AdoptStealsNothing ==
    ASSUME NamesApart, IInv, OwnInv, NEW pr \in Probe, NEW m \in MasterId,
           PlanAdopt(pr, m)
    PROVE  LET p == Adoptable(pr, m)
           IN  /\ p \in ProbeId
               /\ mem'[pr].m2p[m] = p /\ mem'[pr].hash[m] = NoHash
               /\ \A x \in MasterId : x # m => /\ mem'[pr].m2p[x] = mem[pr].m2p[x]
                                              /\ mem'[pr].hash[x] = mem[pr].hash[x]
<1> DEFINE n == snap[m].name
           p == cyc[pr].byName[n]
           map == SetMapping(mem[pr], m, p)
<1>1. /\ Planning(pr, m) /\ p # NoId /\ mem[pr].m2p[m] = NoId
      /\ mem' = [mem EXCEPT ![pr] = SetHash(map, m, NoHash)]
  BY DEF PlanAdopt, Adoptable
<1>2. p \in ProbeId /\ m \in Fetched /\ n \in Name /\ n \in Names(m)
  BY <1>1, PlanningFacts, NameOf
<1>3. Indexed(pr, n, p)
  BY <1>1, <1>2 DEF OwnInv, OwnAt, IndexOwn, Planning
<1>4. \A x \in MasterId : mem[pr].m2p[x] # p
  BY <1>1, <1>2, <1>3 DEF Indexed, NamesApart
<1>5. mem[pr].p2m[p] = NoId
  BY <1>2, <1>4, GoroutineFacts DEF Agree, Mapping
<1>6. /\ map.m2p[m] = p
      /\ \A x \in MasterId : x # m => map.m2p[x] = mem[pr].m2p[x] /\ map.hash[x] = mem[pr].hash[x]
  BY <1>2, <1>5, IdAssumption DEF SetMapping
<1>7. map \in Mapping
  BY <1>2, GoroutineFacts, SetMappingType
<1>8. mem'[pr] = SetHash(map, m, NoHash)
  BY <1>1 DEF IInv, TypeOK
<1> HIDE DEF map
<1> QED BY <1>2, <1>6, <1>7, <1>8, Entries, HashEntries DEF Adoptable

LEMMA PlanHashed ==
    ASSUME NamesApart, IInv, OwnInv, HashInv, NEW pr \in Probe, NEW m \in MasterId,
           \/ PlanAdopt(pr, m) \/ PlanCreate(pr, m) \/ PlanRecreate(pr, m)
           \/ PlanUpdate(pr, m) \/ PlanNothing(pr, m), Local(pr)
    PROVE  HashInv'
<1>0. /\ Planning(pr, m) /\ StampHash(m) /\ probe' = probe /\ snap' = snap
      /\ m \in cyc[pr].todo /\ cyc[pr].pc = "plan"
  BY DEF PlanAdopt, PlanCreate, PlanRecreate, PlanUpdate, PlanNothing, Planning
<1>1. Stamped' /\ SameSettings(ComputeHash(m), snap[m]) /\ RowsStay(pr)
  BY <1>0, StampedByPlan DEF RowsStay, SameSettings
<1>2. \A u \in cyc[pr].upd : u.m \in MasterId /\ u.m # m
  BY <1>0, GoroutineFacts DEF HashInv, HashAt, PlansHashed, Goroutine, Update
<1>3. CASE PlanCreate(pr, m) \/ PlanNothing(pr, m)
  <2>1. /\ cyc'[pr].upd = cyc[pr].upd /\ cyc'[pr].todo \subseteq cyc[pr].todo
        /\ cyc'[pr].pc = "plan" /\ mem' = mem
    BY <1>0, <1>3, GoroutineFacts DEF PlanCreate, PlanNothing, Goroutine
  <2> QED BY <1>1, <2>1, QuietHashed
<1>4. CASE PlanRecreate(pr, m)
  <2>1. /\ cyc'[pr].upd = cyc[pr].upd /\ cyc'[pr].todo \subseteq cyc[pr].todo
        /\ cyc'[pr].pc = "plan"
    BY <1>0, <1>4, GoroutineFacts DEF PlanRecreate, Goroutine
  <2>2. mem'[pr] = RemoveByMasterID(mem[pr], m)
    BY <1>4 DEF PlanRecreate, IInv, TypeOK
  <2>3. \A x \in MasterId :
           /\ x # m => mem'[pr].m2p[x] = mem[pr].m2p[x]
           /\ x = m => mem'[pr].m2p[x] = NoId
           /\ mem'[pr].hash[x] \in {mem[pr].hash[x], NoHash}
    BY <2>2, GoroutineFacts, Entries, HashEntries
  <2> QED BY <1>1, <1>2, <2>1, <2>3, QuietHashed
<1>5. ASSUME NEW p \in ProbeId, mem'[pr].m2p[m] = p,
             \/ mem'[pr].hash[m] = NoHash
             \/ mem'[pr].hash[m] = mem[pr].hash[m] /\ mem[pr].m2p[m] = p,
             \A x \in MasterId : x # m => /\ mem'[pr].m2p[x] = mem[pr].m2p[x]
                                          /\ mem'[pr].hash[x] = mem[pr].hash[x],
             cyc'[pr].upd = cyc[pr].upd \cup {PlannedUpdate(m, p)},
             cyc'[pr].todo = cyc[pr].todo \ {m}, cyc'[pr].pc = "plan"
      PROVE  HashInv'
  <2>0. PICK u : u = PlannedUpdate(m, p)
    OBVIOUS
  <2>1. u.m = m /\ u.p = p /\ u.hash = ComputeHash(m)
    BY <2>0 DEF PlannedUpdate
  <2>2. PlansHashed(pr)'
    BY <1>0, <1>1, <1>2, <1>5, <2>0, <2>1 DEF HashInv, HashAt, PlansHashed, SameSettings
  <2>3. ASSUME NEW x \in MasterId PROVE HashTrue(pr, x)'
    BY <1>1, <1>5, HashTrueStays DEF HashInv, HashAt
  <2> QED BY <1>1, <2>2, <2>3, OthersHashed DEF HashAt
<1>6. CASE PlanAdopt(pr, m)
  <2>1. /\ cyc'[pr].upd = cyc[pr].upd \cup {PlannedUpdate(m, Adoptable(pr, m))}
        /\ cyc'[pr].todo = cyc[pr].todo \ {m} /\ cyc'[pr].pc = "plan"
    BY <1>0, <1>6, GoroutineFacts DEF PlanAdopt, Goroutine
  <2> QED BY <1>5, <1>6, <2>1, AdoptStealsNothing
<1>7. CASE PlanUpdate(pr, m)
  <2>1. /\ cyc'[pr].upd = cyc[pr].upd \cup {PlannedUpdate(m, mem[pr].m2p[m])}
        /\ cyc'[pr].todo = cyc[pr].todo \ {m} /\ cyc'[pr].pc = "plan" /\ mem' = mem
    BY <1>0, <1>7, GoroutineFacts DEF PlanUpdate, Goroutine
  <2>2. mem[pr].m2p[m] \in ProbeId
    BY <1>7, GoroutineFacts DEF PlanUpdate, Goroutine
  <2> QED BY <1>5, <2>1, <2>2
<1> QED BY <1>3, <1>4, <1>6, <1>7

\* A goroutine without plans, when no row is written.
LEMMA EndsHashed ==
    ASSUME IInv, HashInv, NEW pr \in Probe, Local(pr), UNCHANGED probe, Stamped',
           cyc'[pr].upd = {}, cyc'[pr].todo = {} \/ cyc'[pr].pc = "plan",
           \A m \in MasterId :
              /\ mem'[pr].m2p[m] = mem[pr].m2p[m]
              /\ mem'[pr].hash[m] \in {mem[pr].hash[m], NoHash}
    PROVE  HashInv'
<1>1. RowsStay(pr)
  BY DEF RowsStay, SameSettings
<1>2. PlansHashed(pr)'
  BY DEF PlansHashed
<1>3. ASSUME NEW m \in MasterId PROVE HashTrue(pr, m)'
  BY <1>1, HashTrueStays DEF HashInv, HashAt
<1> QED BY <1>1, <1>2, <1>3, OthersHashed DEF HashAt

LEMMA GoroutineEndsHashed ==
    ASSUME IInv, HashInv, NEW pr \in Probe, Local(pr),
           \/ VerifyParentDrift(pr) \/ VerifyFails(pr) \/ Disconnect(pr)
           \/ DeadlineExceeded(pr) \/ SaveMapping(pr)
    PROVE  HashInv'
<1>1. PICK pc : Ends(pr, pc)
  BY DEF VerifyParentDrift, VerifyFails, Disconnect, DeadlineExceeded, SaveMapping
<1>2. cyc'[pr].upd = {} /\ cyc'[pr].todo = {}
  BY <1>1, GoroutineFacts DEF Ends, Asleep
<1>3. ASSUME NEW m \in MasterId
      PROVE  /\ mem'[pr].m2p[m] = mem[pr].m2p[m]
             /\ mem'[pr].hash[m] \in {mem[pr].hash[m], NoHash}
  <2>1. mem \in [Probe -> Mapping]
    BY DEF IInv, TypeOK
  <2> QED
    BY <2>1 DEF VerifyParentDrift, VerifyFails, Disconnect, DeadlineExceeded, SaveMapping, Mapping
<1>4. probe' = probe
  BY DEF VerifyParentDrift, VerifyFails, Disconnect, DeadlineExceeded, SaveMapping
<1>5. Stamped'
  <2>1. CASE obj' = obj
    BY <2>1 DEF HashInv, Stamped, Local
  <2>2. CASE Disconnect(pr) /\ obj' # obj
    <3>1. PICK m \in MasterId : WriteShared(pr, m)
      BY <2>2, DisconnectShares
    <3> QED BY <3>1, StampedByCreate DEF Local
  <2> QED BY <2>1, <2>2 DEF VerifyParentDrift, VerifyFails, DeadlineExceeded, SaveMapping
<1> QED BY <1>2, <1>3, <1>4, <1>5, EndsHashed

LEMMA StartProbeHashed ==
    ASSUME IInv, HashInv, NEW pr \in Probe, StartProbe(pr), Local(pr)
    PROVE  HashInv'
<1> DEFINE listed == {p \in ProbeId : probe[pr][p] # NoMonitor}
           wanted == FilterMonitorsForProbe(pr)
<1>1. PICK index \in [Name -> listed \cup {NoId}] :
        cyc' = [cyc EXCEPT ![pr] =
                  [Asleep("plan") EXCEPT !.wanted = wanted, !.todo = wanted,
                                         !.listed = listed, !.byName = index]]
  BY DEF StartProbe
<1>2. cyc'[pr].upd = {} /\ cyc'[pr].pc = "plan"
  BY <1>1, GoroutineFacts DEF Asleep
<1>3. UNCHANGED <<probe, obj, mem>>
  BY DEF StartProbe
<1>4. Stamped'
  BY <1>3 DEF HashInv, Stamped, Local
<1> QED BY <1>2, <1>3, <1>4, EndsHashed

\* The steps of an execution that write neither row nor mapping.
LEMMA IdleStepHashed ==
    ASSUME IInv, HashInv, NEW pr \in Probe, Local(pr),
           \/ PlanOrphans(pr)
           \/ \E u \in cyc[pr].upd : UpdateRefused(pr, u)
           \/ SortCreates(pr) \/ CreateSkipped(pr) \/ SendCreate(pr)
           \/ \E parent \in cyc[pr].asked : CreateRefused(pr, parent)
           \/ StartFails(pr)
    PROVE  HashInv'
<1>1. UNCHANGED <<probe, mem, snap>>
  BY DEF PlanOrphans, UpdateRefused, SortCreates, CreateSkipped, SendCreate,
     CreateRefused, StartFails
<1>2. Stamped'
  <2>1. CASE SendCreate(pr)
    BY <1>1, <2>1, CreatingFacts, StampedByCreate DEF SendCreate
  <2>2. CASE obj' = obj
    BY <1>1, <2>2 DEF HashInv, Stamped
  <2> QED BY <2>1, <2>2 DEF PlanOrphans, UpdateRefused, SortCreates, CreateSkipped,
       CreateRefused, StartFails
<1>3. /\ cyc'[pr].upd \subseteq cyc[pr].upd /\ cyc'[pr].todo = cyc[pr].todo
      /\ cyc'[pr].pc = "rest" => cyc[pr].pc = "rest" \/ cyc'[pr].upd = {}
  <2>1. CASE PlanOrphans(pr)
    BY <2>1, GoroutineFacts DEF PlanOrphans, Goroutine
  <2>2. CASE \E u \in cyc[pr].upd : UpdateRefused(pr, u)
    BY <2>2, GoroutineFacts DEF UpdateRefused, Goroutine, Updating
  <2>3. CASE SortCreates(pr)
    <3>1. PICK order :
            cyc' = [cyc EXCEPT ![pr].pc = "rest", ![pr].queue = order, ![pr].new = {}]
      BY <2>3 DEF SortCreates
    <3> QED BY <2>3, <3>1, GoroutineFacts DEF Goroutine, SortCreates
  <2>4. CASE CreateSkipped(pr)
    BY <2>4, GoroutineFacts DEF CreateSkipped, Creating, Goroutine
  <2>6. CASE SendCreate(pr)
    <3>1. PICK A : cyc' = [cyc EXCEPT ![pr].asked = A]
      BY <2>6 DEF SendCreate
    <3> QED BY <2>6, <3>1, GoroutineFacts DEF SendCreate, Creating, Goroutine
  <2>7. CASE \E parent \in cyc[pr].asked : CreateRefused(pr, parent)
    BY <2>7, GoroutineFacts DEF CreateRefused, CreateGivenUp, Awaiting, Creating, Goroutine
  <2>5. CASE StartFails(pr)
    BY <2>5, GoroutineFacts DEF StartFails, Goroutine
  <2> QED BY <2>1, <2>2, <2>3, <2>4, <2>5, <2>6, <2>7
<1>4. RowsStay(pr)
  BY <1>1 DEF RowsStay, SameSettings
<1> QED BY <1>1, <1>2, <1>3, <1>4, QuietHashed

\* An update that is answered leaves the row and its hash the same.
LEMMA UpdateHashed ==
    ASSUME IInv, HashInv, NEW pr \in Probe, Local(pr), NEW u \in cyc[pr].upd, UpdateOk(pr, u)
    PROVE  HashInv'
<1> DEFINE row == Payload(u.m, UpdateParent(pr, u))
<1>1. PICK h \in {NoHash, u.hash} :
        /\ Updating(pr, u) /\ UNCHANGED <<obj, snap>>
        /\ probe' = [probe EXCEPT ![pr][u.p] = row]
        /\ mem' = [mem EXCEPT ![pr] = SetHash(mem[pr], u.m, h)]
        /\ cyc' = [cyc EXCEPT ![pr].upd = @ \ {u}, ![pr].did = TRUE]
  BY DEF UpdateOk
<1>2. u.m \in MasterId /\ u.p \in ProbeId
  BY <1>1, UpdatingFacts, GoroutineFacts DEF Goroutine, Update
<1>3. /\ SameSettings(u.hash, snap[u.m]) /\ mem[pr].m2p[u.m] = u.p
      /\ SameSettings(row, snap[u.m])
  BY DEF HashInv, HashAt, PlansHashed, Payload, SameSettings
<1>4. /\ cyc'[pr].upd \subseteq cyc[pr].upd /\ cyc'[pr].todo = cyc[pr].todo
      /\ cyc'[pr].pc = "updates"
  BY <1>1, GoroutineFacts DEF Goroutine, Updating
<1>5. /\ mem'[pr].m2p = mem[pr].m2p /\ mem'[pr].hash[u.m] = h
      /\ \A x \in MasterId : x # u.m => mem'[pr].hash[x] = mem[pr].hash[x]
  <2>1. mem'[pr] = SetHash(mem[pr], u.m, h)
    BY <1>1 DEF IInv, TypeOK
  <2> QED BY <1>2, <2>1, GoroutineFacts, Entries, HashEntries
<1> HIDE DEF row
<1>6. \A p \in ProbeId : probe'[pr][p] = IF p = u.p THEN row ELSE probe[pr][p]
  BY <1>1, <1>2 DEF IInv, TypeOK, TableType
<1>7. ASSUME NEW x \in MasterId PROVE HashTrue(pr, x)'
  <2>1. CASE x = u.m
    BY <1>1, <1>2, <1>3, <1>5, <1>6, <2>1 DEF HashTrue, SameSettings
  <2>2. CASE x # u.m
    <3>1. mem[pr].m2p[x] = u.p => FALSE
      BY <1>2, <1>3, <2>2, GoroutineFacts, IdAssumption DEF Agree
    <3>2. HashTrue(pr, x)
      BY DEF HashInv, HashAt
    <3> QED
      BY <1>5, <1>6, <2>2, <3>1, <3>2 DEF HashTrue, Rows
  <2> QED BY <2>1, <2>2
<1>8. PlansHashed(pr)'
  <2>1. PlansHashed(pr)
    BY DEF HashInv, HashAt
  <2> QED BY <1>1, <1>4, <1>5, <2>1 DEF PlansHashed
<1>9. Stamped'
  BY <1>1 DEF HashInv, Stamped
<1> QED BY <1>7, <1>8, <1>9, OthersHashed DEF HashAt

\* A create maps the monitor to a row nobody else is mapped to.
LEMMA CreateHashed ==
    ASSUME IInv, OwnInv, HashInv, NEW pr \in Probe, Local(pr),
           NEW parent \in cyc[pr].asked, CreateOk(pr, parent)
    PROVE  HashInv'
<1>0. PICK m, p, h : m = NextCreate(pr) /\ p = nextId[pr] /\ h = obj[NextCreate(pr)].hash
  OBVIOUS
<1> DEFINE row == Payload(m, parent)
           map == SetMapping(mem[pr], m, p)
<1>1. /\ Creating(pr) /\ p \in ProbeId /\ snap' = snap /\ obj' = obj
      /\ probe' = [probe EXCEPT ![pr][p] = row]
      /\ mem' = [mem EXCEPT ![pr] = SetHash(map, m, h)]
      /\ cyc' = [cyc EXCEPT ![pr].queue = Tail(@), ![pr].asked = {}, ![pr].did = TRUE]
  BY <1>0 DEF CreateOk, AddedTable, Awaiting
<1>2. m \in MasterId
  BY <1>0, <1>1, CreatingFacts
<1>3. SameSettings(row, snap[m])
  BY DEF Payload, SameSettings
<1>4. Stamped'
  BY <1>1 DEF HashInv, Stamped
<1>5. h # NoHash => SameSettings(h, snap[m])
  BY <1>0, <1>2 DEF HashInv, Stamped
<1>6. cyc'[pr].upd = {}
  BY <1>1, GoroutineFacts DEF Goroutine, Creating, HashInv, HashAt, PlansHashed
<1>7. map \in Mapping
  BY <1>1, <1>2, GoroutineFacts, SetMappingType
<1>8. /\ mem'[pr].m2p[m] = p /\ mem'[pr].hash[m] = h
      /\ \A x \in MasterId : x # m => /\ mem'[pr].m2p[x] \in {mem[pr].m2p[x], NoId}
                                      /\ mem'[pr].hash[x] \in {mem[pr].hash[x], NoHash}
  <2>1. mem'[pr] = SetHash(map, m, h) /\ mem[pr] \in Mapping
    BY <1>1 DEF IInv, TypeOK
  <2>2. \A x \in MasterId : /\ x = m => map.m2p[x] = p
                            /\ x # m => map.m2p[x] \in {mem[pr].m2p[x], NoId}
                            /\ map.hash[x] \in {mem[pr].hash[x], NoHash}
    BY <1>1, <1>2, <2>1, Entries, HashEntries
  <2> HIDE DEF map
  <2> QED BY <1>2, <1>7, <2>1, <2>2, Entries, HashEntries
<1> HIDE DEF row, map
<1>9. \A q \in ProbeId : probe'[pr][q] = IF q = p THEN row ELSE probe[pr][q]
  BY <1>1 DEF IInv, TypeOK, TableType
<1>10. ASSUME NEW x \in MasterId PROVE HashTrue(pr, x)'
  <2>1. CASE x = m
    BY <1>1, <1>3, <1>5, <1>8, <1>9, <2>1 DEF HashTrue, SameSettings
  <2>2. CASE x # m
    <3>1. mem[pr].m2p[x] # NoId => mem[pr].m2p[x] < nextId[pr]
      BY DEF OwnInv, OwnAt, EntriesOwn, Owns
    <3>2. mem[pr].m2p[x] # NoId => mem[pr].m2p[x] # p
      BY <1>0, <1>1, <3>1, ReconcilerAssumption DEF IInv, TypeOK
    <3>3. HashTrue(pr, x)
      BY DEF HashInv, HashAt
    <3>4. mem'[pr].m2p[x] \in Rows(pr)' => mem[pr].m2p[x] \in Rows(pr)
      BY <1>8, <1>9, <2>2, <3>2, IdAssumption DEF Rows
    <3> QED
      BY <1>8, <1>9, <2>2, <3>2, <3>3, <3>4, IdAssumption DEF HashTrue, Rows, SameSettings
  <2> QED BY <2>1, <2>2
<1>11. PlansHashed(pr)'
  BY <1>6 DEF PlansHashed
<1> QED BY <1>4, <1>10, <1>11, OthersHashed DEF HashAt

LEMMA DeleteHashed ==
    ASSUME IInv, HashInv, NEW pr \in Probe, Local(pr),
           NEW d \in cyc[pr].del, DeleteOk(pr, d) \/ DeleteFails(pr, d)
    PROVE  HashInv'
<1>1. Deleting(pr, d) /\ UNCHANGED <<obj, snap>> /\ cyc' = [cyc EXCEPT ![pr].del = @ \ {d}]
  BY DEF DeleteOk, DeleteFails
<1>2. RowsStay(pr)
  <2>1. CASE probe' = probe
    BY <2>1 DEF RowsStay, SameSettings
  <2>2. CASE probe' = [probe EXCEPT ![pr] = Without(@, d.p)]
    BY <2>2, DeletedRows
  <2> QED BY <2>1, <2>2 DEF DeleteOk, DeleteFails
<1>3. d.m \in MasterId
  BY GoroutineFacts DEF Goroutine, Delete
<1>4. \A x \in MasterId :
         \/ mem'[pr].m2p[x] = NoId \/ mem'[pr].hash[x] = NoHash
         \/ mem'[pr].m2p[x] = mem[pr].m2p[x] /\ mem'[pr].hash[x] = mem[pr].hash[x]
  <2>1. CASE mem' = mem
    BY <2>1
  <2>2. CASE mem' = [mem EXCEPT ![pr] = RemoveByMasterID(@, d.m)]
    <3>1. mem'[pr] = RemoveByMasterID(mem[pr], d.m)
      BY <2>2 DEF IInv, TypeOK
    <3> QED BY <1>3, <3>1, GoroutineFacts, Entries, HashEntries
  <2> QED BY <2>1, <2>2 DEF DeleteOk, DeleteFails
<1>5. cyc'[pr].upd = {} /\ cyc'[pr].todo = cyc[pr].todo
  BY <1>1, GoroutineFacts DEF Goroutine, Deleting, HashInv, HashAt, PlansHashed
<1>6. Stamped'
  BY <1>1 DEF HashInv, Stamped
<1> QED BY <1>2, <1>4, <1>5, <1>6, QuietHashed

LEMMA DeleteOnProbeHashed ==
    ASSUME IInv, HashInv, NEW pr \in Probe, Local(pr),
           NEW p \in ProbeId, DeleteOnProbe(pr, p)
    PROVE  HashInv'
<1>1. UNCHANGED <<mem, obj, snap, cyc>> /\ RowsStay(pr)
  BY DeletedRows DEF DeleteOnProbe
<1>2. Stamped'
  BY <1>1 DEF HashInv, Stamped
<1> QED BY <1>1, <1>2, QuietHashed

\* A step that leaves the rows and the mappings alone, when nothing is planned.
LEMMA ElsewhereHashed ==
    ASSUME HashInv, UNCHANGED <<probe, mem>>, Stamped',
           \/ UNCHANGED <<cyc, snap>>
           \/ \A pr \in Probe : cyc'[pr].upd = {}
    PROVE  HashInv'
<1>1. ASSUME NEW pr \in Probe PROVE HashAt(pr)'
  BY DEF HashInv, HashAt, HashTrue, PlansHashed, Rows
<1> QED BY <1>1 DEF HashInv

LEMMA CycleHashed ==
    ASSUME HashInv, FetchMasters \/ EndCycle \/ Operator \/ UNCHANGED vars
    PROVE  HashInv'
<1>1. UNCHANGED <<probe, mem>>
  BY DEF FetchMasters, EndCycle, Operator, SaveMonitor, DeleteOnMaster, vars
<1>2. CASE FetchMasters
  <2>1. Stamped'
    BY <1>2 DEF FetchMasters, Stamped
  <2>2. \A pr \in Probe : cyc'[pr].upd = {}
    BY <1>2 DEF FetchMasters, Asleep
  <2> QED BY <1>1, <2>1, <2>2, ElsewhereHashed
<1>3. CASE EndCycle
  <2>1. Stamped'
    BY <1>3 DEF EndCycle, Stamped, NoObjects
  <2>2. \A pr \in Probe : cyc'[pr].upd = {}
    BY <1>3 DEF EndCycle, Asleep
  <2> QED BY <1>1, <2>1, <2>2, ElsewhereHashed
<1>4. CASE Operator \/ UNCHANGED vars
  <2>1. UNCHANGED <<cyc, snap, obj>>
    BY <1>4 DEF Operator, SaveMonitor, DeleteOnMaster, vars
  <2>2. Stamped'
    BY <2>1 DEF HashInv, Stamped
  <2> QED BY <1>1, <2>1, <2>2, ElsewhereHashed
<1> QED BY <1>2, <1>3, <1>4

LEMMA InitHashed == Init => HashInv
<1> SUFFICES ASSUME Init PROVE HashInv
  OBVIOUS
<1>1. Stamped
  BY DEF Init, Stamped, NoObjects
<1>2. ASSUME NEW pr \in Probe PROVE HashAt(pr)
  BY DEF Init, HashAt, PlansHashed, HashTrue, Asleep, NewIDMapping
<1> QED BY <1>1, <1>2 DEF HashInv

LEMMA NextHashed ==
    ASSUME NamesApart, NothingLost, IInv, OwnInv, HashInv, [Next]_vars
    PROVE  HashInv'
<1>0. "lostAck" \notin Fault /\ "crash" \notin Fault /\ "tornSave" \notin Fault
  BY DEF NothingLost
<1>1. ASSUME NEW pr \in Probe, Sync(pr) PROVE HashInv'
  <2>1. Local(pr)
    BY <1>1, SyncIsLocal
  <2>2. CASE StartProbe(pr)
    BY <2>1, <2>2, StartProbeHashed
  <2>3. CASE Plan(pr)
    BY <2>1, <2>3, PlanHashed, IdleStepHashed DEF Plan
  <2>4. CASE Execute(pr)
    BY <2>1, <2>4, UpdateHashed, IdleStepHashed, CreateHashed, DeleteHashed,
       GoroutineEndsHashed DEF Execute
  <2>5. CASE SaveMapping(pr)
    BY <2>1, <2>5, GoroutineEndsHashed
  <2> QED BY <1>1, <2>2, <2>3, <2>4, <2>5 DEF Sync
<1>2. ASSUME NEW pr \in Probe, Lapse(pr) PROVE HashInv'
  <2>1. Local(pr)
    BY <1>2, LapseIsLocal
  <2>2. /\ \A parent \in cyc[pr].asked : ~CreateUnanswered(pr, parent)
        /\ \A u \in cyc[pr].upd : ~UpdateUnanswered(pr, u)
    BY <1>0 DEF CreateUnanswered, UpdateUnanswered, Fails
  <2> QED
    BY <1>2, <2>1, <2>2, IdleStepHashed, DeleteHashed, GoroutineEndsHashed,
       DeleteOnProbeHashed DEF Lapse
<1>3. ~Crash /\ ~Shutdown /\ \A pr \in Probe : ~CrashWhileSaving(pr)
  BY <1>0 DEF Crash, Shutdown, CrashWhileSaving, Fails
<1>4. ASSUME NEW pr \in Probe, Failure(pr) PROVE HashInv'
  BY <1>2, <1>3, <1>4 DEF Failure, Lapse
<1> QED BY <1>1, <1>3, <1>4, CycleHashed DEF Next

\* While the process lives and every stored edit is answered, the hash that
\* lets ComputeSyncPlan skip a monitor (reconciler.go:162) is the hash of
\* the name and the settings its row really has.
THEOREM HashesTellTheTruth ==
    ASSUME NamesApart, NothingLost
    PROVE  Spec => []HashMatchesRow
<1>1. Init => IInv /\ OwnInv /\ HashInv
  BY InitIInv, InitOwn, InitHashed
<1>2. IInv /\ OwnInv /\ HashInv /\ [Next]_vars => IInv' /\ OwnInv' /\ HashInv'
  BY NextIInv, NextOwn, NextHashed
<1>3. IInv /\ OwnInv /\ HashInv => HashMatchesRow
  BY DEF HashInv, HashAt, HashTrue, HashMatchesRow, SameSettings
<1> QED BY <1>1, <1>2, <1>3, PTL DEF Spec

-----------------------------------------------------------------------------
(* No monitor is created twice, as long as no row disappears whose monitor *)
(* is still wanted: nobody deletes rows on the probe, nothing is paused,   *)
(* and the filters select everything.                                      *)

RowsStayWanted ==
    /\ \A m \in MasterId : \A n, o \in Names(m) : n = o
    /\ \A m \in MasterId : \A c \in Choices[m] : c.active
    /\ \A m \in MasterId : InitMaster[m] # NoMonitor => InitMaster[m].active
    /\ \A pr \in Probe : Direct[pr] = MasterId
    /\ "probeDelete" \notin Fault

\* The master had m and has it no more: it will never have it again.  Nor
\* does the cycle that is running.
Dead(m) == m \in issued /\ master[m] = NoMonitor
Gone(m) == Dead(m) /\ snap[m] = NoMonitor

Live ==
    /\ \A m \in MasterId : master[m] # NoMonitor => master[m].active /\ m \in issued
    /\ \A m \in MasterId : snap[m] # NoMonitor => m \in issued

\* A row that a mapping names is there, unless its monitor is gone.
RowsMapped(pr, m2p) ==
    \A m \in MasterId : m2p[m] # NoId => m \in issued /\ (m2p[m] \in Rows(pr) \/ Gone(m))

NoRowOf(pr, m) == \A p \in Rows(pr) : probe[pr][p].name \notin Names(m)

Distinct(pr) == \A p, q \in Rows(pr) : probe[pr][p].name = probe[pr][q].name => p = q

\* During a cycle, what is mapped was read or is dead.
MappedRead(pr) ==
    cyc[pr].pc # "idle" =>
        \A m \in MasterId : mem[pr].m2p[m] # NoId => snap[m] # NoMonitor \/ Dead(m)

\* What a name without an entry in the index says.
IndexComplete(pr) ==
    cyc[pr].pc = "plan" =>
        /\ cyc[pr].wanted = Fetched
        /\ cyc[pr].listed = Rows(pr)
        /\ \A n \in Name : cyc[pr].byName[n] \in Rows(pr) \cup {NoId}
        /\ \A m \in cyc[pr].todo : cyc[pr].byName[snap[m].name] = NoId => NoRowOf(pr, m)

\* What is still to be created has no row, and is to be created once.
CreatesNew(pr) ==
    LET queue == cyc[pr].queue
    IN  /\ \A m \in cyc[pr].new : NoRowOf(pr, m)
        /\ \A i \in 1..Len(queue) : NoRowOf(pr, queue[i])
        /\ \A i, j \in 1..Len(queue) : queue[i] = queue[j] => i = j
        /\ cyc[pr].pc = "rest" => cyc[pr].new = {}

OnceAt(pr) ==
    /\ Distinct(pr)
    /\ RowsMapped(pr, mem[pr].m2p) /\ RowsMapped(pr, disk[pr].m2p)
    /\ MappedRead(pr) /\ IndexComplete(pr) /\ CreatesNew(pr)
    /\ \A d \in cyc[pr].del : Gone(d.m)

OnceInv == Live /\ \A pr \in Probe : OnceAt(pr)

-----------------------------------------------------------------------------

LEMMA LocalGone ==
    ASSUME NEW pr \in Probe, Local(pr)
    PROVE  /\ Fetched' = Fetched
           /\ \A m \in MasterId : (Dead(m)' <=> Dead(m)) /\ (Gone(m)' <=> Gone(m))
BY DEF Local, Fetched, Dead, Gone

LEMMA OthersOnce ==
    ASSUME OnceInv, NEW pr \in Probe, Local(pr), OnceAt(pr)'
    PROVE  OnceInv'
<1>1. ASSUME NEW q \in Probe, q # pr PROVE OnceAt(q)'
  <2>1. /\ probe'[q] = probe[q] /\ mem'[q] = mem[q] /\ disk'[q] = disk[q] /\ cyc'[q] = cyc[q]
    BY <1>1 DEF Local, Elsewhere
  <2>2. OnceAt(q)
    BY DEF OnceInv
  <2>3. Distinct(q)' /\ RowsMapped(q, mem[q].m2p)' /\ RowsMapped(q, disk[q].m2p)'
    BY <2>1, <2>2 DEF OnceAt, Distinct, RowsMapped, Rows, Gone, Dead, Local
  <2>4. MappedRead(q)' /\ IndexComplete(q)' /\ CreatesNew(q)'
    BY <2>1, <2>2 DEF OnceAt, MappedRead, IndexComplete, CreatesNew, NoRowOf, Rows, Dead,
       Fetched, Local
  <2>5. \A d \in cyc'[q].del : Gone(d.m)'
    BY <2>1, <2>2 DEF OnceAt, Gone, Dead, Local
  <2> QED BY <2>3, <2>4, <2>5 DEF OnceAt
<1>2. Live'
  BY DEF OnceInv, Live, Local
<1> QED BY <1>1, <1>2 DEF OnceInv

\* A table in which names stay, and rows vanish only whose monitor is gone.
RowsLast(pr) ==
    /\ NamesStay(pr)
    /\ \A m \in MasterId, p \in Rows(pr) : Owns(pr, p, m) => Gone(m) \/ p \in Rows(pr)'

LEMMA SameTableLasts ==
    ASSUME NEW pr \in Probe, probe' = probe, nextId' = nextId
    PROVE  RowsLast(pr)
BY SameTable DEF RowsLast, Rows

LEMMA TableOnce ==
    ASSUME IInv, OwnInv, NEW pr \in Probe, OnceAt(pr), Local(pr), RowsLast(pr)
    PROVE  /\ Distinct(pr)'
           /\ \A m \in MasterId : NoRowOf(pr, m) => NoRowOf(pr, m)'
<1>1. \A p \in Rows(pr)' : p \in Rows(pr) /\ probe'[pr][p].name = probe[pr][p].name
  BY DEF RowsLast, NamesStay, Rows
<1> QED BY <1>1 DEF OnceAt, Distinct, NoRowOf

\* Entries that were owned keep their rows.
LEMMA EntriesOnce ==
    ASSUME IInv, IInv', OwnInv, NEW pr \in Probe, OnceAt(pr), Local(pr), RowsLast(pr),
           \A m \in MasterId : mem'[pr].m2p[m] \in {mem[pr].m2p[m], disk[pr].m2p[m], NoId},
           \A m \in MasterId : disk'[pr].m2p[m] \in {mem[pr].m2p[m], disk[pr].m2p[m], NoId}
    PROVE  RowsMapped(pr, mem[pr].m2p)' /\ RowsMapped(pr, disk[pr].m2p)'
<1>1. ASSUME NEW m \in MasterId, NEW p \in {mem[pr].m2p[m], disk[pr].m2p[m]}, p # NoId
      PROVE  m \in issued' /\ (p \in Rows(pr)' \/ Gone(m)')
  <2>1. m \in issued /\ (p \in Rows(pr) \/ Gone(m)) /\ Owns(pr, p, m)
    BY <1>1 DEF OnceAt, RowsMapped, OwnInv, OwnAt, EntriesOwn
  <2> QED BY <2>1, LocalGone DEF RowsLast, Local
<1> QED BY <1>1 DEF RowsMapped

\* A step that neither creates nor plans.
LEMMA QuietOnce ==
    ASSUME IInv, IInv', OwnInv, OnceInv, NEW pr \in Probe, Local(pr), RowsLast(pr),
           \A m \in MasterId : mem'[pr].m2p[m] \in {mem[pr].m2p[m], NoId},
           \A m \in MasterId : disk'[pr].m2p[m] \in {mem[pr].m2p[m], disk[pr].m2p[m], NoId},
           cyc'[pr].pc # "idle" => cyc[pr].pc # "idle",
           IndexComplete(pr)', CreatesNew(pr)',
           cyc'[pr].del \subseteq cyc[pr].del
    PROVE  OnceInv'
<1>1. OnceAt(pr)
  BY DEF OnceInv
<1>2. Distinct(pr)' /\ RowsMapped(pr, mem[pr].m2p)' /\ RowsMapped(pr, disk[pr].m2p)'
  BY <1>1, TableOnce, EntriesOnce
<1>3. MappedRead(pr)'
  BY <1>1, LocalGone DEF OnceAt, MappedRead, Local
<1>4. \A d \in cyc'[pr].del : Gone(d.m)'
  BY <1>1, LocalGone, GoroutineFacts DEF OnceAt, Goroutine, Delete
<1>5. OnceAt(pr)'
  BY <1>2, <1>3, <1>4 DEF OnceAt
<1> QED BY <1>5, OthersOnce

\* The creates that are left, when there are no more than before.
LEMMA CreatesStay ==
    ASSUME IInv, OwnInv, OnceInv, NEW pr \in Probe, Local(pr), RowsLast(pr),
           cyc'[pr].new \subseteq cyc[pr].new,
           cyc'[pr].queue = << >> \/ cyc'[pr].queue = cyc[pr].queue,
           cyc'[pr].pc = "rest" => cyc[pr].pc = "rest" \/ cyc'[pr].new = {}
    PROVE  CreatesNew(pr)'
<1>1. OnceAt(pr)
  BY DEF OnceInv
<1>2. \A m \in MasterId : NoRowOf(pr, m) => NoRowOf(pr, m)'
  BY <1>1, TableOnce
<1>3. /\ cyc[pr].new \subseteq MasterId
      /\ \A i \in 1..Len(cyc[pr].queue) : cyc[pr].queue[i] \in MasterId
  BY GoroutineFacts DEF Goroutine
<1>4. CASE cyc'[pr].queue = << >>
  BY <1>1, <1>2, <1>3, <1>4 DEF OnceAt, CreatesNew
<1>5. CASE cyc'[pr].queue = cyc[pr].queue
  BY <1>1, <1>2, <1>3, <1>5 DEF OnceAt, CreatesNew
<1> QED BY <1>4, <1>5

\* A goroutine that has done its work.
LEMMA GoroutineEndsOnce ==
    ASSUME IInv, IInv', OwnInv, OnceInv, NEW pr \in Probe, Local(pr),
           \/ VerifyParentDrift(pr) \/ VerifyFails(pr) \/ Disconnect(pr)
           \/ DeadlineExceeded(pr) \/ SaveMapping(pr)
    PROVE  OnceInv'
<1>1. PICK pc \in {"ok", "failed", "saved"} : Ends(pr, pc)
  BY DEF VerifyParentDrift, VerifyFails, Disconnect, DeadlineExceeded, SaveMapping
<1>2. /\ cyc'[pr].del = {} /\ cyc'[pr].new = {} /\ cyc'[pr].queue = << >>
      /\ cyc'[pr].pc = pc /\ cyc[pr].pc # "idle"
  BY <1>1, GoroutineFacts DEF Ends, Asleep, VerifyParentDrift, VerifyFails, Disconnect,
     DeadlineExceeded, SaveMapping, Executed, Executing
<1>3. ASSUME NEW m \in MasterId PROVE mem'[pr].m2p[m] = mem[pr].m2p[m]
  <2>1. mem \in [Probe -> Mapping]
    BY DEF IInv, TypeOK
  <2> QED
    BY <2>1 DEF VerifyParentDrift, VerifyFails, Disconnect, DeadlineExceeded, SaveMapping, Mapping
<1>4. disk'[pr].m2p = mem[pr].m2p \/ disk'[pr].m2p = disk[pr].m2p
  BY DEF VerifyParentDrift, VerifyFails, Disconnect, DeadlineExceeded, SaveMapping,
     SaveToFile, IInv, TypeOK
<1>5. RowsLast(pr)
  BY SameTableLasts DEF VerifyParentDrift, VerifyFails, Disconnect, DeadlineExceeded, SaveMapping
<1>6. IndexComplete(pr)' /\ CreatesNew(pr)'
  BY <1>2, <1>5, CreatesStay DEF IndexComplete
<1> QED BY <1>2, <1>3, <1>4, <1>5, <1>6, QuietOnce

\* The index is complete when it is made: the probe's list is all its rows,
\* and the filter lets everything through.
LEMMA StartProbeOnce ==
    ASSUME RowsStayWanted, NamesApart, IInv, IInv', OwnInv, OnceInv, NEW pr \in Probe,
           StartProbe(pr), Local(pr)
    PROVE  OnceInv'
<1> DEFINE wanted == FilterMonitorsForProbe(pr)
           named(n) == {p \in Rows(pr) : probe[pr][p].name = n}
<1>1. PICK index \in [Name -> Rows(pr) \cup {NoId}] :
        /\ \A n \in Name : IF named(n) = {} THEN index[n] = NoId ELSE index[n] \in named(n)
        /\ cyc' = [cyc EXCEPT ![pr] =
                     [Asleep("plan") EXCEPT !.wanted = wanted, !.todo = wanted,
                                            !.listed = Rows(pr), !.byName = index]]
  BY DEF StartProbe, Rows
<1>2. UNCHANGED <<probe, nextId, mem, disk, snap>> /\ cyc[pr].pc = "waiting"
  BY DEF StartProbe
<1>3. wanted = Fetched
  BY DEF FilterMonitorsForProbe, RowsStayWanted
<1>4. /\ cyc'[pr].del = {} /\ cyc'[pr].new = {} /\ cyc'[pr].queue = << >>
      /\ cyc'[pr].byName = index /\ cyc'[pr].listed = Rows(pr) /\ cyc'[pr].pc = "plan"
      /\ cyc'[pr].wanted = Fetched /\ cyc'[pr].todo = Fetched
  BY <1>1, <1>3, GoroutineFacts DEF Asleep
<1>5. RowsLast(pr)
  BY <1>2, SameTableLasts
<1>6. IndexComplete(pr)'
  <2>1. ASSUME NEW m \in Fetched, index[snap[m].name] = NoId
        PROVE  NoRowOf(pr, m)
    <3>1. snap[m].name \in Name /\ snap[m].name \in Names(m) /\ m \in MasterId
      BY HashType, NameOf DEF Config
    <3>2. named(snap[m].name) = {}
      BY <1>1, <2>1, <3>1, IdAssumption DEF Rows
    <3> QED BY <3>1, <3>2 DEF NoRowOf, RowsStayWanted
  <2>2. Rows(pr)' = Rows(pr) /\ Fetched' = Fetched
    BY <1>2 DEF Rows, Fetched
  <2>3. \A m \in Fetched : NoRowOf(pr, m) => NoRowOf(pr, m)'
    BY <1>2 DEF NoRowOf, Rows
  <2> QED BY <1>2, <1>4, <2>1, <2>2, <2>3 DEF IndexComplete
<1>7. CreatesNew(pr)'
  BY <1>4, <1>5, CreatesStay
<1> QED BY <1>2, <1>4, <1>5, <1>6, <1>7, QuietOnce

\* A monitor that is planned has a name of its own, and is not gone.
LEMMA PlanningOnce ==
    ASSUME RowsStayWanted, NamesApart, IInv, OwnInv, OnceInv, NEW pr \in Probe,
           NEW m \in MasterId, Planning(pr, m)
    PROVE  /\ cyc[pr].pc = "plan" /\ m \in cyc[pr].todo /\ m \in Fetched
           /\ snap[m].name \in Name /\ snap[m].name \in Names(m)
           /\ snap[m] # NoMonitor /\ m \in issued
           /\ mem[pr].m2p[m] # NoId => mem[pr].m2p[m] \in cyc[pr].listed
           /\ \A x \in cyc[pr].todo : x # m => snap[x].name # snap[m].name
<1>1. /\ m \in Fetched /\ snap[m].name \in Name /\ snap[m].name \in Names(m)
      /\ cyc[pr].pc = "plan" /\ m \in cyc[pr].todo
  BY PlanningFacts, NameOf DEF Planning
<1>2. snap[m] # NoMonitor /\ m \in issued
  BY <1>1 DEF Fetched, OnceInv, Live
<1>3. mem[pr].m2p[m] # NoId => mem[pr].m2p[m] \in cyc[pr].listed
  BY <1>1, <1>2 DEF OnceInv, OnceAt, RowsMapped, Gone, IndexComplete
<1>4. ASSUME NEW x \in cyc[pr].todo, x # m
      PROVE  snap[x].name # snap[m].name
  <2>1. x \in Fetched /\ x \in MasterId
    BY GoroutineFacts DEF WithinFetched, Fetched
  <2>2. snap[x].name \in Names(x)
    BY <2>1, NameOf
  <2> QED BY <1>1, <1>4, <2>1, <2>2 DEF NamesApart
<1> QED BY <1>1, <1>2, <1>3, <1>4

\* The index stays complete while it and the rows stay.
LEMMA IndexLasts ==
    ASSUME NEW pr \in Probe, IndexComplete(pr), UNCHANGED <<probe, snap>>,
           cyc'[pr].pc = "plan" =>
              /\ cyc[pr].pc = "plan" /\ cyc'[pr].wanted = cyc[pr].wanted
              /\ cyc'[pr].listed = cyc[pr].listed /\ cyc'[pr].byName = cyc[pr].byName
              /\ cyc'[pr].todo \subseteq cyc[pr].todo
    PROVE  IndexComplete(pr)'
BY DEF IndexComplete, Rows, NoRowOf, Fetched

\* A monitor without a row in the index has no row; one that is mapped is
\* listed, so that none is ever created anew.
LEMMA PlanQuietOnce ==
    ASSUME RowsStayWanted, NamesApart, IInv, IInv', OwnInv, OnceInv, NEW pr \in Probe,
           NEW m \in MasterId, Local(pr),
           \/ PlanCreate(pr, m) \/ PlanRecreate(pr, m)
           \/ PlanUpdate(pr, m) \/ PlanNothing(pr, m)
    PROVE  OnceInv'
<1>1. Planning(pr, m) /\ UNCHANGED <<probe, nextId, disk, snap>>
  BY DEF PlanCreate, PlanRecreate, PlanUpdate, PlanNothing
<1>2. ~PlanRecreate(pr, m)
  BY <1>1, PlanningOnce DEF PlanRecreate
<1>3. mem' = mem
  BY <1>2 DEF PlanCreate, PlanUpdate, PlanNothing
<1>4. /\ cyc'[pr].pc = "plan" /\ cyc[pr].pc = "plan"
      /\ cyc'[pr].wanted = cyc[pr].wanted /\ cyc'[pr].listed = cyc[pr].listed
      /\ cyc'[pr].byName = cyc[pr].byName /\ cyc'[pr].todo \subseteq cyc[pr].todo
      /\ cyc'[pr].queue = cyc[pr].queue /\ cyc'[pr].del = cyc[pr].del
  BY <1>1, <1>2, GoroutineFacts DEF PlanCreate, PlanUpdate, PlanNothing, Planning, Goroutine
<1>5. cyc'[pr].new = cyc[pr].new \/ (PlanCreate(pr, m) /\ cyc'[pr].new = cyc[pr].new \cup {m})
  BY <1>2, GoroutineFacts DEF PlanCreate, PlanUpdate, PlanNothing, Goroutine
<1>6. OnceAt(pr) /\ RowsLast(pr)
  BY <1>1, SameTableLasts DEF OnceInv
<1>7. IndexComplete(pr)'
  BY <1>1, <1>4, <1>6, IndexLasts DEF OnceAt
<1>8. PlanCreate(pr, m) => NoRowOf(pr, m)
  BY <1>1, <1>6, PlanningOnce DEF PlanCreate, Adoptable, OnceAt, IndexComplete
<1>9. \A x \in MasterId : NoRowOf(pr, x) => NoRowOf(pr, x)'
  BY <1>1 DEF NoRowOf, Rows
<1>10. CreatesNew(pr)'
  <2>1. CreatesNew(pr) /\ cyc[pr].new \subseteq MasterId
    BY <1>6, GoroutineFacts DEF OnceAt, Goroutine
  <2>2. \A i \in 1..Len(cyc[pr].queue) : cyc[pr].queue[i] \in MasterId
    BY GoroutineFacts DEF Goroutine
  <2> QED BY <1>4, <1>5, <1>8, <1>9, <2>1, <2>2 DEF CreatesNew
<1> QED BY <1>1, <1>3, <1>4, <1>6, <1>7, <1>10, QuietOnce

\* An adoption takes the row that the index gives, and no other monitor that
\* is still to be planned has that name.
LEMMA PlanAdoptOnce ==
    ASSUME RowsStayWanted, NamesApart, IInv, IInv', OwnInv, OnceInv, NEW pr \in Probe,
           NEW m \in MasterId, Local(pr), PlanAdopt(pr, m)
    PROVE  OnceInv'
<1>0. PICK n, p, u : n = snap[m].name /\ p = Adoptable(pr, m) /\ u = PlannedUpdate(m, p)
  OBVIOUS
<1> DEFINE claimed == [cyc[pr].byName EXCEPT ![n] = NoId]
<1>1. /\ Planning(pr, m) /\ p = cyc[pr].byName[n] /\ p # NoId
      /\ UNCHANGED <<probe, nextId, disk, snap>>
      /\ cyc' = [cyc EXCEPT ![pr].todo = @ \ {m},
                            ![pr].byName = claimed,
                            ![pr].upd = @ \cup {u}]
  BY <1>0 DEF PlanAdopt, Adoptable
<1>2. /\ cyc[pr].pc = "plan" /\ m \in cyc[pr].todo /\ n \in Name
      /\ snap[m] # NoMonitor /\ m \in issued
      /\ \A x \in cyc[pr].todo : x # m => snap[x].name # n
  BY <1>0, <1>1, PlanningOnce
<1>3. /\ cyc'[pr].pc = "plan" /\ cyc'[pr].wanted = cyc[pr].wanted
      /\ cyc'[pr].listed = cyc[pr].listed /\ cyc'[pr].byName = claimed
      /\ cyc'[pr].todo = cyc[pr].todo \ {m}
      /\ cyc'[pr].queue = cyc[pr].queue /\ cyc'[pr].del = cyc[pr].del
      /\ cyc'[pr].new = cyc[pr].new
  BY <1>1, <1>2, GoroutineFacts DEF Goroutine
<1>4. /\ mem'[pr].m2p[m] = p
      /\ \A x \in MasterId : x # m => mem'[pr].m2p[x] = mem[pr].m2p[x]
  BY <1>0, AdoptStealsNothing
<1>5. OnceAt(pr) /\ RowsLast(pr)
  BY <1>1, SameTableLasts DEF OnceInv
<1>6. IndexComplete(pr)
  BY <1>5 DEF OnceAt
<1>7. p \in Rows(pr) /\ Rows(pr)' = Rows(pr) /\ Fetched' = Fetched
  BY <1>1, <1>2, <1>6 DEF IndexComplete, Rows, Fetched
<1>8. Distinct(pr)' /\ \A x \in MasterId : NoRowOf(pr, x) => NoRowOf(pr, x)'
  BY <1>5, TableOnce
<1>9. RowsMapped(pr, mem[pr].m2p)' /\ RowsMapped(pr, disk[pr].m2p)'
  BY <1>1, <1>2, <1>4, <1>5, <1>7, LocalGone DEF OnceAt, RowsMapped, Local
<1>10. MappedRead(pr)'
  BY <1>1, <1>2, <1>4, <1>5, LocalGone DEF OnceAt, MappedRead
<1>11. IndexComplete(pr)'
  <2>1. \A x \in Name : claimed[x] = IF x = n THEN NoId ELSE cyc[pr].byName[x]
    BY <1>2, GoroutineFacts DEF Goroutine
  <2>2. cyc[pr].todo \subseteq Fetched /\ \A x \in Fetched : x \in MasterId /\ snap[x].name \in Name
    BY GoroutineFacts, HashType DEF WithinFetched, Config
  <2> HIDE DEF claimed
  <2>3. \A x \in cyc'[pr].todo : claimed[snap[x].name] = NoId => NoRowOf(pr, x)
    BY <1>2, <1>3, <1>6, <2>1, <2>2 DEF IndexComplete
  <2>4. \A x \in Name : claimed[x] \in Rows(pr) \cup {NoId}
    BY <1>2, <1>6, <2>1 DEF IndexComplete
  <2> QED BY <1>1, <1>2, <1>3, <1>6, <1>7, <1>8, <2>2, <2>3, <2>4 DEF IndexComplete
<1> HIDE DEF claimed
<1>12. CreatesNew(pr)'
  BY <1>2, <1>3, <1>5, CreatesStay
<1>13. \A d \in cyc'[pr].del : Gone(d.m)'
  BY <1>3, <1>5, LocalGone, GoroutineFacts DEF OnceAt, Goroutine, Delete
<1>14. OnceAt(pr)'
  BY <1>8, <1>9, <1>10, <1>11, <1>12, <1>13 DEF OnceAt
<1> QED BY <1>14, OthersOnce

\* What is mapped and was not read is dead, and will not come back.
LEMMA PlanOrphansOnce ==
    ASSUME RowsStayWanted, NamesApart, IInv, IInv', OwnInv, OnceInv, NEW pr \in Probe,
           Local(pr), PlanOrphans(pr)
    PROVE  OnceInv'
<1> DEFINE dels == {[m |-> m, p |-> mem[pr].m2p[m]] : m \in Orphans(pr)}
<1>1. /\ UNCHANGED <<probe, nextId, mem, disk, snap>> /\ cyc[pr].pc = "plan"
      /\ cyc'[pr].new = cyc[pr].new /\ cyc'[pr].queue = cyc[pr].queue
      /\ cyc'[pr].del = dels /\ cyc'[pr].pc \in {"ok", "updates"}
  BY GoroutineFacts DEF PlanOrphans, Goroutine
<1>2. OnceAt(pr) /\ RowsLast(pr)
  BY <1>1, SameTableLasts DEF OnceInv
<1>3. \A d \in dels : Gone(d.m)'
  <2>1. ASSUME NEW m \in Orphans(pr) PROVE Gone(m) /\ m \in MasterId
    BY <1>1, <1>2, <2>1 DEF Orphans, GetAllMasterIDs, OnceAt, IndexComplete, MappedRead,
       Fetched, Gone
  <2> QED BY <2>1, LocalGone
<1> HIDE DEF dels
<1>4. Distinct(pr)' /\ RowsMapped(pr, mem[pr].m2p)' /\ RowsMapped(pr, disk[pr].m2p)'
  BY <1>1, <1>2, TableOnce, EntriesOnce
<1>5. MappedRead(pr)' /\ IndexComplete(pr)'
  BY <1>1, <1>2, LocalGone DEF OnceAt, MappedRead, IndexComplete
<1>6. CreatesNew(pr)'
  BY <1>1, <1>2, CreatesStay
<1>7. OnceAt(pr)'
  BY <1>1, <1>3, <1>4, <1>5, <1>6 DEF OnceAt
<1> QED BY <1>7, OthersOnce

\* An edit keeps the name of the row: nobody else's plan names it, and its
\* monitor has but one name.
LEMMA UpdateOnce ==
    ASSUME RowsStayWanted, NamesApart, IInv, IInv', OwnInv, OnceInv, NEW pr \in Probe,
           Local(pr), NEW u \in cyc[pr].upd,
           UpdateOk(pr, u) \/ UpdateRefused(pr, u) \/ UpdateUnanswered(pr, u)
    PROVE  OnceInv'
<1> DEFINE row == Payload(u.m, UpdateParent(pr, u))
<1>1. /\ Updating(pr, u) /\ UNCHANGED <<nextId, disk>>
      /\ \/ probe' = probe
         \/ EditAccepted(pr, u.p, UpdateParent(pr, u)) /\ probe' = [probe EXCEPT ![pr][u.p] = row]
  BY DEF UpdateOk, UpdateRefused, UpdateUnanswered
<1>2. /\ cyc'[pr].del = cyc[pr].del /\ cyc'[pr].new = cyc[pr].new
      /\ cyc'[pr].queue = cyc[pr].queue /\ cyc'[pr].pc = "updates" /\ cyc[pr].pc = "updates"
  BY <1>1, GoroutineFacts DEF UpdateOk, UpdateRefused, UpdateUnanswered, Goroutine, Updating
<1>3. mem'[pr].m2p = mem[pr].m2p
  BY Entries, UpdatingFacts, <1>1, GoroutineFacts
  DEF UpdateOk, UpdateRefused, UpdateUnanswered, SetHash, Mapping, IInv, TypeOK
<1>4. RowsLast(pr)
  <2>1. CASE probe' = probe
    BY <1>1, <2>1, SameTableLasts
  <2>2. CASE EditAccepted(pr, u.p, UpdateParent(pr, u)) /\ probe' = [probe EXCEPT ![pr][u.p] = row]
    <3>1. u.m \in MasterId /\ u.m \in Fetched /\ u.p \in ProbeId
      BY <1>1, UpdatingFacts, GoroutineFacts DEF Goroutine, Update
    <3>2. /\ probe[pr][u.p] # NoMonitor /\ probe[pr][u.p].name \in Names(u.m)
          /\ row.name \in Names(u.m)
      BY <2>2, <3>1, NameOf DEF EditAccepted, OwnInv, OwnAt, PlansOwn, Owns, Payload
    <3>3. row.name = probe[pr][u.p].name
      BY <3>1, <3>2 DEF RowsStayWanted
    <3>4. row # NoMonitor
      BY <1>1, UpdatingFacts, ReconcilerAssumption
    <3> HIDE DEF row
    <3>5. \A p \in ProbeId : probe'[pr][p] = IF p = u.p THEN row ELSE probe[pr][p]
      BY <2>2, <3>1 DEF IInv, TypeOK, TableType
    <3> QED BY <1>1, <3>1, <3>2, <3>3, <3>4, <3>5 DEF RowsLast, NamesStay, Rows
  <2> QED BY <1>1, <2>1, <2>2
<1>5. IndexComplete(pr)'
  BY <1>2 DEF IndexComplete
<1>6. CreatesNew(pr)'
  BY <1>2, <1>4, CreatesStay
<1> QED BY <1>1, <1>2, <1>3, <1>4, <1>5, <1>6, QuietOnce

LEMMA StartFailsOnce ==
    ASSUME IInv, IInv', OwnInv, OnceInv, NEW pr \in Probe, Local(pr), StartFails(pr)
    PROVE  OnceInv'
<1>1. UNCHANGED <<probe, nextId, mem, disk>>
  BY DEF StartFails
<1>2. /\ cyc'[pr].del = cyc[pr].del /\ cyc'[pr].new = cyc[pr].new
      /\ cyc'[pr].queue = cyc[pr].queue /\ cyc'[pr].pc = "failed" /\ cyc[pr].pc = "waiting"
  BY GoroutineFacts DEF StartFails, Goroutine
<1>3. RowsLast(pr) /\ IndexComplete(pr)'
  BY <1>1, <1>2, SameTableLasts DEF IndexComplete
<1>4. CreatesNew(pr)'
  BY <1>2, <1>3, CreatesStay
<1> QED BY <1>1, <1>2, <1>3, <1>4, QuietOnce

\* Sorting a batch of creates loses none of them and repeats none.
LEMMA OrderRepeatsNothing ==
    ASSUME NEW batch, batch \subseteq MasterId, NEW order \in TopologicalOrders(batch)
    PROVE  /\ order \in Seq(batch)
           /\ \A i, j \in 1..Len(order) : order[i] = order[j] => i = j
<1> DEFINE n == Cardinality(batch)
<1>1. IsFiniteSet(batch) /\ n \in Nat
  BY FS_Subset, FS_CardinalityType, ReconcilerAssumption
<1>2. order \in [1..n -> batch] /\ \A m \in batch : \E i \in 1..n : order[i] = m
  BY DEF TopologicalOrders
<1>3. IsFiniteSet(1..n) /\ Cardinality(1..n) = n
  BY <1>1, FS_Interval
<1>4. order \in Surjection(1..n, batch)
  BY <1>2 DEF Surjection
<1>5. order \in Injection(1..n, batch)
  BY <1>1, <1>3, <1>4, FS_SurjSameCardinalityImpliesInj
<1>6. order \in Seq(batch) /\ Len(order) = n
  BY <1>1, <1>2
<1> QED BY <1>5, <1>6 DEF Injection, IsInjective

LEMMA SortCreatesOnce ==
    ASSUME IInv, IInv', OwnInv, OnceInv, NEW pr \in Probe, Local(pr), SortCreates(pr)
    PROVE  OnceInv'
<1>1. PICK order \in TopologicalOrders(cyc[pr].new) :
        cyc' = [cyc EXCEPT ![pr].pc = "rest", ![pr].queue = order, ![pr].new = {}]
  BY DEF SortCreates
<1>2. UNCHANGED <<probe, nextId, mem, disk>> /\ cyc[pr].pc = "updates"
  BY DEF SortCreates
<1>3. /\ cyc'[pr].del = cyc[pr].del /\ cyc'[pr].new = {}
      /\ cyc'[pr].queue = order /\ cyc'[pr].pc = "rest"
  BY <1>1, GoroutineFacts DEF Goroutine
<1>4. cyc[pr].new \subseteq MasterId
  BY GoroutineFacts DEF Goroutine
<1>5. /\ order \in Seq(cyc[pr].new)
      /\ \A i, j \in 1..Len(order) : order[i] = order[j] => i = j
  BY <1>4, OrderRepeatsNothing
<1>6. RowsLast(pr) /\ IndexComplete(pr)'
  BY <1>2, <1>3, SameTableLasts DEF IndexComplete
<1>7. \A m \in cyc[pr].new : NoRowOf(pr, m)'
  BY <1>2 DEF OnceInv, OnceAt, CreatesNew, NoRowOf, Rows
<1>8. CreatesNew(pr)'
  BY <1>3, <1>5, <1>7 DEF CreatesNew
<1> QED BY <1>2, <1>3, <1>6, <1>8, QuietOnce

\* What the head of the queue leaves to be created.
LEMMA TailOnce ==
    ASSUME IInv, OnceInv, NEW pr \in Probe, Creating(pr)
    PROVE  LET m == NextCreate(pr)
               rest == Tail(cyc[pr].queue)
           IN  /\ NoRowOf(pr, m) /\ cyc[pr].new = {} /\ rest \in Seq(MasterId)
               /\ \A i \in 1..Len(rest) : rest[i] # m /\ NoRowOf(pr, rest[i])
               /\ \A i, j \in 1..Len(rest) : rest[i] = rest[j] => i = j
<1>1. PICK queue \in Seq(MasterId) : queue = cyc[pr].queue /\ queue # << >>
  BY GoroutineFacts DEF Goroutine, Creating
<1>2. /\ \A i \in 1..Len(queue) : NoRowOf(pr, queue[i])
      /\ \A i, j \in 1..Len(queue) : queue[i] = queue[j] => i = j
      /\ cyc[pr].new = {}
  BY <1>1 DEF OnceInv, OnceAt, CreatesNew, Creating
<1>3. PICK rest \in Seq(MasterId) : rest = Tail(queue)
  <2>1. Tail(queue) \in Seq(MasterId)
    BY <1>1
  <2> QED BY <2>1
<1>4. /\ Len(queue) \in Nat /\ Len(queue) > 0 /\ Len(rest) = Len(queue) - 1
      /\ NextCreate(pr) = queue[1]
      /\ \A i \in 1..Len(rest) : rest[i] = queue[i + 1]
  BY <1>1, <1>3 DEF NextCreate
<1>5. \A i \in 1..Len(rest) : i + 1 \in 1..Len(queue) /\ i + 1 # 1
  BY <1>4
<1>6. 1 \in 1..Len(queue)
  BY <1>4
<1>7. \A i \in 1..Len(rest) : rest[i] # queue[1] /\ NoRowOf(pr, rest[i])
  BY <1>2, <1>4, <1>5, <1>6
<1>8. ASSUME NEW i \in 1..Len(rest), NEW j \in 1..Len(rest), rest[i] = rest[j] PROVE i = j
  <2>1. i + 1 = j + 1
    BY <1>2, <1>4, <1>5, <1>8
  <2> QED BY <2>1
<1> QED BY <1>1, <1>2, <1>3, <1>4, <1>6, <1>7, <1>8

LEMMA CreateFailsOnce ==
    ASSUME IInv, IInv', OwnInv, OnceInv, NEW pr \in Probe, Local(pr),
           \/ CreateSkipped(pr)
           \/ \E parent \in cyc[pr].asked : CreateRefused(pr, parent)
    PROVE  OnceInv'
<1>1. UNCHANGED <<probe, nextId, mem, disk>> /\ Creating(pr)
  BY DEF CreateSkipped, CreateRefused, Awaiting
<1>2. /\ cyc'[pr].del = cyc[pr].del /\ cyc'[pr].new = cyc[pr].new
      /\ cyc'[pr].queue = Tail(cyc[pr].queue) /\ cyc'[pr].pc = "rest" /\ cyc[pr].pc = "rest"
  <2>1. CASE CreateSkipped(pr)
    BY <1>1, <2>1, GoroutineFacts DEF CreateSkipped, Goroutine, Creating
  <2>2. CASE \E parent \in cyc[pr].asked : CreateRefused(pr, parent)
    BY <1>1, <2>2, GoroutineFacts DEF CreateRefused, CreateGivenUp, Goroutine, Creating
  <2> QED BY <2>1, <2>2
<1>3. RowsLast(pr) /\ IndexComplete(pr)'
  BY <1>1, <1>2, SameTableLasts DEF IndexComplete
<1>4. PICK rest : rest = Tail(cyc[pr].queue)
  OBVIOUS
<1>5. /\ \A i \in 1..Len(rest) : NoRowOf(pr, rest[i])
      /\ \A i, j \in 1..Len(rest) : rest[i] = rest[j] => i = j
      /\ cyc[pr].new = {}
  BY <1>1, <1>4, TailOnce
<1>6. \A x : NoRowOf(pr, x) => NoRowOf(pr, x)'
  BY <1>1 DEF NoRowOf, Rows
<1>7. CreatesNew(pr)'
  BY <1>2, <1>4, <1>5, <1>6 DEF CreatesNew
<1> QED BY <1>1, <1>2, <1>3, <1>7, QuietOnce

\* The request of a create is sent: nothing is written to the probe yet.
LEMMA SendCreateOnce ==
    ASSUME IInv, IInv', OwnInv, OnceInv, NEW pr \in Probe, Local(pr), SendCreate(pr)
    PROVE  OnceInv'
<1>1. UNCHANGED <<probe, nextId, mem, disk>> /\ Creating(pr)
  BY DEF SendCreate
<1>2. PICK A : cyc' = [cyc EXCEPT ![pr].asked = A]
  BY DEF SendCreate
<1>3. /\ cyc'[pr].del = cyc[pr].del /\ cyc'[pr].new = cyc[pr].new
      /\ cyc'[pr].queue = cyc[pr].queue /\ cyc'[pr].pc = "rest" /\ cyc[pr].pc = "rest"
  BY <1>1, <1>2, GoroutineFacts DEF Goroutine, Creating
<1>4. RowsLast(pr)
  BY <1>1, SameTableLasts
<1>5. IndexComplete(pr)' /\ CreatesNew(pr)'
  BY <1>3, <1>4, CreatesStay DEF IndexComplete
<1> QED BY <1>1, <1>3, <1>4, <1>5, QuietOnce

\* A create, answered or not, adds the one row of its monitor.
LEMMA CreateOnce ==
    ASSUME NamesApart, IInv, IInv', OwnInv, OnceInv, NEW pr \in Probe, Local(pr),
           NEW parent \in cyc[pr].asked, CreateOk(pr, parent) \/ CreateUnanswered(pr, parent)
    PROVE  OnceInv'
<1>0. PICK m, p, rest : m = NextCreate(pr) /\ p = nextId[pr] /\ rest = Tail(cyc[pr].queue)
  OBVIOUS
<1> DEFINE row == Payload(m, parent)
<1>1. /\ Creating(pr) /\ p \in ProbeId /\ UNCHANGED <<disk, snap>>
      /\ probe' = [probe EXCEPT ![pr][p] = row]
  BY <1>0 DEF CreateOk, CreateUnanswered, AddedTable, Awaiting
<1>2. /\ cyc'[pr].del = cyc[pr].del /\ cyc'[pr].new = cyc[pr].new
      /\ cyc'[pr].queue = rest /\ cyc'[pr].pc = "rest" /\ cyc[pr].pc = "rest"
  <2>1. CASE CreateOk(pr, parent)
    BY <1>0, <1>1, <2>1, GoroutineFacts DEF CreateOk, Goroutine, Creating
  <2>2. CASE CreateUnanswered(pr, parent)
    BY <1>0, <1>1, <2>2, GoroutineFacts DEF CreateUnanswered, CreateGivenUp, Goroutine, Creating
  <2> QED BY <2>1, <2>2
<1>3. /\ m \in MasterId /\ m \in Fetched /\ row.name \in Names(m) /\ row # NoMonitor
  BY <1>0, <1>1, CreatingFacts, NameOf, ReconcilerAssumption DEF Payload
<1>4. snap[m] # NoMonitor /\ m \in issued
  BY <1>3 DEF Fetched, OnceInv, Live
<1>5. /\ NoRowOf(pr, m) /\ cyc[pr].new = {} /\ rest \in Seq(MasterId)
      /\ \A i \in 1..Len(rest) : rest[i] # m /\ NoRowOf(pr, rest[i])
      /\ \A i, j \in 1..Len(rest) : rest[i] = rest[j] => i = j
  BY <1>0, <1>1, TailOnce
<1> HIDE DEF row
<1>6. \A q \in ProbeId : probe'[pr][q] = IF q = p THEN row ELSE probe[pr][q]
  BY <1>1 DEF IInv, TypeOK, TableType
<1>7. \A q \in Rows(pr)' : q = p \/ (q \in Rows(pr) /\ probe'[pr][q] = probe[pr][q])
  BY <1>6 DEF Rows
<1>8. p \in Rows(pr)' /\ probe'[pr][p] = row /\ \A q \in Rows(pr) : q \in Rows(pr)'
  BY <1>1, <1>3, <1>6 DEF Rows
<1>9. OnceAt(pr)
  BY DEF OnceInv
<1>10. Distinct(pr)'
  <2>1. \A q \in Rows(pr) : probe[pr][q].name # row.name
    BY <1>3, <1>5 DEF NoRowOf
  <2> QED BY <1>7, <1>8, <1>9, <2>1 DEF OnceAt, Distinct
<1>11. \A x \in MasterId : x # m /\ NoRowOf(pr, x) => NoRowOf(pr, x)'
  <2>1. \A x \in MasterId : x # m => row.name \notin Names(x)
    BY <1>3 DEF NamesApart
  <2> QED BY <1>7, <1>8, <2>1 DEF NoRowOf
<1>12. \A x \in MasterId :
          mem'[pr].m2p[x] \in {mem[pr].m2p[x], NoId} \/ (x = m /\ mem'[pr].m2p[x] = p)
  <2>1. CASE CreateOk(pr, parent)
    <3> DEFINE map == SetMapping(mem[pr], m, p)
    <3>1. PICK h : mem' = [mem EXCEPT ![pr] = SetHash(map, m, h)]
      BY <1>0, <2>1 DEF CreateOk
    <3>2. map \in Mapping
      BY <1>1, <1>3, GoroutineFacts, SetMappingType
    <3>3. mem'[pr].m2p = map.m2p
      BY <3>1, <3>2, <1>3, Entries DEF IInv, TypeOK
    <3>4. mem[pr] \in Mapping
      BY GoroutineFacts
    <3> QED BY <1>1, <1>3, <3>3, <3>4, Entries
  <2>2. CASE CreateUnanswered(pr, parent)
    BY <2>2 DEF CreateUnanswered
  <2> QED BY <2>1, <2>2
<1>13. RowsMapped(pr, mem[pr].m2p)'
  BY <1>4, <1>8, <1>9, <1>12, LocalGone DEF OnceAt, RowsMapped, Local
<1>14. RowsMapped(pr, disk[pr].m2p)'
  BY <1>1, <1>8, <1>9, LocalGone DEF OnceAt, RowsMapped, Local
<1>15. MappedRead(pr)'
  BY <1>1, <1>2, <1>4, <1>9, <1>12, LocalGone DEF OnceAt, MappedRead
<1>16. IndexComplete(pr)'
  BY <1>2 DEF IndexComplete
<1>17. CreatesNew(pr)'
  BY <1>2, <1>5, <1>11 DEF CreatesNew
<1>18. \A d \in cyc'[pr].del : Gone(d.m)'
  BY <1>2, <1>9, LocalGone, GoroutineFacts DEF OnceAt, Goroutine, Delete
<1>19. OnceAt(pr)'
  BY <1>10, <1>13, <1>14, <1>15, <1>16, <1>17, <1>18 DEF OnceAt
<1> QED BY <1>19, OthersOnce

\* A delete takes the row of a monitor that is gone.
LEMMA DeleteOnce ==
    ASSUME NamesApart, IInv, IInv', OwnInv, OnceInv, NEW pr \in Probe, Local(pr),
           NEW d \in cyc[pr].del, DeleteOk(pr, d) \/ DeleteFails(pr, d)
    PROVE  OnceInv'
<1>1. Deleting(pr, d) /\ UNCHANGED <<nextId, disk>> /\ cyc' = [cyc EXCEPT ![pr].del = @ \ {d}]
  BY DEF DeleteOk, DeleteFails
<1>2. d.m \in MasterId /\ d.p \in ProbeId \cup {NoId}
  BY GoroutineFacts DEF Goroutine, Delete
<1>3. RowsLast(pr)
  <2>1. CASE probe' = probe
    BY <1>1, <2>1, SameTableLasts
  <2>2. CASE probe' = [probe EXCEPT ![pr] = Without(@, d.p)]
    <3>1. NamesStay(pr)
      BY <1>1, <2>2, DeletedTable
    <3>2. Owns(pr, d.p, d.m) /\ Gone(d.m)
      BY DEF OwnInv, OwnAt, PlansOwn, OnceInv, OnceAt
    <3>3. ASSUME NEW q \in Rows(pr), q # d.p PROVE q \in Rows(pr)'
      <4>1. probe'[pr] = Without(probe[pr], d.p) /\ probe[pr] \in TableType
        BY <2>2 DEF IInv, TypeOK
      <4>2. q \in ProbeId /\ probe[pr][q] \in ProbeMonitor
        BY <4>1 DEF Rows, TableType
      <4>3. Without(probe[pr], d.p)[q] \in ProbeMonitor
        BY <3>3, <4>2, ReconcilerAssumption DEF Without, ProbeMonitor
      <4> QED BY <4>1, <4>2, <4>3, ReconcilerAssumption DEF Rows
    <3>4. ASSUME NEW m \in MasterId, NEW q \in Rows(pr), Owns(pr, q, m)
          PROVE  Gone(m) \/ q \in Rows(pr)'
      <4>1. CASE q = d.p
        BY <1>2, <3>2, <3>4, <4>1 DEF Owns, Rows, NamesApart
      <4> QED BY <3>3, <4>1
    <3> QED BY <3>1, <3>4 DEF RowsLast
  <2> QED BY <2>1, <2>2 DEF DeleteOk, DeleteFails
<1>4. \A x \in MasterId : mem'[pr].m2p[x] \in {mem[pr].m2p[x], NoId}
  <2>1. CASE mem' = mem
    BY <2>1
  <2>2. CASE mem' = [mem EXCEPT ![pr] = RemoveByMasterID(@, d.m)]
    <3>1. mem'[pr] = RemoveByMasterID(mem[pr], d.m)
      BY <2>2 DEF IInv, TypeOK
    <3> QED BY <1>2, <3>1, GoroutineFacts, Entries
  <2> QED BY <2>1, <2>2 DEF DeleteOk, DeleteFails
<1>5. /\ cyc'[pr].del \subseteq cyc[pr].del /\ cyc'[pr].new = cyc[pr].new
      /\ cyc'[pr].queue = cyc[pr].queue /\ cyc'[pr].pc = "rest" /\ cyc[pr].pc = "rest"
  BY <1>1, GoroutineFacts DEF Goroutine, Deleting
<1>6. IndexComplete(pr)'
  BY <1>5 DEF IndexComplete
<1>7. CreatesNew(pr)'
  BY <1>3, <1>5, CreatesStay
<1> QED BY <1>1, <1>3, <1>4, <1>5, <1>6, <1>7, QuietOnce

\* All goroutines asleep, with mappings that were in memory or in the files.
LEMMA AsleepOnce ==
    ASSUME IInv, OnceInv, UNCHANGED <<probe, issued, master>>, Live',
           NEW pc \in {"idle", "waiting"}, cyc' = [pr \in Probe |-> Asleep(pc)],
           \A m \in MasterId : Gone(m) => Gone(m)',
           \A pr \in Probe, m \in MasterId :
              /\ mem'[pr].m2p[m] \in {mem[pr].m2p[m], disk[pr].m2p[m], NoId}
              /\ disk'[pr].m2p[m] \in {mem[pr].m2p[m], disk[pr].m2p[m], NoId},
           pc = "idle" \/ \A m \in MasterId : m \in issued => snap'[m] # NoMonitor \/ Dead(m)'
    PROVE  OnceInv'
<1>1. ASSUME NEW pr \in Probe PROVE OnceAt(pr)'
  <2>1. /\ cyc'[pr].pc = pc /\ cyc'[pr].pc # "plan" /\ cyc'[pr].pc # "rest"
        /\ cyc'[pr].del = {} /\ cyc'[pr].new = {} /\ cyc'[pr].queue = << >>
    BY DEF Asleep
  <2>2. Rows(pr)' = Rows(pr) /\ OnceAt(pr)
    BY DEF Rows, OnceInv
  <2>3. Distinct(pr)'
    BY <2>2 DEF OnceAt, Distinct
  <2>4. ASSUME NEW m \in MasterId, NEW p \in {mem[pr].m2p[m], disk[pr].m2p[m]}, p # NoId
        PROVE  m \in issued' /\ (p \in Rows(pr)' \/ Gone(m)')
    BY <2>2, <2>4 DEF OnceAt, RowsMapped
  <2>5. RowsMapped(pr, mem[pr].m2p)' /\ RowsMapped(pr, disk[pr].m2p)'
    BY <2>4 DEF RowsMapped
  <2>6. MappedRead(pr)'
    BY <2>1, <2>5 DEF RowsMapped, MappedRead
  <2>7. IndexComplete(pr)' /\ CreatesNew(pr)'
    BY <2>1 DEF IndexComplete, CreatesNew
  <2> QED BY <2>1, <2>3, <2>5, <2>6, <2>7 DEF OnceAt
<1> QED BY <1>1 DEF OnceInv

LEMMA CycleOnce ==
    ASSUME IInv, OnceInv, FetchMasters \/ EndCycle
    PROVE  OnceInv'
<1>1. CASE FetchMasters
  <2>1. Live' /\ \A m \in MasterId : Gone(m) => Gone(m)'
    BY <1>1 DEF FetchMasters, OnceInv, Live, Gone, Dead
  <2>2. \A m \in MasterId : m \in issued => snap'[m] # NoMonitor \/ Dead(m)'
    BY <1>1 DEF FetchMasters, OnceInv, Live, Dead
  <2> QED BY <1>1, <2>1, <2>2, AsleepOnce DEF FetchMasters
<1>2. CASE EndCycle
  <2>1. Live' /\ \A m \in MasterId : Gone(m) => Gone(m)'
    BY <1>2 DEF EndCycle, NoRows, OnceInv, Live, Gone, Dead
  <2> QED BY <1>2, <2>1, AsleepOnce DEF EndCycle
<1> QED BY <1>1, <1>2

LEMMA RestartsOnce ==
    ASSUME IInv, OnceInv, Crash \/ Shutdown \/ \E pr \in Probe : CrashWhileSaving(pr)
    PROVE  OnceInv'
<1>1. PICK files : /\ Restart(files)
                   /\ \A pr \in Probe, m \in MasterId :
                         files[pr].m2p[m] \in {mem[pr].m2p[m], disk[pr].m2p[m], NoId}
  BY RestartedFiles
<1>2. UNCHANGED <<probe, issued, master>>
  BY <1>1 DEF Restart
<1>3. Live' /\ \A m \in MasterId : Gone(m) => Gone(m)'
  BY <1>1 DEF Restart, NoRows, OnceInv, Live, Gone, Dead
<1>4. \A pr \in Probe, m \in MasterId :
         /\ mem'[pr].m2p[m] \in {mem[pr].m2p[m], disk[pr].m2p[m], NoId}
         /\ disk'[pr].m2p[m] \in {mem[pr].m2p[m], disk[pr].m2p[m], NoId}
  BY <1>1 DEF Restart, LoadFromFile
<1> QED BY <1>1, <1>2, <1>3, <1>4, AsleepOnce DEF Restart

\* An operator never gives an id that the master has dropped to a new monitor.
LEMMA OperatorOnce ==
    ASSUME RowsStayWanted, IInv, OnceInv, Operator
    PROVE  OnceInv'
<1>1. UNCHANGED <<probe, mem, disk, snap, cyc>>
  BY DEF Operator, SaveMonitor, DeleteOnMaster
<1>2. Live' /\ \A m \in MasterId : /\ m \in issued => m \in issued'
                                   /\ Dead(m) => Dead(m)'
  <2>1. ASSUME NEW m \in MasterId, NEW c \in Choices[m], SaveMonitor(m, c)
        PROVE  Live' /\ \A x \in MasterId : /\ x \in issued => x \in issued'
                                            /\ Dead(x) => Dead(x)'
    BY <2>1 DEF SaveMonitor, OnceInv, Live, Dead, RowsStayWanted, IInv, TypeOK
  <2>2. ASSUME NEW m \in MasterId, DeleteOnMaster(m)
        PROVE  Live' /\ \A x \in MasterId : /\ x \in issued => x \in issued'
                                            /\ Dead(x) => Dead(x)'
    <3>1. UNCHANGED <<issued, snap>>
      BY <2>2 DEF DeleteOnMaster
    <3>2. ASSUME NEW x \in MasterId
          PROVE  /\ master[x] = NoMonitor => master'[x] = NoMonitor
                 /\ master'[x] # NoMonitor => master'[x].active = master[x].active
      <4>1. CASE x = m \/ master[x] = NoMonitor
        BY <2>2, <4>1 DEF DeleteOnMaster
      <4>2. CASE x # m /\ master[x] # NoMonitor
        <5>1. master[x] \in Config
          BY <4>2 DEF IInv, TypeOK
        <5>2. master'[x] \in {master[x], [master[x] EXCEPT !.parent = NoId]}
          BY <2>2, <4>2 DEF DeleteOnMaster
        <5>3. [master[x] EXCEPT !.parent = NoId].active = master[x].active
          BY <5>1, Zenon DEF Config
        <5> QED BY <4>2, <5>2, <5>3, Zenon
      <4> QED BY <4>1, <4>2
    <3> QED BY <3>1, <3>2 DEF OnceInv, Live, Dead
  <2> QED BY <2>1, <2>2 DEF Operator
<1>3. \A m \in MasterId : Gone(m) => Gone(m)'
  BY <1>1, <1>2 DEF Gone
<1>4. ASSUME NEW pr \in Probe PROVE OnceAt(pr)'
  <2>1. OnceAt(pr) /\ cyc[pr].del \subseteq Delete
    BY GoroutineFacts DEF OnceInv, Goroutine
  <2>2. Rows(pr)' = Rows(pr) /\ Fetched' = Fetched
    BY <1>1 DEF Rows, Fetched
  <2>3. Distinct(pr)' /\ IndexComplete(pr)' /\ CreatesNew(pr)'
    BY <1>1, <2>1, <2>2 DEF OnceAt, Distinct, IndexComplete, CreatesNew, NoRowOf
  <2>4. RowsMapped(pr, mem[pr].m2p)' /\ RowsMapped(pr, disk[pr].m2p)' /\ MappedRead(pr)'
    BY <1>1, <1>2, <1>3, <2>1, <2>2 DEF OnceAt, RowsMapped, MappedRead
  <2>5. \A d \in cyc[pr].del : d.m \in MasterId /\ Gone(d.m)
    BY <2>1 DEF OnceAt, Delete
  <2>6. \A d \in cyc'[pr].del : Gone(d.m)'
    BY <1>1, <1>3, <2>5
  <2> QED BY <2>3, <2>4, <2>6 DEF OnceAt
<1> QED BY <1>2, <1>4 DEF OnceInv

LEMMA InitOnce ==
    ASSUME RowsStayWanted, Init
    PROVE  OnceInv
<1>1. Live
  BY DEF Init, RowsStayWanted, Live, NoRows
<1>2. ASSUME NEW pr \in Probe PROVE OnceAt(pr)
  <2>1. Rows(pr) = {}
    BY DEF Init, Rows
  <2>2. Distinct(pr) /\ MappedRead(pr) /\ IndexComplete(pr)
    BY <2>1 DEF Init, Distinct, MappedRead, IndexComplete, NewIDMapping, Asleep
  <2>3. RowsMapped(pr, mem[pr].m2p) /\ RowsMapped(pr, disk[pr].m2p)
    BY DEF Init, RowsMapped, NewIDMapping, EmptyFile
  <2>4. CreatesNew(pr) /\ cyc[pr].del = {}
    BY <2>1 DEF Init, CreatesNew, NoRowOf, Asleep
  <2> QED BY <2>2, <2>3, <2>4 DEF OnceAt
<1> QED BY <1>1, <1>2 DEF OnceInv

LEMMA NextOnce ==
    ASSUME RowsStayWanted, NamesApart, IInv, OwnInv, OnceInv, [Next]_vars
    PROVE  OnceInv'
<1>0. IInv'
  BY NextIInv
<1>1. ASSUME NEW pr \in Probe, Sync(pr) PROVE OnceInv'
  <2>1. Local(pr)
    BY <1>1, SyncIsLocal
  <2>2. CASE StartProbe(pr)
    BY <1>0, <2>1, <2>2, StartProbeOnce
  <2>3. CASE Plan(pr)
    BY <1>0, <2>1, <2>3, PlanAdoptOnce, PlanQuietOnce, PlanOrphansOnce DEF Plan
  <2>4. CASE Execute(pr)
    BY <1>0, <2>1, <2>4, UpdateOnce, SortCreatesOnce, CreateFailsOnce, SendCreateOnce,
       CreateOnce, DeleteOnce, GoroutineEndsOnce DEF Execute
  <2>5. CASE SaveMapping(pr)
    BY <1>0, <2>1, <2>5, GoroutineEndsOnce
  <2> QED BY <1>1, <2>2, <2>3, <2>4, <2>5 DEF Sync
<1>2. ASSUME NEW pr \in Probe, Lapse(pr) PROVE OnceInv'
  <2>1. Local(pr)
    BY <1>2, LapseIsLocal
  <2>2. \A p \in ProbeId : ~DeleteOnProbe(pr, p)
    BY DEF DeleteOnProbe, Fails, RowsStayWanted
  <2> QED
    BY <1>0, <1>2, <2>1, <2>2, StartFailsOnce, UpdateOnce, CreateOnce, DeleteOnce,
       GoroutineEndsOnce DEF Lapse
<1>3. ASSUME NEW pr \in Probe, Failure(pr) PROVE OnceInv'
  BY <1>2, <1>3, RestartsOnce DEF Failure, Lapse
<1>4. CASE UNCHANGED vars
  BY <1>4 DEF vars, OnceInv, Live, OnceAt, Distinct, RowsMapped, MappedRead, IndexComplete,
     CreatesNew, NoRowOf, Gone, Dead, Rows, Fetched
<1> QED
  BY <1>1, <1>3, <1>4, CycleOnce, RestartsOnce, OperatorOnce DEF Next

\* Adopting by name "prevents creating duplicate monitors on the probe"
\* (reconciler.go:88): no two rows of a probe ever have the same name,
\* whatever answer, mapping file or connection is lost, as long as no row
\* disappears whose monitor is still wanted.
THEOREM NothingDuplicated ==
    ASSUME RowsStayWanted, NamesApart
    PROVE  Spec => []NoDuplicates
<1>1. Init => IInv /\ OwnInv /\ OnceInv
  BY InitIInv, InitOwn, InitOnce
<1>2. IInv /\ OwnInv /\ OnceInv /\ [Next]_vars => IInv' /\ OwnInv' /\ OnceInv'
  BY NextIInv, NextOwn, NextOnce
<1>3. OnceInv => NoDuplicates
  BY DEF OnceInv, OnceAt, Distinct, NoDuplicates
<1> QED BY <1>1, <1>2, <1>3, PTL DEF Spec
=============================================================================
