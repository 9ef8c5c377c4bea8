---------------------------- MODULE MonitorProofs ----------------------------
(***************************************************************************)
(* Theorems about Monitor, for any number of objects, requests, push calls,*)
(* crashes and failures of the database, and any settings: the types, that *)
(* one loop at most checks a monitor, that a stop is final for what is not *)
(* a push monitor; and what a user hears of an outage: it is announced,    *)
(* not before the retries are exhausted, and announced again in time.      *)
(***************************************************************************)
EXTENDS Monitor, TLAPS

\* A beat has a status by the time it is announced.
Made(x) == x.pc \in {"announcing", "storing"} => x.bean.status \in Status
BeansMade == (\A o \in Object : Made(obj[o])) /\ (\A c \in Call : Made(call[c]))

\* What a stop guarantees of an object whose timer is always looked after.
PulledStop(object) == object.stop /\ ~object.cfg.push => object.pc # "armed"
PulledStops == \A o \in Object : PulledStop(obj[o])

IInv == TypeOK /\ BeansMade /\ OneLoop /\ PulledStops

-----------------------------------------------------------------------------
(* Types of what the actions are made of.                                  *)

LEMMA CappedType ==
    ASSUME NEW n \in Nat PROVE Capped(n) \in 0..Saturation
BY MonitorAssumption DEF Capped

LEMMA EmptyTypes ==
    /\ NoBeat \in Stored /\ NoBean \in Bean /\ NoCall \in PushCall /\ NoRequest \in Request
    /\ Made(NoCall)
<1>1. 0 \in 0..Saturation /\ Default \in Settings
  BY MonitorAssumption
<1>2. NoBeat \in Stored /\ NoBean \in Bean
  BY <1>1 DEF Stored, Bean, NoBeat, NoBean, Status
<1> QED BY <1>1, <1>2 DEF NoCall, PushCall, NoRequest, Request, Made

Inactive == {"ended", "found", "starting"}

\* A new object is well typed and has no timer.
LEMMA NewObjectType ==
    ASSUME NEW pc \in Inactive, NEW cfg \in Settings
    PROVE  /\ NewObject(pc, cfg) \in MonitorObject
           /\ Made(NewObject(pc, cfg)) /\ PulledStop(NewObject(pc, cfg))
<1>1. 0 \in 0..Saturation
  BY MonitorAssumption
<1> QED BY <1>1, EmptyTypes DEF NewObject, MonitorObject, Inactive, Made, PulledStop

LEMMA EndedType ==
    Ended \in MonitorObject /\ Ended.stop /\ Made(Ended) /\ PulledStop(Ended)
<1>1. NewObject("ended", Default) \in MonitorObject
  BY NewObjectType, MonitorAssumption DEF Inactive
<1> QED BY <1>1 DEF Ended, NewObject, MonitorObject, Made, PulledStop

LEMMA CheckResultType ==
    ASSUME NEW c \in Config, NEW o \in Outcome, NEW n \in Nat
    PROVE  CheckResult(c, o, n).status \in Status /\ CheckResult(c, o, n).retries \in Nat
<1>1. Reported(o) \in Status
  BY DEF Reported, Outcome, Status
<1>2. flipStatus(Reported(o)) \in Status
  BY <1>1 DEF flipStatus, Status
<1>3. CASE ~IsError(c, o)
  <2>1. ~IsFailure(c, o)
    BY <1>3 DEF IsFailure
  <2> QED BY <1>1, <1>2, <1>3, <2>1 DEF CheckResult
<1>4. CASE IsError(c, o) /\ IsFailure(c, o)
  BY <1>4 DEF CheckResult, Status
<1>5. CASE IsError(c, o) /\ ~IsFailure(c, o)
  BY <1>5 DEF CheckResult, StatusAtError, Status
<1> QED BY <1>3, <1>4, <1>5

LEMMA PushResultType ==
    ASSUME NEW c \in Config, NEW s \in {UP, DOWN}, NEW prev \in Stored
    PROVE  PushResult(c, s, prev).status \in Status /\ PushResult(c, s, prev).retries \in Nat
<1>1. prev.retries \in Nat
  BY MonitorAssumption DEF Stored
<1> QED BY <1>1 DEF PushResult, Status

LEMMA AnnouncementType ==
    ASSUME NEW c \in Config, NEW prev \in Stored, NEW s \in Status, NEW reset \in BOOLEAN
    PROVE  /\ Announcement(c, prev, s, reset).sent \in BOOLEAN
           /\ Announcement(c, prev, s, reset).downCount \in Nat
<1>1. prev.downCount \in Nat
  BY MonitorAssumption DEF Stored
<1>2. CASE reset
  BY <1>2 DEF Announcement, Sends, isImportantForNotification
<1>3. CASE ~reset
  BY <1>1, <1>3 DEF Announcement, Counts
<1> QED BY <1>2, <1>3

\* What is stored of a beat that was made.
LEMMA RowType ==
    ASSUME NEW bean \in Bean, bean.status \in Status
    PROVE  Row(bean) \in Stored
BY DEF Row, Stored, Bean, Status, UP, DOWN, PENDING, MAINTENANCE

LEMMA NextCheckType ==
    ASSUME NEW object \in MonitorObject
    PROVE  /\ NextCheck(object) \in MonitorObject
           /\ Made(NextCheck(object)) /\ PulledStop(NextCheck(object))
           /\ ~NextCheck(object).stop => ~object.stop
<1>1. CASE object.stop
  BY <1>1, EndedType DEF NextCheck
<1>2. CASE ~object.stop
  BY <1>2, EmptyTypes DEF NextCheck, MonitorObject, Made, PulledStop
<1> QED BY <1>1, <1>2

LEMMA StoppedType ==
    ASSUME NEW object \in MonitorObject, Made(object), PulledStop(object)
    PROVE  /\ Stopped(object) \in MonitorObject /\ Stopped(object).stop
           /\ Made(Stopped(object)) /\ PulledStop(Stopped(object))
<1>1. CASE object.pc \in {"armed", "ended"}
  BY <1>1, EndedType DEF Stopped
<1>2. CASE object.pc \notin {"armed", "ended"}
  BY <1>2 DEF Stopped, MonitorObject, Made, PulledStop
<1> QED BY <1>1, <1>2

-----------------------------------------------------------------------------
(* What the actions do to the objects and to the calls.                    *)

ObjectsOK == /\ obj \in [Object -> MonitorObject]
             /\ \A o \in Object : Made(obj[o]) /\ PulledStop(obj[o])
             /\ OneLoop

CallsOK == call \in [Call -> PushCall] /\ \A c \in Call : Made(call[c])

RestOK == /\ row \in [exists : BOOLEAN, active : BOOLEAN, cfg : Settings]
          /\ list \in Object \cup {NoObject}
          /\ req \in [Socket -> Request]
          /\ earlier \in [Writer -> SUBSET Writer]
          /\ newest \in Stored /\ latest \in Stored
          /\ requests \in Nat /\ faults \in Nat
          /\ failures \in 0..Saturation /\ unheard \in 0..Saturation
          /\ heard \in BOOLEAN /\ forked \in BOOLEAN
          /\ lost \in SUBSET Object

\* An object that nothing runs for, or that no stop can find.
Quiet(o) == obj[o].stop \/ obj[o].pc \in {"ended", "found"} \/ o \in lost

LEMMA QuietBesides == OneLoop <=> \A o \in Object : o # list => Quiet(o)
BY DEF OneLoop, Running, Quiet

LEMMA Parts == IInv <=> ObjectsOK /\ CallsOK /\ RestOK
BY DEF IInv, TypeOK, BeansMade, PulledStops, ObjectsOK, CallsOK, RestOK

LEMMA PartsNext == ASSUME ObjectsOK', CallsOK', RestOK' PROVE IInv'
BY DEF IInv, TypeOK, BeansMade, PulledStops, ObjectsOK, CallsOK, RestOK

\* One object takes a step, and does not come to life by it.
LEMMA OneObjectMoves ==
    ASSUME ObjectsOK, NEW o \in Object, NEW x \in MonitorObject,
           Made(x), PulledStop(x), ~x.stop => obj[o].pc \notin {"ended", "found"} /\ ~obj[o].stop,
           obj' = [obj EXCEPT ![o] = x], list' = list, lost' = lost
    PROVE  ObjectsOK'
<1>1. obj' \in [Object -> MonitorObject]
  BY DEF ObjectsOK
<1>2. \A y \in Object : obj'[y] = IF y = o THEN x ELSE obj[y]
  BY DEF ObjectsOK
<1>3. \A y \in Object : Made(obj'[y]) /\ PulledStop(obj'[y])
  BY <1>2 DEF ObjectsOK
<1>4. OneLoop'
  BY <1>2 DEF ObjectsOK, OneLoop, Running
<1> QED BY <1>1, <1>3, <1>4 DEF ObjectsOK, OneLoop, Running, Made, PulledStop

LEMMA ObjectsUnchanged ==
    ASSUME ObjectsOK, obj' = obj, list' = list, lost' = lost PROVE ObjectsOK'
BY DEF ObjectsOK, OneLoop, Running, Made, PulledStop

\* Every object stays where it is; only what it remembers of beats changes.
LEMMA ObjectsRemember ==
    ASSUME ObjectsOK, obj' \in [Object -> MonitorObject], list' = list, lost' = lost,
           \A o \in Object : /\ obj'[o].pc = obj[o].pc /\ obj'[o].stop = obj[o].stop
                             /\ obj'[o].cfg = obj[o].cfg
                             /\ obj'[o].bean.status = obj[o].bean.status
    PROVE  ObjectsOK'
BY DEF ObjectsOK, OneLoop, Running, Made, PulledStop

LEMMA OneCallMoves ==
    ASSUME CallsOK, NEW c \in Call, NEW x \in PushCall, Made(x),
           call' = [call EXCEPT ![c] = x]
    PROVE  CallsOK'
<1>1. call' \in [Call -> PushCall]
  BY DEF CallsOK
<1>2. \A y \in Call : call'[y] = IF y = c THEN x ELSE call[y]
  BY DEF CallsOK
<1>3. \A y \in Call : Made(call'[y])
  BY <1>2 DEF CallsOK
<1> QED BY <1>1, <1>3 DEF CallsOK, Made

LEMMA CallsUnchanged ==
    ASSUME CallsOK, call' = call PROVE CallsOK'
BY DEF CallsOK, Made

\* What the others remember when w is stored, or the table emptied.
LEMMA SupersededObject ==
    ASSUME NEW x \in MonitorObject, NEW late \in BOOLEAN,
           NEW y, y = [x EXCEPT !.follows = FALSE, !.bean.late = late]
    PROVE  /\ y \in MonitorObject /\ y.pc = x.pc /\ y.stop = x.stop /\ y.cfg = x.cfg
           /\ y.bean.status = x.bean.status
BY DEF MonitorObject, Bean

LEMMA SupersededCall ==
    ASSUME NEW x \in PushCall, NEW late \in BOOLEAN,
           NEW y, y = [x EXCEPT !.follows = FALSE, !.bean.late = late]
    PROVE  y \in PushCall /\ y.pc = x.pc /\ y.bean.status = x.bean.status
BY DEF PushCall, Bean

LEMMA SupersededObjects ==
    ASSUME ObjectsOK, NEW w
    PROVE  LET f == Superseded(obj, w)
           IN  /\ f \in [Object -> MonitorObject]
               /\ \A o \in Object : /\ f[o].pc = obj[o].pc /\ f[o].stop = obj[o].stop
                                    /\ f[o].cfg = obj[o].cfg
                                    /\ f[o].bean.status = obj[o].bean.status
<1> DEFINE f == Superseded(obj, w)
           late(o) == obj[o].bean.late \/ o \in earlier[w]
<1>1. f = [o \in Object |-> [obj[o] EXCEPT !.follows = FALSE, !.bean.late = late(o)]]
  BY DEF Superseded, ObjectsOK
<1>2. ASSUME NEW o \in Object
      PROVE  /\ f[o] \in MonitorObject /\ f[o].pc = obj[o].pc /\ f[o].stop = obj[o].stop
             /\ f[o].cfg = obj[o].cfg /\ f[o].bean.status = obj[o].bean.status
  <2>1. obj[o] \in MonitorObject /\ late(o) \in BOOLEAN
    BY Zenon DEF ObjectsOK
  <2>2. f[o] = [obj[o] EXCEPT !.follows = FALSE, !.bean.late = late(o)]
    BY <1>1
  <2> HIDE DEF f, late
  <2>3. PICK l \in BOOLEAN : l = late(o)
    BY <2>1
  <2>4. f[o] = [obj[o] EXCEPT !.follows = FALSE, !.bean.late = l]
    BY <2>2, <2>3
  <2>5. PICK x \in MonitorObject : x = obj[o]
    BY <2>1
  <2>6. PICK y : y = [x EXCEPT !.follows = FALSE, !.bean.late = l]
    OBVIOUS
  <2>7. f[o] = y
    BY <2>4, <2>5, <2>6
  <2>8. /\ y \in MonitorObject /\ y.pc = x.pc /\ y.stop = x.stop /\ y.cfg = x.cfg
        /\ y.bean.status = x.bean.status
    BY <2>6, SupersededObject
  <2> QED BY <2>5, <2>7, <2>8
<1> HIDE DEF f, late
<1> QED BY <1>1, <1>2 DEF f

LEMMA SupersededCalls ==
    ASSUME CallsOK, NEW w
    PROVE  LET g == Superseded(call, w)
           IN  g \in [Call -> PushCall] /\ \A c \in Call : Made(g[c])
<1> DEFINE g == Superseded(call, w)
           late(c) == call[c].bean.late \/ c \in earlier[w]
<1>1. g = [c \in Call |-> [call[c] EXCEPT !.follows = FALSE, !.bean.late = late(c)]]
  BY DEF Superseded, CallsOK
<1>2. ASSUME NEW c \in Call PROVE g[c] \in PushCall /\ Made(g[c])
  <2>1. call[c] \in PushCall /\ Made(call[c]) /\ late(c) \in BOOLEAN
    BY Zenon DEF CallsOK
  <2>2. g[c] = [call[c] EXCEPT !.follows = FALSE, !.bean.late = late(c)]
    BY <1>1
  <2> HIDE DEF g, late
  <2>3. PICK l \in BOOLEAN : l = late(c)
    BY <2>1
  <2>4. g[c] = [call[c] EXCEPT !.follows = FALSE, !.bean.late = l]
    BY <2>2, <2>3
  <2>5. PICK x \in PushCall : x = call[c]
    BY <2>1
  <2>6. PICK y : y = [x EXCEPT !.follows = FALSE, !.bean.late = l]
    OBVIOUS
  <2>7. g[c] = y
    BY <2>4, <2>5, <2>6
  <2>8. y \in PushCall /\ y.pc = x.pc /\ y.bean.status = x.bean.status
    BY <2>6, SupersededCall
  <2> QED BY <2>1, <2>5, <2>7, <2>8 DEF Made
<1> HIDE DEF g, late
<1> QED BY <1>1, <1>2 DEF g

\* The table is emptied.
LEMMA EmptyTableOK ==
    ASSUME ObjectsOK, CallsOK, EmptyTable, list' = list, lost' = lost
    PROVE  ObjectsOK' /\ CallsOK' /\ newest' \in Stored /\ latest' \in Stored
<1>1. /\ obj' = [o \in Object |-> [obj[o] EXCEPT !.follows = FALSE, !.bean.late = FALSE]]
      /\ call' = [c \in Call |-> [call[c] EXCEPT !.follows = FALSE, !.bean.late = FALSE]]
  BY DEF EmptyTable, Forgotten, ObjectsOK, CallsOK
<1>2. ASSUME NEW o \in Object
      PROVE  /\ obj'[o] \in MonitorObject /\ obj'[o].pc = obj[o].pc /\ obj'[o].stop = obj[o].stop
             /\ obj'[o].cfg = obj[o].cfg /\ obj'[o].bean.status = obj[o].bean.status
  <2>1. obj[o] \in MonitorObject /\ obj'[o] = [obj[o] EXCEPT !.follows = FALSE, !.bean.late = FALSE]
    BY <1>1 DEF ObjectsOK
  <2> QED BY <2>1, SupersededObject
<1>3. ASSUME NEW c \in Call PROVE call'[c] \in PushCall /\ Made(call'[c])
  <2>1. /\ call[c] \in PushCall /\ Made(call[c])
        /\ call'[c] = [call[c] EXCEPT !.follows = FALSE, !.bean.late = FALSE]
    BY <1>1 DEF CallsOK
  <2> QED BY <2>1, SupersededCall DEF Made
<1>4. ObjectsOK'
  BY <1>1, <1>2, ObjectsRemember
<1>5. CallsOK'
  BY <1>1, <1>3 DEF CallsOK, Made
<1> QED BY <1>4, <1>5, EmptyTypes DEF EmptyTable

-----------------------------------------------------------------------------
(* The rest of the state.                                                  *)

LEMMA InitIInv == Init => IInv
<1> SUFFICES ASSUME Init PROVE IInv
  OBVIOUS
<1>1. row \in [exists : BOOLEAN, active : BOOLEAN, cfg : Settings] /\ row.cfg \in Settings
  BY DEF Init
<1> DEFINE new == NewObject("found", row.cfg)
<1>2. /\ new \in MonitorObject /\ Made(new) /\ PulledStop(new) /\ new.pc = "found"
  BY <1>1, NewObjectType DEF Inactive, NewObject
<1>3. \A o \in Object : obj[o] \in {Ended, new}
  BY <1>1 DEF Init
<1>4. ObjectsOK
  <2>1. \A o \in Object : obj[o] \in MonitorObject /\ Made(obj[o]) /\ PulledStop(obj[o])
    BY <1>2, <1>3, EndedType
  <2>2. OneLoop
    BY <1>2, <1>3, EndedType DEF OneLoop, Running
  <2>3. obj \in [Object -> MonitorObject]
    BY <1>2, EndedType DEF Init
  <2> QED BY <2>1, <2>2, <2>3 DEF ObjectsOK
<1>5. CallsOK
  BY EmptyTypes DEF Init, CallsOK
<1>6. TypeOK
  <2>1. 0 \in 0..Saturation
    BY MonitorAssumption
  <2> QED BY <1>1, <1>4, <1>5, <2>1, EmptyTypes DEF Init, TypeOK, ObjectsOK, CallsOK
<1> QED BY <1>4, <1>5, <1>6, Parts DEF TypeOK, RestOK

LEMMA BeginWritingType ==
    ASSUME TypeOK, NEW w \in Writer, BeginWriting(w)
    PROVE  earlier' \in [Writer -> SUBSET Writer]
BY DEF TypeOK, BeginWriting, UnderWay, Writer

LEMMA EndWritingType ==
    ASSUME TypeOK, NEW w \in Writer, EndWriting(w)
    PROVE  earlier' \in [Writer -> SUBSET Writer]
BY DEF TypeOK, EndWriting

LEMMA GotoType ==
    ASSUME TypeOK, NEW r \in Socket, NEW pc, Goto(r, pc),
           pc \in {"none", "save", "activate", "start", "deactivate", "stop", "unlist",
                   "remove", "clear"}
    PROVE  req' \in [Socket -> Request]
<1> DEFINE x == IF pc = "none" THEN NoRequest ELSE [req[r] EXCEPT !.pc = pc]
<1>1. x \in Request
  BY EmptyTypes DEF TypeOK, Request
<1>2. req' = [req EXCEPT ![r] = x]
  BY DEF Goto
<1> HIDE DEF x
<1> QED BY <1>1, <1>2 DEF TypeOK

LEMMA StoreType ==
    ASSUME TypeOK, NEW bean \in Bean, bean.status \in Status, NEW follows \in BOOLEAN,
           Store(bean, follows)
    PROVE  /\ newest' \in Stored /\ latest' \in Stored
           /\ failures' \in 0..Saturation /\ unheard' \in 0..Saturation
           /\ heard' \in BOOLEAN /\ forked' \in BOOLEAN
<1>1. Row(bean) \in Stored
  BY RowType
<1>2. newest' \in Stored /\ latest' \in Stored
  BY <1>1 DEF Store, TypeOK
<1>3. 0 \in 0..Saturation /\ unheard + 1 \in Nat
  BY MonitorAssumption DEF TypeOK
<1>4. failures' \in 0..Saturation /\ unheard' \in 0..Saturation
  BY <1>3, CappedType DEF Store, TypeOK
<1>5. heard' \in BOOLEAN /\ forked' \in BOOLEAN
  BY DEF Store, TypeOK
<1> QED BY <1>2, <1>4, <1>5

\* failures' after a check or a push.
LEMMA FailuresType ==
    ASSUME TypeOK
    PROVE  Capped(failures + 1) \in 0..Saturation /\ Saturation \in 0..Saturation
<1>1. failures + 1 \in Nat
  BY MonitorAssumption DEF TypeOK
<1> QED BY <1>1, CappedType, MonitorAssumption

LEMMA ObjectFacts ==
    ASSUME IInv, NEW o \in Object
    PROVE  /\ ObjectsOK /\ CallsOK /\ RestOK /\ TypeOK
           /\ obj[o] \in MonitorObject /\ Made(obj[o]) /\ PulledStop(obj[o])
           /\ obj[o].cfg \in Config /\ o \in Writer
BY Parts, MonitorAssumption DEF IInv, ObjectsOK, MonitorObject, Writer

LEMMA CallFacts ==
    ASSUME IInv, NEW c \in Call
    PROVE  /\ ObjectsOK /\ CallsOK /\ RestOK /\ TypeOK
           /\ call[c] \in PushCall /\ Made(call[c])
           /\ call[c].cfg \in Config /\ c \in Writer
BY Parts, MonitorAssumption DEF IInv, CallsOK, PushCall, Writer

-----------------------------------------------------------------------------
(* The steps of an object.                                                 *)

LEMMA StartListedIInv ==
    ASSUME IInv, NEW o \in Object, StartListed(o) PROVE IInv'
<1> DEFINE x == [obj[o] EXCEPT !.pc = "starting"]
<1>1. x \in MonitorObject /\ Made(x) /\ PulledStop(x)
  BY ObjectFacts DEF MonitorObject, Made, PulledStop
<1>2. ObjectsOK'
  BY <1>1, ObjectFacts, OneObjectMoves DEF StartListed, MonitorObject, seen
<1>r. RestOK'
  BY ObjectFacts DEF StartListed, RestOK, tables, seen
<1> QED BY <1>2, <1>r, ObjectFacts, CallsUnchanged, PartsNext DEF StartListed

LEMMA StartDelayedIInv ==
    ASSUME IInv, NEW o \in Object, StartDelayed(o) PROVE IInv'
<1> DEFINE x == [obj[o] EXCEPT !.pc = "delay"]
<1>1. x \in MonitorObject /\ Made(x) /\ PulledStop(x)
  BY ObjectFacts DEF MonitorObject, Made, PulledStop
<1>2. ObjectsOK'
  BY <1>1, ObjectFacts, OneObjectMoves DEF StartDelayed, MonitorObject, seen
<1>r. RestOK'
  BY ObjectFacts DEF StartDelayed, RestOK, tables, seen
<1> QED BY <1>2, <1>r, ObjectFacts, CallsUnchanged, PartsNext DEF StartDelayed

LEMMA BeginBeatIInv ==
    ASSUME IInv, NEW o \in Object, BeginBeat(o) PROVE IInv'
<1> DEFINE reads == obj[o].prev = NoBeat \/ obj[o].cfg.push
           found == reads /\ newest # NoBeat
           prev == IF reads THEN newest ELSE obj[o].prev
           follows == reads \/ obj[o].follows
           retries == IF found THEN newest.retries ELSE obj[o].retries
           x == [obj[o] EXCEPT !.pc = "checking", !.prev = prev,
                               !.follows = follows, !.retries = retries]
<1>1. obj[o] \in MonitorObject /\ newest \in Stored
  BY ObjectFacts DEF TypeOK
<1>2. prev \in Stored /\ follows \in BOOLEAN /\ retries \in 0..Saturation
  <2>1. follows \in BOOLEAN
    BY Zenon DEF follows
  <2> QED BY <1>1, <2>1 DEF MonitorObject, Stored
<1>3. obj' = [obj EXCEPT ![o] = x]
  BY ObjectFacts DEF BeginBeat, ObjectsOK
<1> HIDE DEF prev, follows, retries
<1>4. x \in MonitorObject /\ Made(x) /\ PulledStop(x) /\ x.stop = obj[o].stop
  BY <1>1, <1>2 DEF MonitorObject, Made, PulledStop
<1>5. obj[o].pc \notin {"ended", "found"} /\ lost' = lost
  BY DEF BeginBeat, seen
<1> HIDE DEF x
<1>6. ObjectsOK'
  BY <1>3, <1>4, <1>5, ObjectFacts, OneObjectMoves DEF BeginBeat
<1>7. earlier' \in [Writer -> SUBSET Writer]
  BY ObjectFacts, BeginWritingType DEF BeginBeat
<1>r. RestOK'
  BY <1>7, ObjectFacts DEF BeginBeat, RestOK, tables, seen
<1> QED BY <1>6, <1>r, ObjectFacts, CallsUnchanged, PartsNext DEF BeginBeat

LEMMA CheckIInv ==
    ASSUME IInv, NEW o \in Object, Check(o) PROVE IInv'
<1>1. PICK outcome \in Meets(o) :
         LET result == CheckResult(obj[o].cfg, outcome, obj[o].retries)
         IN  /\ obj' = [obj EXCEPT
                   ![o].pc = "announcing",
                   ![o].retries = Capped(result.retries),
                   ![o].bean = [@ EXCEPT !.status = result.status,
                                         !.retries = Capped(result.retries)]]
             /\ failures' = Failed(IsFailure(obj[o].cfg, outcome), result.status)
  BY DEF Check
<1> DEFINE status == CheckResult(obj[o].cfg, outcome, obj[o].retries).status
           count == Capped(CheckResult(obj[o].cfg, outcome, obj[o].retries).retries)
           x == [obj[o] EXCEPT !.pc = "announcing", !.retries = count,
                               !.bean = [@ EXCEPT !.status = status, !.retries = count]]
<1>2. obj[o] \in MonitorObject /\ obj[o].cfg \in Config /\ obj[o].retries \in Nat
  BY ObjectFacts, MonitorAssumption DEF MonitorObject
<1>3. outcome \in Outcome
  BY MonitorAssumption DEF Meets
<1>4. status \in Status /\ count \in 0..Saturation
  BY <1>2, <1>3, CheckResultType, CappedType
<1>5. obj' = [obj EXCEPT ![o] = x]
  BY <1>1, ObjectFacts DEF ObjectsOK
<1>6. failures' \in 0..Saturation
  <2>1. failures \in 0..Saturation
    BY ObjectFacts DEF TypeOK
  <2>2. failures' \in {Capped(failures + 1), Saturation, failures}
    BY <1>1 DEF Failed
  <2> QED BY <2>1, <2>2, FailuresType, ObjectFacts
<1> HIDE DEF status, count
<1>7. x \in MonitorObject /\ Made(x) /\ PulledStop(x) /\ x.stop = obj[o].stop
  BY <1>2, <1>4 DEF MonitorObject, Bean, Made, PulledStop
<1>8. obj[o].pc # "ended"
  BY DEF Check
<1> HIDE DEF x
<1>9. ObjectsOK'
  BY <1>5, <1>7, <1>8, ObjectFacts, OneObjectMoves DEF Check
<1>r. RestOK'
  BY <1>6, ObjectFacts DEF Check, RestOK, tables, seen
<1> QED BY <1>9, <1>r, ObjectFacts, CallsUnchanged, PartsNext DEF Check

LEMMA PushInTimeIInv ==
    ASSUME IInv, NEW o \in Object, PushInTime(o) PROVE IInv'
<1> DEFINE x == [obj[o] EXCEPT !.pc = "armed", !.retries = 0, !.bean = NoBean]
<1>1. obj' = [obj EXCEPT ![o] = x]
  BY ObjectFacts DEF PushInTime, ObjectsOK
<1>2. 0 \in 0..Saturation
  BY MonitorAssumption
<1>3. x \in MonitorObject /\ Made(x) /\ PulledStop(x) /\ x.stop = obj[o].stop
  BY <1>2, EmptyTypes, ObjectFacts DEF MonitorObject, Made, PulledStop, PushInTime
<1>4. obj[o].pc # "ended"
  BY DEF PushInTime
<1> HIDE DEF x
<1>5. ObjectsOK'
  BY <1>1, <1>3, <1>4, ObjectFacts, OneObjectMoves DEF PushInTime, seen
<1>6. earlier' \in [Writer -> SUBSET Writer]
  BY ObjectFacts, EndWritingType DEF PushInTime
<1>r. RestOK'
  BY <1>6, ObjectFacts DEF PushInTime, RestOK, tables, seen
<1> QED BY <1>5, <1>r, ObjectFacts, CallsUnchanged, PartsNext DEF PushInTime

LEMMA SendNotificationIInv ==
    ASSUME IInv, NEW o \in Object, SendNotification(o) PROVE IInv'
<1> DEFINE status == obj[o].bean.status
           a == Announcement(obj[o].cfg, obj[o].prev, status,
                             isImportantBeat(obj[o].prev, status))
           count == Capped(a.downCount)
           sent == a.sent
           x == [obj[o] EXCEPT !.pc = "storing", !.bean.downCount = count, !.bean.told = sent]
<1>1. /\ obj[o] \in MonitorObject /\ obj[o].cfg \in Config /\ obj[o].prev \in Stored
      /\ status \in Status
  BY ObjectFacts DEF MonitorObject, Made, SendNotification
<1>2. isImportantBeat(obj[o].prev, status) \in BOOLEAN
  BY DEF isImportantBeat, isImportantForNotification
<1>3. sent \in BOOLEAN /\ count \in 0..Saturation
  <2>1. a.sent \in BOOLEAN /\ a.downCount \in Nat
    BY <1>1, <1>2, AnnouncementType
  <2> QED BY <2>1, CappedType
<1>4. obj' = [obj EXCEPT ![o] = x]
  BY ObjectFacts DEF SendNotification, ObjectsOK
<1>5. heard' \in BOOLEAN
  BY DEF SendNotification, Announce
<1> HIDE DEF count, sent
<1>6. x \in MonitorObject /\ Made(x) /\ PulledStop(x) /\ x.stop = obj[o].stop
  BY <1>1, <1>3 DEF MonitorObject, Bean, Made, PulledStop
<1>7. obj[o].pc # "ended"
  BY DEF SendNotification
<1> HIDE DEF x
<1>8. ObjectsOK'
  BY <1>4, <1>6, <1>7, ObjectFacts, OneObjectMoves DEF SendNotification
<1>r. RestOK'
  BY <1>5, ObjectFacts DEF SendNotification, RestOK, tables, seen
<1> QED BY <1>8, <1>r, ObjectFacts, CallsUnchanged, PartsNext DEF SendNotification

LEMMA StoreBeatIInv ==
    ASSUME IInv, NEW o \in Object, StoreBeat(o) PROVE IInv'
<1> DEFINE object == [obj[o] EXCEPT !.prev = Row(obj[o].bean), !.follows = TRUE]
           others == Superseded(obj, o)
           x == NextCheck(object)
<1>1. /\ obj[o] \in MonitorObject /\ obj[o].bean \in Bean /\ obj[o].bean.status \in Status
      /\ obj[o].follows \in BOOLEAN
  BY ObjectFacts DEF MonitorObject, Made, StoreBeat
<1>2. object \in MonitorObject /\ object.stop = obj[o].stop
  BY <1>1, RowType DEF MonitorObject
<1>3. x \in MonitorObject /\ Made(x) /\ PulledStop(x) /\ (~x.stop => ~obj[o].stop)
  BY <1>2, NextCheckType
<1>4. /\ others \in [Object -> MonitorObject]
      /\ \A y \in Object : /\ others[y].pc = obj[y].pc /\ others[y].stop = obj[y].stop
                           /\ others[y].cfg = obj[y].cfg
                           /\ others[y].bean.status = obj[y].bean.status
  BY ObjectFacts, SupersededObjects
<1>5. /\ obj' = [others EXCEPT ![o] = x] /\ list' = list /\ lost' = lost
      /\ obj[o].pc \notin {"ended", "found"}
  BY DEF StoreBeat, Store
<1> HIDE DEF x, others
<1>6. ObjectsOK'
  <2>1. obj' \in [Object -> MonitorObject]
    BY <1>3, <1>4, <1>5
  <2>2. \A y \in Object : obj'[y] = IF y = o THEN x ELSE others[y]
    BY <1>4, <1>5
  <2>3. \A y \in Object : Made(obj'[y]) /\ PulledStop(obj'[y])
    BY <1>3, <1>4, <2>2, ObjectFacts DEF Made, PulledStop
  <2>4. OneLoop'
    BY <1>3, <1>4, <1>5, <2>2, ObjectFacts DEF ObjectsOK, OneLoop, Running
  <2> QED BY <2>1, <2>3, <2>4 DEF ObjectsOK, Made, PulledStop
<1>7. CallsOK'
  BY ObjectFacts, SupersededCalls DEF StoreBeat, CallsOK, Made
<1>8. earlier' \in [Writer -> SUBSET Writer]
  BY ObjectFacts, EndWritingType DEF StoreBeat
<1>9. /\ newest' \in Stored /\ latest' \in Stored
      /\ failures' \in 0..Saturation /\ unheard' \in 0..Saturation
      /\ heard' \in BOOLEAN /\ forked' \in BOOLEAN
  BY <1>1, ObjectFacts, StoreType DEF StoreBeat
<1>r. RestOK'
  BY <1>7, <1>8, <1>9, ObjectFacts DEF StoreBeat, Store, RestOK, tables, seen
<1> QED BY <1>6, <1>7, <1>r, ObjectFacts, PartsNext DEF StoreBeat

\* BeatThrows and BeatRefused: the object is armed again, or ends.
LEMMA NextCheckOK ==
    ASSUME IInv, NEW o \in Object, obj[o].pc \notin {"ended", "found"},
           list' = list, lost' = lost,
           obj' = [obj EXCEPT ![o] = NextCheck(@)]
    PROVE  ObjectsOK'
<1> DEFINE x == NextCheck(obj[o])
<1>1. x \in MonitorObject /\ Made(x) /\ PulledStop(x) /\ (~x.stop => ~obj[o].stop)
  BY ObjectFacts, NextCheckType
<1>2. obj' = [obj EXCEPT ![o] = x]
  OBVIOUS
<1> HIDE DEF x
<1> QED BY <1>1, <1>2, ObjectFacts, OneObjectMoves

LEMMA BeatThrowsIInv ==
    ASSUME IInv, NEW o \in Object, BeatThrows(o) PROVE IInv'
<1>1. ObjectsOK'
  BY NextCheckOK DEF BeatThrows, seen
<1>2. earlier' \in [Writer -> SUBSET Writer]
  BY ObjectFacts, EndWritingType DEF BeatThrows
<1>r. RestOK'
  BY <1>2, ObjectFacts DEF BeatThrows, Fault, RestOK, tables, seen
<1> QED BY <1>1, <1>r, ObjectFacts, CallsUnchanged, PartsNext DEF BeatThrows

LEMMA BeatRefusedIInv ==
    ASSUME IInv, NEW o \in Object, BeatRefused(o) PROVE IInv'
<1>1. ObjectsOK'
  BY NextCheckOK DEF BeatRefused, seen
<1>2. earlier' \in [Writer -> SUBSET Writer]
  BY ObjectFacts, EndWritingType DEF BeatRefused
<1>r. RestOK'
  BY <1>2, ObjectFacts DEF BeatRefused, RestOK, tables, seen
<1> QED BY <1>1, <1>r, ObjectFacts, CallsUnchanged, PartsNext DEF BeatRefused

-----------------------------------------------------------------------------
(* The steps of a push call.                                               *)

LEMMA PushBeginIInv ==
    ASSUME IInv, NEW c \in Call, PushBegin(c) PROVE IInv'
<1> DEFINE x == [pc |-> "deciding", cfg |-> row.cfg, prev |-> latest,
                 follows |-> TRUE, bean |-> NoBean]
<1>1. x \in PushCall /\ Made(x)
  BY CallFacts, EmptyTypes DEF RestOK, PushCall, Made
<1>2. CallsOK'
  BY <1>1, CallFacts, OneCallMoves DEF PushBegin
<1>3. earlier' \in [Writer -> SUBSET Writer]
  BY CallFacts, BeginWritingType DEF PushBegin
<1>r. RestOK'
  BY <1>3, CallFacts DEF PushBegin, RestOK, tables, seen
<1> QED BY <1>2, <1>r, CallFacts, ObjectsUnchanged, PartsNext DEF PushBegin, seen

\* PushSays and PushInMaintenance, up to the failures they count.
LEMMA PushDecidesOK ==
    ASSUME IInv, NEW c \in Call, NEW status \in Status, NEW retries \in Nat,
           PushDecides(c, status, retries)
    PROVE  CallsOK' /\ heard' \in BOOLEAN
<1> DEFINE a == Announcement(call[c].cfg, call[c].prev, status,
                             isImportantForNotification(call[c].prev, status))
           count == Capped(a.downCount)
           again == Capped(retries)
           sent == a.sent
           x == [call[c] EXCEPT !.pc = "storing",
                                !.bean = [@ EXCEPT !.status = status, !.retries = again,
                                                   !.downCount = count, !.told = sent]]
<1>1. call[c] \in PushCall /\ call[c].cfg \in Config /\ call[c].prev \in Stored
  BY CallFacts DEF PushCall
<1>2. isImportantForNotification(call[c].prev, status) \in BOOLEAN
  BY DEF isImportantForNotification
<1>3. sent \in BOOLEAN /\ count \in 0..Saturation /\ again \in 0..Saturation
  <2>1. a.sent \in BOOLEAN /\ a.downCount \in Nat
    BY <1>1, <1>2, AnnouncementType
  <2> QED BY <2>1, CappedType
<1>4. call' = [call EXCEPT ![c] = x]
  BY CallFacts DEF PushDecides, CallsOK
<1>5. heard' \in BOOLEAN
  BY DEF PushDecides, Announce
<1> HIDE DEF count, sent, again
<1>6. x \in PushCall /\ Made(x)
  BY <1>1, <1>3 DEF PushCall, Bean, Made
<1> HIDE DEF x
<1> QED BY <1>4, <1>5, <1>6, CallFacts, OneCallMoves

LEMMA PushSaysIInv ==
    ASSUME IInv, NEW c \in Call, PushSays(c) PROVE IInv'
<1>1. PICK s \in {UP, DOWN} :
        LET result == PushResult(call[c].cfg, s, call[c].prev)
        IN  /\ PushDecides(c, result.status, result.retries)
            /\ failures' = Failed(result.retries > 0, result.status)
  BY DEF PushSays
<1> DEFINE status == PushResult(call[c].cfg, s, call[c].prev).status
           retries == PushResult(call[c].cfg, s, call[c].prev).retries
<1>2. status \in Status /\ retries \in Nat
  BY CallFacts, PushResultType DEF PushCall
<1>3. PushDecides(c, status, retries)
  BY <1>1
<1>4. failures' \in 0..Saturation
  <2>1. failures' \in {Capped(failures + 1), Saturation, failures}
    BY <1>1 DEF Failed
  <2> QED BY <2>1, FailuresType, CallFacts DEF RestOK
<1> HIDE DEF status, retries
<1>5. CallsOK' /\ heard' \in BOOLEAN
  BY <1>2, <1>3, PushDecidesOK
<1>r. RestOK'
  BY <1>3, <1>4, <1>5, CallFacts DEF PushDecides, RestOK, tables
<1> QED BY <1>3, <1>5, <1>r, CallFacts, ObjectsUnchanged, PartsNext DEF PushDecides

LEMMA PushInMaintenanceIInv ==
    ASSUME IInv, NEW c \in Call, PushInMaintenance(c) PROVE IInv'
<1>1. CallsOK' /\ heard' \in BOOLEAN
  BY PushDecidesOK DEF PushInMaintenance, Status
<1>r. RestOK'
  BY <1>1, CallFacts DEF PushInMaintenance, PushDecides, RestOK, tables
<1> QED BY <1>1, <1>r, CallFacts, ObjectsUnchanged, PartsNext
        DEF PushInMaintenance, PushDecides

LEMMA PushStoreIInv ==
    ASSUME IInv, NEW c \in Call, PushStore(c) PROVE IInv'
<1>1. /\ call[c] \in PushCall /\ call[c].bean \in Bean /\ call[c].bean.status \in Status
      /\ call[c].follows \in BOOLEAN
  BY CallFacts DEF PushCall, Made, PushStore
<1>2. ObjectsOK'
  <2>1. obj' = Superseded(obj, c) /\ list' = list /\ lost' = lost
    BY DEF PushStore, Store
  <2> QED BY <2>1, CallFacts, SupersededObjects, ObjectsRemember
<1>3. CallsOK'
  <2> DEFINE others == Superseded(call, c)
  <2>1. others \in [Call -> PushCall] /\ \A d \in Call : Made(others[d])
    BY CallFacts, SupersededCalls
  <2>2. call' = [others EXCEPT ![c] = NoCall]
    BY DEF PushStore
  <2> HIDE DEF others
  <2>3. call' \in [Call -> PushCall]
    BY <2>1, <2>2, EmptyTypes
  <2>4. \A d \in Call : Made(call'[d])
    BY <2>1, <2>2, EmptyTypes
  <2> QED BY <2>3, <2>4 DEF CallsOK, Made
<1>4. earlier' \in [Writer -> SUBSET Writer]
  BY CallFacts, EndWritingType DEF PushStore
<1>5. /\ newest' \in Stored /\ latest' \in Stored
      /\ failures' \in 0..Saturation /\ unheard' \in 0..Saturation
      /\ heard' \in BOOLEAN /\ forked' \in BOOLEAN
  BY <1>1, CallFacts, StoreType DEF PushStore
<1>r. RestOK'
  BY <1>4, <1>5, CallFacts DEF PushStore, Store, RestOK
<1> QED BY <1>2, <1>3, <1>r, PartsNext

LEMMA PushFailsIInv ==
    ASSUME IInv, NEW c \in Call, PushFails(c) PROVE IInv'
<1>1. CallsOK'
  BY CallFacts, OneCallMoves, EmptyTypes DEF PushFails
<1>2. earlier' \in [Writer -> SUBSET Writer]
  BY CallFacts, EndWritingType DEF PushFails
<1>r. RestOK'
  BY <1>2, CallFacts DEF PushFails, Fault, RestOK, tables, seen
<1> QED BY <1>1, <1>r, CallFacts, ObjectsUnchanged, PartsNext DEF PushFails, seen

-----------------------------------------------------------------------------
(* The steps of a request.                                                 *)

\* A request that touches neither objects nor calls.
LEMMA RestMoves ==
    ASSUME IInv, RestOK', obj' = obj, call' = call, list' = list, lost' = lost PROVE IInv'
BY Parts, ObjectsUnchanged, CallsUnchanged, PartsNext

LEMMA ReceiveIInv ==
    ASSUME IInv, NEW r \in Socket, NEW op \in Operation, Receive(r, op) PROVE IInv'
<1> DEFINE x == [pc |-> FirstStep(op), active |-> row.active]
<1>1. x \in Request
  BY Parts DEF RestOK, Request, FirstStep, Operation
<1>2. req' = [req EXCEPT ![r] = x]
  BY DEF Receive
<1> HIDE DEF x
<1>r. RestOK'
  BY <1>1, <1>2, Parts DEF Receive, RestOK, tables, seen
<1> QED BY <1>r, RestMoves DEF Receive, seen

LEMMA SaveEditIInv ==
    ASSUME IInv, NEW r \in Socket, SaveEdit(r) PROVE IInv'
<1>1. req' \in [Socket -> Request]
  BY GotoType DEF SaveEdit, IInv
<1>2. row' \in [exists : BOOLEAN, active : BOOLEAN, cfg : Settings]
  <2>1. row \in [exists : BOOLEAN, active : BOOLEAN, cfg : Settings]
        /\ Edits[row.cfg] \subseteq Settings
    BY Parts, MonitorAssumption DEF RestOK
  <2>2. row' = row \/ \E c \in Settings : row' = [row EXCEPT !.cfg = c]
    BY <2>1 DEF SaveEdit
  <2> QED BY <2>1, <2>2
<1>r. RestOK'
  BY <1>1, <1>2, Parts DEF SaveEdit, RestOK, tables, seen
<1> QED BY <1>r, RestMoves DEF SaveEdit, seen

LEMMA ActivateIInv ==
    ASSUME IInv, NEW r \in Socket, Activate(r) PROVE IInv'
<1>1. req' \in [Socket -> Request]
  BY GotoType DEF Activate, IInv
<1>2. row' \in [exists : BOOLEAN, active : BOOLEAN, cfg : Settings]
  <2> DEFINE on == row.active \/ row.exists
  <2>1. row' = [row EXCEPT !.active = on] /\ on \in BOOLEAN
    BY Zenon DEF Activate
  <2> HIDE DEF on
  <2> QED BY <2>1, Parts DEF RestOK
<1>r. RestOK'
  BY <1>1, <1>2, Parts DEF Activate, RestOK, tables, seen
<1> QED BY <1>r, RestMoves DEF Activate, seen

LEMMA DeactivateIInv ==
    ASSUME IInv, NEW r \in Socket, Deactivate(r) PROVE IInv'
<1>1. req' \in [Socket -> Request]
  BY GotoType DEF Deactivate, IInv
<1>2. row' \in [exists : BOOLEAN, active : BOOLEAN, cfg : Settings]
  BY Parts DEF Deactivate, RestOK
<1>r. RestOK'
  BY <1>1, <1>2, Parts DEF Deactivate, RestOK, tables, seen
<1> QED BY <1>r, RestMoves DEF Deactivate, seen

\* startMonitor: the one that ran is stopped, and the new one is in the list.
LEMMA StartIInv ==
    ASSUME IInv, NEW r \in Socket, Start(r) PROVE IInv'
<1>1. req' \in [Socket -> Request]
  BY GotoType DEF Start, IInv
<1>2. 0 \in 0..Saturation
  BY MonitorAssumption
<1>3. CASE ~row.exists
  <2>1. obj' = obj /\ list' = list /\ lost' = lost /\ call' = call
    BY <1>3 DEF Start
  <2>r. RestOK'
    BY <1>1, <1>2, <1>3, Parts DEF Start, RestOK, tables
  <2> QED BY <2>1, <2>r, RestMoves
<1>4. CASE row.exists
  <2> DEFINE new == NewObject("starting", row.cfg)
  <2>1. PICK o \in Object :
          /\ obj' = [x \in Object |-> CASE x = o -> new
                                        [] x = list -> Stopped(obj[x])
                                        [] OTHER -> obj[x]]
          /\ list' = o /\ lost' = lost
    BY <1>4 DEF Start
  <2>2. new \in MonitorObject /\ Made(new) /\ PulledStop(new)
    BY Parts, NewObjectType DEF RestOK, Inactive
  <2> HIDE DEF new
  <2>3. ASSUME NEW x \in Object
        PROVE  /\ obj'[x] \in MonitorObject /\ Made(obj'[x]) /\ PulledStop(obj'[x])
               /\ x # o => Quiet(x)'
    <3>1. /\ obj[x] \in MonitorObject /\ Made(obj[x]) /\ PulledStop(obj[x])
          /\ x # list => Quiet(x)
      BY Parts, QuietBesides DEF ObjectsOK
    <3>2. /\ Stopped(obj[x]) \in MonitorObject /\ Stopped(obj[x]).stop
          /\ Made(Stopped(obj[x])) /\ PulledStop(Stopped(obj[x]))
      BY <3>1, StoppedType
    <3> QED BY <2>1, <2>2, <3>1, <3>2 DEF Quiet
  <2>4. ObjectsOK'
    <3>1. obj' \in [Object -> MonitorObject]
      BY <2>1, <2>3
    <3>2. OneLoop'
      BY <2>1, <2>3 DEF OneLoop, Running, Quiet
    <3> QED BY <2>3, <3>1, <3>2 DEF ObjectsOK, Made, PulledStop
  <2>r. RestOK'
    BY <1>1, <1>2, <2>1, Parts DEF Start, RestOK, tables
  <2> QED BY <2>4, <2>r, Parts, CallsUnchanged, PartsNext DEF Start
<1> QED BY <1>3, <1>4

\* pauseMonitor and deleteMonitor: nothing runs any more.
LEMMA StopListedOK ==
    ASSUME IInv, StopListed, lost' = lost PROVE ObjectsOK'
<1>1. ASSUME NEW x \in Object
      PROVE  /\ obj'[x] \in MonitorObject /\ Made(obj'[x]) /\ PulledStop(obj'[x])
             /\ Quiet(x)'
  <2>1. /\ obj[x] \in MonitorObject /\ Made(obj[x]) /\ PulledStop(obj[x])
        /\ x # list => Quiet(x)
    BY Parts, QuietBesides DEF ObjectsOK
  <2>2. /\ Stopped(obj[x]) \in MonitorObject /\ Stopped(obj[x]).stop
        /\ Made(Stopped(obj[x])) /\ PulledStop(Stopped(obj[x]))
    BY <2>1, StoppedType
  <2> QED BY <2>1, <2>2 DEF StopListed, Quiet
<1>2. obj' \in [Object -> MonitorObject]
  BY <1>1 DEF StopListed
<1>3. OneLoop'
  BY <1>1 DEF OneLoop, Running, Quiet
<1> QED BY <1>1, <1>2, <1>3 DEF ObjectsOK, Made, PulledStop

LEMMA StopIInv ==
    ASSUME IInv, NEW r \in Socket, Stop(r) PROVE IInv'
<1>1. req' \in [Socket -> Request]
  BY GotoType DEF Stop, IInv
<1>r. RestOK'
  BY <1>1, Parts DEF Stop, RestOK, tables, seen
<1> QED BY <1>r, StopListedOK, Parts, CallsUnchanged, PartsNext DEF Stop, seen

LEMMA UnlistIInv ==
    ASSUME IInv, NEW r \in Socket, Unlist(r) PROVE IInv'
<1>1. req' \in [Socket -> Request]
  BY GotoType DEF Unlist, IInv
<1>r. RestOK'
  BY <1>1, Parts DEF Unlist, RestOK, tables, seen
<1> QED BY <1>r, StopListedOK, Parts, CallsUnchanged, PartsNext DEF Unlist, seen

LEMMA RemoveIInv ==
    ASSUME IInv, NEW r \in Socket, Remove(r) PROVE IInv'
<1>1. req' \in [Socket -> Request]
  BY GotoType DEF Remove, IInv
<1>2. ObjectsOK' /\ CallsOK' /\ newest' \in Stored /\ latest' \in Stored
  BY Parts, EmptyTableOK DEF Remove, seen
<1>3. row' \in [exists : BOOLEAN, active : BOOLEAN, cfg : Settings]
  BY Parts DEF Remove, RestOK
<1>r. RestOK'
  BY <1>1, <1>2, <1>3, Parts DEF Remove, RestOK, seen
<1> QED BY <1>2, <1>r, PartsNext

LEMMA ClearHeartbeatsIInv ==
    ASSUME IInv, NEW r \in Socket, ClearHeartbeats(r) PROVE IInv'
<1>1. req' \in [Socket -> Request]
  BY GotoType DEF ClearHeartbeats, IInv
<1>2. ObjectsOK' /\ CallsOK' /\ newest' \in Stored /\ latest' \in Stored
  BY Parts, EmptyTableOK DEF ClearHeartbeats, seen
<1>r. RestOK'
  BY <1>1, <1>2, Parts DEF ClearHeartbeats, RestOK, seen
<1> QED BY <1>2, <1>r, PartsNext

-----------------------------------------------------------------------------
(* A crash, and the whole of Next.                                         *)

LEMMA CrashIInv == ASSUME IInv, Crash PROVE IInv'
<1> DEFINE new == NewObject("found", row.cfg)
<1>1. /\ list' = NoObject /\ lost' = {}
      /\ \E o \in Object :
           obj' = [x \in Object |-> IF x = o /\ row.exists /\ row.active THEN new ELSE Ended]
  BY DEF Crash, Booted
<1>2. new \in MonitorObject /\ Made(new) /\ PulledStop(new) /\ new.pc = "found"
  BY Parts, NewObjectType DEF RestOK, Inactive, NewObject
<1> HIDE DEF new
<1>3. ObjectsOK'
  <2>1. obj' \in [Object -> MonitorObject]
    BY <1>1, <1>2, EndedType
  <2>2. \A x \in Object : Made(obj'[x]) /\ PulledStop(obj'[x])
    BY <1>1, <1>2, EndedType
  <2>3. OneLoop'
    BY <1>1, <1>2, EndedType DEF OneLoop, Running
  <2> QED BY <2>1, <2>2, <2>3 DEF ObjectsOK, Made, PulledStop
<1>4. CallsOK'
  BY EmptyTypes DEF Crash, CallsOK, Made
<1>5. req' \in [Socket -> Request] /\ earlier' \in [Writer -> SUBSET Writer]
  BY EmptyTypes DEF Crash
<1>r. RestOK'
  BY <1>1, <1>5, Parts DEF Crash, Fault, RestOK, tables, seen
<1> QED BY <1>3, <1>4, <1>r, PartsNext

\* startMonitors: what was in the list goes on, and no stop can find it.
LEMMA FillListIInv ==
    ASSUME IInv, NEW o \in Object, FillList(o) PROVE IInv'
<1> DEFINE x == [obj[o] EXCEPT !.pc = "listed"]
<1>1. x \in MonitorObject /\ Made(x) /\ PulledStop(x)
  BY ObjectFacts DEF MonitorObject, Made, PulledStop
<1>2. obj' = [obj EXCEPT ![o] = x] /\ list' = o
  BY ObjectFacts DEF FillList, ObjectsOK
<1>3. lost' = lost \cup {y \in Object : y = list /\ Running(y)}
  BY DEF FillList
<1> HIDE DEF x
<1>4. \A y \in Object : obj'[y] = IF y = o THEN x ELSE obj[y]
  BY <1>2, ObjectFacts DEF ObjectsOK
<1>5. OneLoop'
  BY <1>2, <1>3, <1>4, ObjectFacts DEF ObjectsOK, OneLoop, Running
<1>6. ObjectsOK'
  <2>1. \A y \in Object : obj'[y] \in MonitorObject /\ Made(obj'[y]) /\ PulledStop(obj'[y])
    BY <1>1, <1>4, ObjectFacts DEF ObjectsOK
  <2>2. obj' \in [Object -> MonitorObject]
    BY <1>1, <1>2, ObjectFacts DEF ObjectsOK
  <2> QED BY <1>5, <2>1, <2>2 DEF ObjectsOK, Made, PulledStop
<1>r. RestOK'
  BY <1>3, ObjectFacts DEF FillList, RestOK, tables
<1> QED BY <1>6, <1>r, ObjectFacts, CallsUnchanged, PartsNext DEF FillList

LEMMA NextIInv == ASSUME IInv, [Next]_vars PROVE IInv'
<1>1. ASSUME NEW o \in Object, Loop(o) PROVE IInv'
  BY <1>1, FillListIInv, StartListedIInv, StartDelayedIInv, BeginBeatIInv, CheckIInv, PushInTimeIInv,
     SendNotificationIInv, StoreBeatIInv, BeatRefusedIInv DEF Loop
<1>2. ASSUME NEW r \in Socket, Serve(r) PROVE IInv'
  BY <1>2, SaveEditIInv, ActivateIInv, StartIInv, DeactivateIInv, StopIInv, UnlistIInv,
     RemoveIInv, ClearHeartbeatsIInv DEF Serve
<1>3. ASSUME NEW c \in Call, Push(c) PROVE IInv'
  BY <1>3, PushSaysIInv, PushInMaintenanceIInv, PushStoreIInv, PushFailsIInv DEF Push
<1>4. CASE UNCHANGED vars
  <2>1. RestOK'
    BY <1>4, Parts DEF vars, tables, seen, RestOK
  <2> QED BY <1>4, <2>1, RestMoves DEF vars, seen
<1> QED BY <1>1, <1>2, <1>3, <1>4, BeatThrowsIInv, ReceiveIInv, PushBeginIInv, CrashIInv DEF Next

LEMMA Invariance == Spec => []IInv
BY InitIInv, NextIInv, PTL DEF Spec

\* The type invariant.
THEOREM TypesHold == Spec => []TypeOK
<1>1. IInv => TypeOK
  BY DEF IInv
<1> QED BY <1>1, Invariance, PTL

\* However starts, stops, edits, deletions, crashes and beats interleave, an
\* object that was never stopped is the one in server.monitorList, or one that
\* startMonitors has taken off it after a request had put it there during its
\* query: else a monitor is checked by one loop, which the next request finds
\* (server.js:2000-2056).
THEOREM AtMostOneLoop == Spec => []OneLoop
<1>1. IInv => OneLoop
  BY DEF IInv
<1> QED BY <1>1, Invariance, PTL

\* Where no monitor is a push monitor, no timer is set once an object was
\* stopped (monitor.js:1208, "isStop = true, no next check."); the push
\* monitor's early return is the one way around the check.
THEOREM StopsAreFinal ==
    ASSUME \A c \in Settings : ~c.push PROVE Spec => []StopIsFinal
<1>1. IInv => StopIsFinal
  BY DEF IInv, TypeOK, MonitorObject, PulledStops, PulledStop, StopIsFinal
<1> QED BY <1>1, Invariance, PTL

-----------------------------------------------------------------------------
(* What a user could have seen: the heartbeats follow from each other up   *)
(* to the first fork, and what was announced, counted and failed goes with *)
(* what the newest of them says.                                           *)

Busy == {"checking", "announcing", "storing"}

\* A beat that was overtaken does not follow from the last one, and one that
\* follows knows that one; n, f and h are newest, forked and heard.
Chained(x, idle, n, f, h) ==
    /\ idle => ~x.bean.late
    /\ x.bean.late => ~x.follows
    /\ ~f /\ x.follows => /\ x.prev = n
                          /\ x.pc = "storing" /\ x.bean.status = DOWN => h

\* The chain of the heartbeats, which every other invariant here needs.
SeenInv ==
    /\ \A w \in Writer : earlier[w] \subseteq UnderWay
    /\ \A o \in Object : Chained(obj[o], obj[o].pc \notin Busy, newest, forked, heard)
    /\ \A c \in Call : Chained(call[c], call[c].pc = "none", newest, forked, heard)
    /\ ~forked => newest = latest /\ (newest.status = DOWN => heard)

\* A DOWN beat that is not announced lengthens an outage by one.
Lengthens(x) ==
    x.pc = "storing" /\ x.bean.status = DOWN /\ ~x.bean.told =>
        /\ x.prev.status = DOWN
        /\ x.cfg.resendInterval > 0 => /\ x.bean.downCount = x.prev.downCount + 1
                                       /\ x.bean.downCount < x.cfg.resendInterval

\* r is the interval of the monitor's reminders.
Reminding(x, idle, r) == Lengthens(x) /\ (x.pc # idle => x.cfg.resendInterval = r)

\* The last notice was sent no longer ago than the newest heartbeat counts.
Counted(n, f, u, r) ==
    ~f /\ r > 0 => u < r /\ (n.status = DOWN => u <= n.downCount)

\* The notices go with the down counts.
RemindInv ==
    LET r == row.cfg.resendInterval IN
    /\ \A o \in Object : Reminding(obj[o], "ended", r)
    /\ \A c \in Call : Reminding(call[c], "none", r)
    /\ Counted(newest, forked, unheard, r)

\* The attempts that a loop or a call has counted, against the failures n.
Tries(x, f, n, l) ==
    /\ x.pc \in {"announcing", "storing"} => x.bean.retries = x.retries
    /\ ~f /\ (x.follows \/ l = NoBeat) => x.retries <= n
    /\ ~f /\ x.follows /\ x.pc = "announcing" /\ x.bean.status = DOWN => n > x.cfg.maxretries

Pushes(x, f, n) == ~f /\ x.follows /\ x.pc = "storing" => x.bean.retries <= n

NothingEmpties == \A r \in Socket : req[r].pc \notin {"unlist", "remove", "clear"}

\* The attempts go with the failures.
RetryInv ==
    /\ NothingEmpties
    /\ \A o \in Object : Tries(obj[o], forked, failures, latest)
    /\ \A c \in Call : Pushes(call[c], forked, failures)
    /\ ~forked => newest.retries <= failures
    /\ forked => latest # NoBeat

-----------------------------------------------------------------------------
(* The order of the beats under way.                                       *)

\* y differs from x in what it remembers of the order at most.
Alike(y, x) ==
    /\ y.pc = x.pc /\ y.cfg = x.cfg /\ y.prev = x.prev
    /\ y.bean.status = x.bean.status /\ y.bean.retries = x.bean.retries
    /\ y.bean.downCount = x.bean.downCount /\ y.bean.told = x.bean.told

LEMMA SupersededFields ==
    ASSUME NEW x, x \in MonitorObject \/ x \in PushCall, NEW late \in BOOLEAN,
           NEW y, y = [x EXCEPT !.follows = FALSE, !.bean.late = late]
    PROVE  Alike(y, x) /\ ~y.follows /\ y.bean.late = late
<1>1. CASE x \in MonitorObject
  BY <1>1 DEF MonitorObject, Bean, Alike
<1>2. CASE x \in PushCall
  BY <1>2 DEF PushCall, Bean, Alike
<1> QED BY <1>1, <1>2

LEMMA SupersededRetries ==
    ASSUME NEW x \in MonitorObject, NEW late \in BOOLEAN,
           NEW y, y = [x EXCEPT !.follows = FALSE, !.bean.late = late]
    PROVE  y.retries = x.retries
BY DEF MonitorObject, Bean

\* What Superseded and Forgotten make of the objects and calls.
Passed(y, x, late) == Alike(y, x) /\ ~y.follows /\ y.bean.late = late

LEMMA SupersededPassed ==
    ASSUME IInv, NEW w
    PROVE  /\ \A o \in Object : Passed(Superseded(obj, w)[o], obj[o],
                                       obj[o].bean.late \/ o \in earlier[w])
           /\ \A c \in Call : Passed(Superseded(call, w)[c], call[c],
                                     call[c].bean.late \/ c \in earlier[w])
           /\ \A o \in Object : Superseded(obj, w)[o].retries = obj[o].retries
<1>1. ObjectsOK /\ CallsOK
  BY Parts
<1>2. ASSUME NEW o \in Object
      PROVE  /\ Passed(Superseded(obj, w)[o], obj[o], obj[o].bean.late \/ o \in earlier[w])
             /\ Superseded(obj, w)[o].retries = obj[o].retries
  <2>1. PICK l \in BOOLEAN : l = (obj[o].bean.late \/ o \in earlier[w])
    BY Zenon
  <2>2. Superseded(obj, w)[o] = [obj[o] EXCEPT !.follows = FALSE, !.bean.late = l]
    BY <1>1, <2>1 DEF Superseded, ObjectsOK
  <2>3. PICK x \in MonitorObject : x = obj[o]
    BY <1>1 DEF ObjectsOK
  <2>4. PICK y : y = [x EXCEPT !.follows = FALSE, !.bean.late = l]
    OBVIOUS
  <2>5. Superseded(obj, w)[o] = y
    BY <2>2, <2>3, <2>4
  <2>6. Alike(y, x) /\ ~y.follows /\ y.bean.late = l /\ y.retries = x.retries
    BY <2>4, SupersededFields, SupersededRetries
  <2> QED BY <2>1, <2>3, <2>5, <2>6 DEF Passed
<1>3. ASSUME NEW c \in Call
      PROVE  Passed(Superseded(call, w)[c], call[c], call[c].bean.late \/ c \in earlier[w])
  <2>1. PICK l \in BOOLEAN : l = (call[c].bean.late \/ c \in earlier[w])
    BY Zenon
  <2>2. Superseded(call, w)[c] = [call[c] EXCEPT !.follows = FALSE, !.bean.late = l]
    BY <1>1, <2>1 DEF Superseded, CallsOK
  <2>3. PICK x \in PushCall : x = call[c]
    BY <1>1 DEF CallsOK
  <2>4. PICK y : y = [x EXCEPT !.follows = FALSE, !.bean.late = l]
    OBVIOUS
  <2>5. Superseded(call, w)[c] = y
    BY <2>2, <2>3, <2>4
  <2>6. Alike(y, x) /\ ~y.follows /\ y.bean.late = l
    BY <2>4, SupersededFields
  <2> QED BY <2>1, <2>3, <2>5, <2>6 DEF Passed
<1> QED BY <1>2, <1>3

LEMMA ForgottenPassed ==
    ASSUME IInv, EmptyTable
    PROVE  /\ \A o \in Object : Passed(obj'[o], obj[o], FALSE) /\ obj'[o].retries = obj[o].retries
           /\ \A c \in Call : Passed(call'[c], call[c], FALSE)
<1>1. ObjectsOK /\ CallsOK
  BY Parts
<1>2. ASSUME NEW o \in Object
      PROVE  Passed(obj'[o], obj[o], FALSE) /\ obj'[o].retries = obj[o].retries
  <2>1. obj[o] \in MonitorObject /\ obj'[o] = [obj[o] EXCEPT !.follows = FALSE, !.bean.late = FALSE]
    BY <1>1 DEF EmptyTable, Forgotten, ObjectsOK
  <2> QED BY <2>1, SupersededFields, SupersededRetries DEF Passed
<1>3. ASSUME NEW c \in Call PROVE Passed(call'[c], call[c], FALSE)
  <2>1. call[c] \in PushCall /\ call'[c] = [call[c] EXCEPT !.follows = FALSE, !.bean.late = FALSE]
    BY <1>1 DEF EmptyTable, Forgotten, CallsOK
  <2> QED BY <2>1, SupersededFields DEF Passed
<1> QED BY <1>2, <1>3

\* Beats that are under way stay so, but for the one that ends.
LEMMA EarlierIsUnderWay ==
    ASSUME IInv, SeenInv, NEW w \in Writer,
           \/ earlier' = earlier /\ UnderWay \subseteq UnderWay'
           \/ BeginWriting(w) /\ UnderWay \subseteq UnderWay'
           \/ EndWriting(w) /\ UnderWay \ {w} \subseteq UnderWay'
    PROVE  \A v \in Writer : earlier'[v] \subseteq UnderWay'
<1>1. earlier \in [Writer -> SUBSET Writer] /\ \A v \in Writer : earlier[v] \subseteq UnderWay
  BY DEF IInv, TypeOK, SeenInv
<1>2. CASE earlier' = earlier /\ UnderWay \subseteq UnderWay'
  BY <1>1, <1>2
<1>3. CASE BeginWriting(w) /\ UnderWay \subseteq UnderWay'
  <2>1. \A v \in Writer : earlier'[v] \in {UnderWay, earlier[v]}
    BY <1>1, <1>3 DEF BeginWriting
  <2> QED BY <1>1, <1>3, <2>1
<1>4. CASE EndWriting(w) /\ UnderWay \ {w} \subseteq UnderWay'
  <2>1. \A v \in Writer : earlier'[v] \subseteq earlier[v] \ {w}
    BY <1>4 DEF EndWriting
  <2> QED BY <1>1, <1>4, <2>1
<1> QED BY <1>2, <1>3, <1>4

LEMMA UnderWayOfObjects ==
    ASSUME IInv, NEW o \in Object, NEW x, obj' = [obj EXCEPT ![o] = x], call' = call
    PROVE  /\ UnderWay \ {o} \subseteq UnderWay'
           /\ x.pc \in Busy \/ obj[o].pc \notin Busy => UnderWay \subseteq UnderWay'
<1>1. \A y \in Object : obj'[y] = IF y = o THEN x ELSE obj[y]
  BY DEF IInv, TypeOK
<1>2. o \notin Call
  BY MonitorAssumption
<1> QED BY <1>1, <1>2 DEF UnderWay, Busy

LEMMA UnderWayOfCalls ==
    ASSUME IInv, NEW c \in Call, NEW x, call' = [call EXCEPT ![c] = x], obj' = obj
    PROVE  /\ UnderWay \ {c} \subseteq UnderWay'
           /\ x.pc # "none" \/ call[c].pc = "none" => UnderWay \subseteq UnderWay'
<1>1. \A y \in Call : call'[y] = IF y = c THEN x ELSE call[y]
  BY DEF IInv, TypeOK
<1>2. c \notin Object
  BY MonitorAssumption
<1> QED BY <1>1, <1>2 DEF UnderWay

-----------------------------------------------------------------------------
(* SeenInv: what follows knows the newest, and a DOWN beat was heard of.   *)

Earlier == \A w \in Writer : earlier[w] \subseteq UnderWay

LEMMA OneObjectSeen ==
    ASSUME IInv, SeenInv, NEW o \in Object, NEW x, obj' = [obj EXCEPT ![o] = x],
           call' = call, tables' = tables, forked' = forked, heard => heard',
           Chained(x, x.pc \notin Busy, newest, forked, heard'), Earlier'
    PROVE  SeenInv'
<1>1. \A y \in Object : obj'[y] = IF y = o THEN x ELSE obj[y]
  BY DEF IInv, TypeOK
<1>2. newest' = newest /\ latest' = latest
  BY DEF tables
<1>3. \A y \in Object : Chained(obj'[y], obj'[y].pc \notin Busy, newest', forked', heard')
  BY <1>1, <1>2 DEF SeenInv, Chained
<1>4. \A c \in Call : Chained(call'[c], call'[c].pc = "none", newest', forked', heard')
  BY <1>2 DEF SeenInv, Chained
<1> QED BY <1>2, <1>3, <1>4 DEF SeenInv, Chained, Earlier

LEMMA OneCallSeen ==
    ASSUME IInv, SeenInv, NEW c \in Call, NEW x, call' = [call EXCEPT ![c] = x],
           obj' = obj, tables' = tables, forked' = forked, heard => heard',
           Chained(x, x.pc = "none", newest, forked, heard'), Earlier'
    PROVE  SeenInv'
<1>1. \A y \in Call : call'[y] = IF y = c THEN x ELSE call[y]
  BY DEF IInv, TypeOK
<1>2. newest' = newest /\ latest' = latest
  BY DEF tables
<1>3. \A y \in Call : Chained(call'[y], call'[y].pc = "none", newest', forked', heard')
  BY <1>1, <1>2 DEF SeenInv, Chained
<1>4. \A y \in Object : Chained(obj'[y], obj'[y].pc \notin Busy, newest', forked', heard')
  BY <1>2 DEF SeenInv, Chained
<1> QED BY <1>2, <1>3, <1>4 DEF SeenInv, Chained, Earlier

\* Nothing that SeenInv speaks of changes.
LEMMA NothingSeen ==
    ASSUME SeenInv, obj' = obj, call' = call, tables' = tables, earlier' = earlier,
           forked' = forked, heard' = heard
    PROVE  SeenInv'
<1>1. newest' = newest /\ latest' = latest
  BY DEF tables
<1> QED BY <1>1 DEF SeenInv, Chained, UnderWay

LEMMA NoBeansChained ==
    ASSUME NEW n, NEW f, NEW h
    PROVE  /\ Chained(NoCall, NoCall.pc = "none", n, f, h)
           /\ Chained(Ended, Ended.pc \notin Busy, n, f, h)
           /\ \A pc \in Inactive, cfg \in Settings :
                 Chained(NewObject(pc, cfg), NewObject(pc, cfg).pc \notin Busy, n, f, h)
BY DEF Chained, NoCall, NoBean, Ended, NewObject, Busy, Inactive

\* An object that is armed again, or ends.
LEMMA NextCheckChained ==
    ASSUME NEW x \in MonitorObject, NEW n, NEW f, NEW h,
           ~f /\ x.follows => x.prev = n
    PROVE  Chained(NextCheck(x), NextCheck(x).pc \notin Busy, n, f, h)
<1>1. CASE x.stop
  BY <1>1, NoBeansChained DEF NextCheck
<1>2. CASE ~x.stop
  BY <1>2 DEF NextCheck, Chained, MonitorObject, NoBean, Busy
<1> QED BY <1>1, <1>2

LEMMA FillListSeen ==
    ASSUME IInv, SeenInv, NEW o \in Object, FillList(o) PROVE SeenInv'
<1> DEFINE x == [obj[o] EXCEPT !.pc = "listed"]
<1>1. obj' = [obj EXCEPT ![o] = x] /\ obj[o].pc = "found"
  BY ObjectFacts DEF FillList, ObjectsOK
<1>2. Chained(x, x.pc \notin Busy, newest, forked, heard)
  BY <1>1, ObjectFacts DEF SeenInv, Chained, MonitorObject, Busy
<1>3. Earlier'
  BY <1>1, UnderWayOfObjects, EarlierIsUnderWay, ObjectFacts DEF FillList, Busy, Earlier
<1> QED BY <1>1, <1>2, <1>3, OneObjectSeen DEF FillList

LEMMA StartListedSeen ==
    ASSUME IInv, SeenInv, NEW o \in Object, StartListed(o) PROVE SeenInv'
<1> DEFINE x == [obj[o] EXCEPT !.pc = "starting"]
<1>1. obj' = [obj EXCEPT ![o] = x] /\ obj[o].pc = "listed"
  BY ObjectFacts DEF StartListed, ObjectsOK
<1>2. Chained(x, x.pc \notin Busy, newest, forked, heard)
  BY <1>1, ObjectFacts DEF SeenInv, Chained, MonitorObject, Busy
<1>3. Earlier'
  BY <1>1, UnderWayOfObjects, EarlierIsUnderWay, ObjectFacts DEF StartListed, Busy, Earlier
<1> QED BY <1>1, <1>2, <1>3, OneObjectSeen DEF StartListed, seen

LEMMA StartDelayedSeen ==
    ASSUME IInv, SeenInv, NEW o \in Object, StartDelayed(o) PROVE SeenInv'
<1> DEFINE x == [obj[o] EXCEPT !.pc = "delay"]
<1>1. obj' = [obj EXCEPT ![o] = x] /\ obj[o].pc = "starting"
  BY ObjectFacts DEF StartDelayed, ObjectsOK
<1>2. Chained(x, x.pc \notin Busy, newest, forked, heard)
  BY <1>1, ObjectFacts DEF SeenInv, Chained, MonitorObject, Busy
<1>3. Earlier'
  BY <1>1, UnderWayOfObjects, EarlierIsUnderWay, ObjectFacts DEF StartDelayed, Busy, Earlier
<1> QED BY <1>1, <1>2, <1>3, OneObjectSeen DEF StartDelayed, seen

\* What the first step of a beat makes of its object.
LEMMA BeginBeatFields ==
    ASSUME IInv, NEW o \in Object, BeginBeat(o)
    PROVE  \E x \in MonitorObject :
             LET reads == obj[o].prev = NoBeat \/ obj[o].cfg.push IN
             /\ obj' = [obj EXCEPT ![o] = x]
             /\ x.pc = "checking" /\ x.cfg = obj[o].cfg /\ x.bean = obj[o].bean
             /\ x.prev = IF reads THEN newest ELSE obj[o].prev
             /\ reads => x.follows
             /\ ~reads => x.follows = obj[o].follows /\ x.prev # NoBeat
             /\ x.retries = IF reads /\ newest # NoBeat THEN newest.retries ELSE obj[o].retries
<1> DEFINE reads == obj[o].prev = NoBeat \/ obj[o].cfg.push
           found == reads /\ newest # NoBeat
           prev == IF reads THEN newest ELSE obj[o].prev
           follows == reads \/ obj[o].follows
           retries == IF found THEN newest.retries ELSE obj[o].retries
           x == [obj[o] EXCEPT !.pc = "checking", !.prev = prev,
                               !.follows = follows, !.retries = retries]
<1>1. obj[o] \in MonitorObject /\ newest \in Stored
  BY ObjectFacts DEF TypeOK
<1>2. prev \in Stored /\ follows \in BOOLEAN /\ retries \in 0..Saturation
  <2>1. follows \in BOOLEAN
    BY Zenon DEF follows
  <2> QED BY <1>1, <2>1 DEF MonitorObject, Stored
<1>3. obj' = [obj EXCEPT ![o] = x]
  BY ObjectFacts DEF BeginBeat, ObjectsOK
<1>4. /\ prev = IF reads THEN newest ELSE obj[o].prev
      /\ reads => follows
      /\ ~reads => follows = obj[o].follows /\ prev # NoBeat
      /\ retries = IF reads /\ newest # NoBeat THEN newest.retries ELSE obj[o].retries
  <2>1. obj[o].follows \in BOOLEAN
    BY <1>1 DEF MonitorObject
  <2> QED BY <2>1
<1> HIDE DEF prev, follows, retries
<1>5. /\ x \in MonitorObject /\ x.pc = "checking" /\ x.cfg = obj[o].cfg
      /\ x.bean = obj[o].bean /\ x.prev = prev /\ x.follows = follows /\ x.retries = retries
  BY <1>1, <1>2 DEF MonitorObject
<1> HIDE DEF x
<1> QED BY <1>3, <1>4, <1>5

LEMMA BeginBeatSeen ==
    ASSUME IInv, SeenInv, NEW o \in Object, BeginBeat(o) PROVE SeenInv'
<1> DEFINE reads == obj[o].prev = NoBeat \/ obj[o].cfg.push
<1>1. PICK x \in MonitorObject :
             /\ obj' = [obj EXCEPT ![o] = x]
             /\ x.pc = "checking" /\ x.bean = obj[o].bean
             /\ x.prev = IF reads THEN newest ELSE obj[o].prev
             /\ ~reads => x.follows = obj[o].follows
  BY BeginBeatFields
<1>2. obj[o].pc \notin Busy /\ Chained(obj[o], TRUE, newest, forked, heard)
  BY DEF BeginBeat, Busy, SeenInv
<1>3. Chained(x, x.pc \notin Busy, newest, forked, heard)
  BY <1>1, <1>2 DEF Chained, Busy
<1>4. Earlier'
  BY <1>1, <1>2, UnderWayOfObjects, EarlierIsUnderWay, ObjectFacts DEF BeginBeat, Earlier
<1> QED BY <1>1, <1>3, <1>4, OneObjectSeen DEF BeginBeat, seen

LEMMA CheckFields ==
    ASSUME IInv, NEW o \in Object, Check(o)
    PROVE  \E x \in MonitorObject, outcome \in Outcome :
             LET result == CheckResult(obj[o].cfg, outcome, obj[o].retries) IN
             /\ obj' = [obj EXCEPT ![o] = x]
             /\ x.pc = "announcing" /\ x.cfg = obj[o].cfg /\ x.prev = obj[o].prev
             /\ x.follows = obj[o].follows /\ x.bean.late = obj[o].bean.late
             /\ x.retries = Capped(result.retries) /\ x.bean.retries = x.retries
             /\ x.bean.status = result.status
             /\ failures' = Failed(IsFailure(obj[o].cfg, outcome), result.status)
<1>1. PICK outcome \in Meets(o) :
         LET result == CheckResult(obj[o].cfg, outcome, obj[o].retries)
         IN  /\ obj' = [obj EXCEPT
                   ![o].pc = "announcing",
                   ![o].retries = Capped(result.retries),
                   ![o].bean = [@ EXCEPT !.status = result.status,
                                         !.retries = Capped(result.retries)]]
             /\ failures' = Failed(IsFailure(obj[o].cfg, outcome), result.status)
  BY DEF Check
<1> DEFINE status == CheckResult(obj[o].cfg, outcome, obj[o].retries).status
           count == Capped(CheckResult(obj[o].cfg, outcome, obj[o].retries).retries)
           x == [obj[o] EXCEPT !.pc = "announcing", !.retries = count,
                               !.bean = [@ EXCEPT !.status = status, !.retries = count]]
<1>2. obj[o] \in MonitorObject /\ obj[o].cfg \in Config /\ obj[o].retries \in Nat
  BY ObjectFacts, MonitorAssumption DEF MonitorObject
<1>3. outcome \in Outcome
  BY MonitorAssumption DEF Meets
<1>4. status \in Status /\ count \in 0..Saturation
  BY <1>2, <1>3, CheckResultType, CappedType
<1>5. obj' = [obj EXCEPT ![o] = x]
  BY <1>1, ObjectFacts DEF ObjectsOK
<1> HIDE DEF status, count
<1>6. /\ x \in MonitorObject /\ x.pc = "announcing" /\ x.cfg = obj[o].cfg
      /\ x.prev = obj[o].prev /\ x.follows = obj[o].follows
      /\ x.bean.late = obj[o].bean.late /\ x.retries = count
      /\ x.bean.retries = count /\ x.bean.status = status
  BY <1>2, <1>4 DEF MonitorObject, Bean
<1> HIDE DEF x
<1> QED BY <1>1, <1>3, <1>5, <1>6 DEF status, count

LEMMA CheckSeen ==
    ASSUME IInv, SeenInv, NEW o \in Object, Check(o) PROVE SeenInv'
<1>1. PICK x \in MonitorObject :
             /\ obj' = [obj EXCEPT ![o] = x]
             /\ x.pc = "announcing" /\ x.prev = obj[o].prev
             /\ x.follows = obj[o].follows /\ x.bean.late = obj[o].bean.late
  BY CheckFields
<1>2. Chained(x, x.pc \notin Busy, newest, forked, heard)
  BY <1>1 DEF Chained, Busy, SeenInv
<1>3. Earlier'
  BY <1>1, UnderWayOfObjects, EarlierIsUnderWay, ObjectFacts DEF Check, Earlier, Busy
<1> QED BY <1>1, <1>2, <1>3, OneObjectSeen DEF Check

LEMMA PushInTimeSeen ==
    ASSUME IInv, SeenInv, NEW o \in Object, PushInTime(o) PROVE SeenInv'
<1> DEFINE x == [obj[o] EXCEPT !.pc = "armed", !.retries = 0, !.bean = NoBean]
<1>1. obj' = [obj EXCEPT ![o] = x]
  BY ObjectFacts DEF PushInTime, ObjectsOK
<1>2. Chained(x, x.pc \notin Busy, newest, forked, heard)
  BY ObjectFacts DEF Chained, Busy, SeenInv, MonitorObject, NoBean
<1>3. Earlier'
  BY <1>1, UnderWayOfObjects, EarlierIsUnderWay, ObjectFacts DEF PushInTime, Earlier
<1> QED BY <1>1, <1>2, <1>3, OneObjectSeen DEF PushInTime, seen

\* The first DOWN beat after others is announced; a later one, at the latest
\* when the reminder is due.
LEMMA DownAnnounced ==
    ASSUME NEW c \in Config, NEW prev \in Stored, NEW reset \in BOOLEAN,
           reset <=> isImportantForNotification(prev, DOWN)
    PROVE  LET a == Announcement(c, prev, DOWN, reset) IN
           /\ prev.status # DOWN => a.sent
           /\ ~a.sent => /\ prev.status = DOWN
                         /\ c.resendInterval > 0 =>
                               /\ a.downCount = prev.downCount + 1
                               /\ a.downCount < c.resendInterval
<1>1. prev.status \in Status \cup {"none"} /\ prev.downCount \in Nat
  BY MonitorAssumption DEF Stored
<1>2. reset <=> prev.status # DOWN
  BY <1>1 DEF isImportantForNotification, Status, UP, DOWN, PENDING, MAINTENANCE
<1>3. CASE reset
  BY <1>1, <1>2, <1>3 DEF Announcement, Sends, isImportantForNotification, Status, UP, DOWN, PENDING, MAINTENANCE
<1>4. CASE ~reset
  <2> DEFINE a == Announcement(c, prev, DOWN, reset)
             again == c.resendInterval > 0 /\ prev.downCount + 1 >= c.resendInterval
  <2>1. c.resendInterval \in Nat
    BY DEF Config
  <2>2. /\ a.sent = again
        /\ ~again /\ c.resendInterval > 0 => a.downCount = prev.downCount + 1
    BY <1>4 DEF Announcement, Counts
  <2> HIDE DEF a, again
  <2>3. ASSUME ~a.sent, c.resendInterval > 0
        PROVE  a.downCount = prev.downCount + 1 /\ a.downCount < c.resendInterval
    <3>1. ~again
      BY <2>2, <2>3, Zenon
    <3>2. ~(prev.downCount + 1 >= c.resendInterval)
      BY <2>3, <3>1 DEF again
    <3>3. a.downCount = prev.downCount + 1
      BY <2>2, <2>3, <3>1
    <3> QED BY <1>1, <2>1, <3>2, <3>3
  <2> QED BY <1>2, <1>4, <2>3 DEF a
<1> QED BY <1>3, <1>4

LEMMA ImportantDown ==
    ASSUME NEW prev PROVE isImportantBeat(prev, DOWN) <=> isImportantForNotification(prev, DOWN)
BY DEF isImportantBeat, UP, DOWN, MAINTENANCE

LEMMA SendNotificationFields ==
    ASSUME IInv, NEW o \in Object, SendNotification(o)
    PROVE  \E x \in MonitorObject :
             /\ obj' = [obj EXCEPT ![o] = x]
             /\ obj[o].pc = "announcing"
             /\ x.pc = "storing" /\ x.cfg = obj[o].cfg /\ x.prev = obj[o].prev
             /\ x.follows = obj[o].follows /\ x.retries = obj[o].retries
             /\ x.bean.late = obj[o].bean.late /\ x.bean.status = obj[o].bean.status
             /\ x.bean.retries = obj[o].bean.retries
             /\ heard' = (heard \/ (x.bean.told /\ x.bean.status = DOWN))
             /\ x.bean.status = DOWN =>
                  LET a == Announcement(x.cfg, x.prev, DOWN, isImportantBeat(x.prev, DOWN)) IN
                  x.bean.told = a.sent /\ x.bean.downCount = Capped(a.downCount)
<1> DEFINE status == obj[o].bean.status
           a == Announcement(obj[o].cfg, obj[o].prev, status,
                             isImportantBeat(obj[o].prev, status))
           count == Capped(a.downCount)
           sent == a.sent
           x == [obj[o] EXCEPT !.pc = "storing", !.bean.downCount = count, !.bean.told = sent]
<1>1. /\ obj[o] \in MonitorObject /\ obj[o].cfg \in Config /\ obj[o].prev \in Stored
      /\ status \in Status
  BY ObjectFacts DEF MonitorObject, Made, SendNotification
<1>2. isImportantBeat(obj[o].prev, status) \in BOOLEAN
  BY DEF isImportantBeat, isImportantForNotification
<1>3. sent \in BOOLEAN /\ count \in 0..Saturation
  <2>1. a.sent \in BOOLEAN /\ a.downCount \in Nat
    BY <1>1, <1>2, AnnouncementType
  <2> QED BY <2>1, CappedType
<1>4. obj' = [obj EXCEPT ![o] = x]
  BY ObjectFacts DEF SendNotification, ObjectsOK
<1>5. heard' = (heard \/ (sent /\ status = DOWN)) /\ obj[o].pc = "announcing"
  BY DEF SendNotification, Announce
<1>6. status = DOWN =>
        LET b == Announcement(obj[o].cfg, obj[o].prev, DOWN, isImportantBeat(obj[o].prev, DOWN))
        IN  sent = b.sent /\ count = Capped(b.downCount)
  OBVIOUS
<1> HIDE DEF count, sent
<1>7. /\ x \in MonitorObject /\ x.pc = "storing" /\ x.cfg = obj[o].cfg /\ x.prev = obj[o].prev
      /\ x.follows = obj[o].follows /\ x.retries = obj[o].retries
      /\ x.bean.late = obj[o].bean.late /\ x.bean.status = status
      /\ x.bean.retries = obj[o].bean.retries
      /\ x.bean.told = sent /\ x.bean.downCount = count
  BY <1>1, <1>3 DEF MonitorObject, Bean
<1> HIDE DEF x
<1>8. x.bean.status = DOWN =>
        LET b == Announcement(x.cfg, x.prev, DOWN, isImportantBeat(x.prev, DOWN))
        IN  x.bean.told = b.sent /\ x.bean.downCount = Capped(b.downCount)
  BY <1>6, <1>7
<1>9. heard' = (heard \/ (x.bean.told /\ x.bean.status = DOWN))
  BY <1>5, <1>7
<1> HIDE DEF status
<1> QED BY <1>4, <1>5, <1>7, <1>8, <1>9 DEF status

LEMMA SendNotificationSeen ==
    ASSUME IInv, SeenInv, NEW o \in Object, SendNotification(o) PROVE SeenInv'
<1>1. PICK x \in MonitorObject :
             /\ obj' = [obj EXCEPT ![o] = x]
             /\ obj[o].pc = "announcing"
             /\ x.pc = "storing" /\ x.cfg = obj[o].cfg /\ x.prev = obj[o].prev
             /\ x.follows = obj[o].follows /\ x.bean.late = obj[o].bean.late
             /\ heard' = (heard \/ (x.bean.told /\ x.bean.status = DOWN))
             /\ x.bean.status = DOWN =>
                  x.bean.told = Announcement(x.cfg, x.prev, DOWN, isImportantBeat(x.prev, DOWN)).sent
  BY SendNotificationFields
<1>2. x.bean.status = DOWN /\ x.prev.status # DOWN => x.bean.told
  <2>1. x.cfg \in Config /\ x.prev \in Stored
    BY MonitorAssumption DEF MonitorObject
  <2>2. isImportantBeat(x.prev, DOWN) \in BOOLEAN
    BY DEF isImportantBeat, isImportantForNotification
  <2> QED BY <1>1, <2>1, <2>2, DownAnnounced, ImportantDown
<1>4. (heard => heard') /\ (x.bean.status = DOWN /\ x.bean.told => heard')
  BY <1>1, Zenon
<1>5. ~forked /\ newest.status = DOWN => heard
  BY DEF SeenInv
<1>6. Chained(obj[o], FALSE, newest, forked, heard)
  BY <1>1 DEF SeenInv, Busy
<1>7. x.bean.late => ~x.follows
  BY <1>1, <1>6 DEF Chained
<1>8. ~forked /\ x.follows => x.prev = newest
  BY <1>1, <1>6 DEF Chained
<1>9. ~forked /\ x.follows /\ x.bean.status = DOWN => heard'
  BY <1>2, <1>4, <1>5, <1>8
<1>10. Chained(x, x.pc \notin Busy, newest, forked, heard')
  BY <1>1, <1>7, <1>8, <1>9, Zenon DEF Chained, Busy
<1>11. Earlier'
  BY <1>1, UnderWayOfObjects, EarlierIsUnderWay, ObjectFacts DEF SendNotification, Earlier, Busy
<1> QED BY <1>1, <1>4, <1>10, <1>11, OneObjectSeen DEF SendNotification


\* A heartbeat is stored that follows from the last one: it is the newest.
LEMMA StoredIsNewest ==
    ASSUME NEW bean \in Bean, NEW follows \in BOOLEAN, Store(bean, follows),
           bean.late => ~follows, forked \in BOOLEAN, ~forked'
    PROVE  follows /\ ~forked /\ newest' = Row(bean) /\ latest' = Row(bean)
<1>1. follows /\ ~forked
  BY Zenon DEF Store
<1> QED BY <1>1 DEF Store

LEMMA StoredIsHeard ==
    ASSUME NEW bean \in Bean, NEW follows \in BOOLEAN, Store(bean, follows),
           bean.late => ~follows, forked \in BOOLEAN,
           ~forked /\ follows /\ bean.status = DOWN => heard
    PROVE  ~forked' => newest' = latest' /\ (newest'.status = DOWN => heard')
<1> SUFFICES ASSUME ~forked' PROVE newest' = latest' /\ (newest'.status = DOWN => heard')
  OBVIOUS
<1>1. follows /\ ~forked /\ newest' = Row(bean) /\ latest' = Row(bean)
  BY StoredIsNewest
<1>2. bean.status = DOWN => heard'
  BY <1>1, Zenon DEF Store
<1> QED BY <1>1, <1>2 DEF Row

\* What was passed is out of the chain; nothing idle is passed by a beat.
LEMMA PassedChained ==
    ASSUME NEW y, NEW x, NEW late \in BOOLEAN, Passed(y, x, late), NEW idle,
           idle => ~late, NEW n, NEW f, NEW h
    PROVE  Chained(y, idle, n, f, h)
BY Zenon DEF Passed, Chained

LEMMA LateIsUnderWay ==
    ASSUME IInv, SeenInv, NEW w \in Writer
    PROVE  /\ \A o \in Object : LET late == obj[o].bean.late \/ o \in earlier[w] IN
                  late \in BOOLEAN /\ (obj[o].pc \notin Busy => ~late)
           /\ \A c \in Call : LET late == call[c].bean.late \/ c \in earlier[w] IN
                  late \in BOOLEAN /\ (call[c].pc = "none" => ~late)
<1>1. earlier[w] \subseteq UnderWay
  BY DEF SeenInv
<1>2. ASSUME NEW o \in Object, obj[o].pc \notin Busy
      PROVE  ~(obj[o].bean.late \/ o \in earlier[w])
  <2>1. ~obj[o].bean.late
    BY <1>2 DEF SeenInv, Chained
  <2>2. o \notin UnderWay
    BY <1>2, MonitorAssumption DEF UnderWay, Busy
  <2> QED BY <1>1, <2>1, <2>2
<1>3. ASSUME NEW c \in Call, call[c].pc = "none"
      PROVE  ~(call[c].bean.late \/ c \in earlier[w])
  <2>1. ~call[c].bean.late
    BY <1>3 DEF SeenInv, Chained
  <2>2. c \notin UnderWay
    BY <1>3, MonitorAssumption DEF UnderWay
  <2> QED BY <1>1, <2>1, <2>2
<1> QED BY <1>2, <1>3, Zenon

\* The object of a beat that is stored.
LEMMA StoreBeatFields ==
    ASSUME IInv, NEW o \in Object, StoreBeat(o)
    PROVE  \E x \in MonitorObject :
             /\ x.prev = Row(obj[o].bean) /\ x.follows /\ x.cfg = obj[o].cfg
             /\ x.retries = obj[o].retries
             /\ obj' = [Superseded(obj, o) EXCEPT ![o] = NextCheck(x)]
             /\ obj'[o] = NextCheck(x)
             /\ \A y \in Object \ {o} : obj'[y] = Superseded(obj, o)[y]
             /\ obj[o].bean \in Bean /\ obj[o].follows \in BOOLEAN /\ obj[o].pc = "storing"
<1> DEFINE x == [obj[o] EXCEPT !.prev = Row(obj[o].bean), !.follows = TRUE]
<1>1. /\ obj[o] \in MonitorObject /\ obj[o].bean \in Bean /\ obj[o].bean.status \in Status
      /\ obj[o].follows \in BOOLEAN
  BY ObjectFacts DEF MonitorObject, Made, StoreBeat
<1>2. /\ x \in MonitorObject /\ x.prev = Row(obj[o].bean) /\ x.follows
      /\ x.cfg = obj[o].cfg /\ x.retries = obj[o].retries
  BY <1>1, RowType DEF MonitorObject
<1>3. obj' = [Superseded(obj, o) EXCEPT ![o] = NextCheck(x)]
  BY DEF StoreBeat
<1>4. DOMAIN Superseded(obj, o) = Object
  BY ObjectFacts DEF ObjectsOK, Superseded
<1> HIDE DEF x
<1>5. /\ obj'[o] = NextCheck(x)
      /\ \A y \in Object \ {o} : obj'[y] = Superseded(obj, o)[y]
  BY <1>3, <1>4
<1> QED BY <1>1, <1>2, <1>3, <1>5 DEF StoreBeat

LEMMA StoreBeatSeen ==
    ASSUME IInv, SeenInv, NEW o \in Object, StoreBeat(o) PROVE SeenInv'
<1>1. PICK x \in MonitorObject :
             /\ x.prev = Row(obj[o].bean)
             /\ obj'[o] = NextCheck(x)
             /\ \A y \in Object \ {o} : obj'[y] = Superseded(obj, o)[y]
             /\ obj[o].bean \in Bean /\ obj[o].follows \in BOOLEAN /\ obj[o].pc = "storing"
  BY StoreBeatFields
<1>2. Store(obj[o].bean, obj[o].follows) /\ call' = Superseded(call, o)
  BY DEF StoreBeat
<1>3. /\ obj[o].bean.late => ~obj[o].follows
      /\ ~forked /\ obj[o].follows /\ obj[o].bean.status = DOWN => heard
  BY <1>1 DEF SeenInv, Chained
<1>4. forked \in BOOLEAN /\ o \in Writer /\ o \notin Call
  BY MonitorAssumption DEF IInv, TypeOK, Writer
<1>5. ~forked' => newest' = latest' /\ (newest'.status = DOWN => heard')
  BY <1>1, <1>2, <1>3, <1>4, StoredIsHeard
<1>6. ~forked' => newest' = Row(obj[o].bean)
  BY <1>1, <1>2, <1>3, <1>4, StoredIsNewest
<1>7. Chained(obj'[o], obj'[o].pc \notin Busy, newest', forked', heard')
  BY <1>1, <1>6, NextCheckChained
<1>8. ASSUME NEW y \in Object \ {o}
      PROVE  /\ Chained(obj'[y], obj'[y].pc \notin Busy, newest', forked', heard')
             /\ obj'[y].pc = obj[y].pc
  <2>1. Passed(obj'[y], obj[y], obj[y].bean.late \/ y \in earlier[o])
    BY <1>1, SupersededPassed
  <2>2. obj'[y].pc = obj[y].pc
    BY <2>1 DEF Passed, Alike
  <2>3. (obj[y].bean.late \/ y \in earlier[o]) \in BOOLEAN
        /\ (obj'[y].pc \notin Busy => ~(obj[y].bean.late \/ y \in earlier[o]))
    BY <1>4, <2>2, LateIsUnderWay, Zenon
  <2> QED BY <2>1, <2>2, <2>3, PassedChained, Zenon
<1>9. ASSUME NEW c \in Call
      PROVE  /\ Chained(call'[c], call'[c].pc = "none", newest', forked', heard')
             /\ call'[c].pc = call[c].pc
  <2>1. Passed(call'[c], call[c], call[c].bean.late \/ c \in earlier[o])
    BY <1>2, SupersededPassed
  <2>2. call'[c].pc = call[c].pc
    BY <2>1 DEF Passed, Alike
  <2>3. (call[c].bean.late \/ c \in earlier[o]) \in BOOLEAN
        /\ (call'[c].pc = "none" => ~(call[c].bean.late \/ c \in earlier[o]))
    BY <1>4, <2>2, LateIsUnderWay, Zenon
  <2> QED BY <2>1, <2>2, <2>3, PassedChained, Zenon
<1>10. \A w \in Writer : earlier'[w] \subseteq UnderWay'
  <2>1. UnderWay \ {o} \subseteq UnderWay'
    BY <1>8, <1>9 DEF UnderWay
  <2> QED BY <1>4, <2>1, EarlierIsUnderWay DEF StoreBeat
<1>11. \A y \in Object : Chained(obj'[y], obj'[y].pc \notin Busy, newest', forked', heard')
  BY <1>7, <1>8
<1> QED BY <1>5, <1>9, <1>10, <1>11 DEF SeenInv, Chained

\* A beat that is given up, by an exception or for a monitor that is gone.
LEMMA GivenUpSeen ==
    ASSUME IInv, SeenInv, NEW o \in Object, obj' = [obj EXCEPT ![o] = NextCheck(@)],
           EndWriting(o), call' = call, tables' = tables, seen' = seen
    PROVE  SeenInv'
<1> DEFINE x == NextCheck(obj[o])
<1>1. obj' = [obj EXCEPT ![o] = x] /\ obj[o] \in MonitorObject
  BY ObjectFacts
<1>2. ~forked /\ obj[o].follows => obj[o].prev = newest
  BY DEF SeenInv, Chained
<1>3. Chained(x, x.pc \notin Busy, newest, forked, heard)
  BY <1>1, <1>2, NextCheckChained
<1> HIDE DEF x
<1>4. Earlier'
  BY <1>1, UnderWayOfObjects, EarlierIsUnderWay, ObjectFacts DEF Earlier
<1>5. forked' = forked /\ heard' = heard
  BY DEF seen
<1>6. Chained(x, x.pc \notin Busy, newest, forked, heard')
  BY <1>3, <1>5
<1> QED BY <1>1, <1>4, <1>5, <1>6, OneObjectSeen

LEMMA BeatGivenUpSeen ==
    ASSUME IInv, SeenInv, NEW o \in Object, BeatThrows(o) \/ BeatRefused(o) PROVE SeenInv'
BY GivenUpSeen DEF BeatThrows, BeatRefused

LEMMA PushBeginSeen ==
    ASSUME IInv, SeenInv, NEW c \in Call, PushBegin(c) PROVE SeenInv'
<1> DEFINE x == [pc |-> "deciding", cfg |-> row.cfg, prev |-> latest,
                 follows |-> TRUE, bean |-> NoBean]
<1>1. call' = [call EXCEPT ![c] = x] /\ call[c].pc = "none"
  BY DEF PushBegin
<1>2. Chained(x, x.pc = "none", newest, forked, heard)
  BY DEF Chained, SeenInv, NoBean
<1>3. Earlier'
  BY <1>1, UnderWayOfCalls, EarlierIsUnderWay, CallFacts DEF PushBegin, Earlier
<1> QED BY <1>1, <1>2, <1>3, OneCallSeen DEF PushBegin, seen

\* What a push call is when it has decided on its heartbeat.
LEMMA PushDecidesFields ==
    ASSUME IInv, NEW c \in Call, NEW status \in Status, NEW retries \in Nat,
           PushDecides(c, status, retries)
    PROVE  \E x \in PushCall :
             /\ call' = [call EXCEPT ![c] = x] /\ call[c].pc = "deciding"
             /\ x.pc = "storing" /\ x.cfg = call[c].cfg /\ x.prev = call[c].prev
             /\ x.follows = call[c].follows /\ x.bean.late = call[c].bean.late
             /\ x.bean.status = status /\ x.bean.retries = Capped(retries)
             /\ heard' = (heard \/ (x.bean.told /\ x.bean.status = DOWN))
             /\ x.bean.status = DOWN =>
                  LET a == Announcement(x.cfg, x.prev, DOWN,
                                        isImportantForNotification(x.prev, DOWN)) IN
                  x.bean.told = a.sent /\ x.bean.downCount = Capped(a.downCount)
<1> DEFINE a == Announcement(call[c].cfg, call[c].prev, status,
                             isImportantForNotification(call[c].prev, status))
           count == Capped(a.downCount)
           again == Capped(retries)
           sent == a.sent
           x == [call[c] EXCEPT !.pc = "storing",
                                !.bean = [@ EXCEPT !.status = status, !.retries = again,
                                                   !.downCount = count, !.told = sent]]
<1>1. call[c] \in PushCall /\ call[c].cfg \in Config /\ call[c].prev \in Stored
  BY CallFacts DEF PushCall
<1>2. isImportantForNotification(call[c].prev, status) \in BOOLEAN
  BY DEF isImportantForNotification
<1>3. sent \in BOOLEAN /\ count \in 0..Saturation /\ again \in 0..Saturation
  <2>1. a.sent \in BOOLEAN /\ a.downCount \in Nat
    BY <1>1, <1>2, AnnouncementType
  <2> QED BY <2>1, CappedType
<1>4. call' = [call EXCEPT ![c] = x]
  BY CallFacts DEF PushDecides, CallsOK
<1>5. heard' = (heard \/ (sent /\ status = DOWN)) /\ call[c].pc = "deciding"
  BY DEF PushDecides, Announce
<1>6. status = DOWN =>
        LET b == Announcement(call[c].cfg, call[c].prev, DOWN,
                              isImportantForNotification(call[c].prev, DOWN))
        IN  sent = b.sent /\ count = Capped(b.downCount)
  OBVIOUS
<1> HIDE DEF count, sent, again
<1>7. /\ x \in PushCall /\ x.pc = "storing" /\ x.cfg = call[c].cfg /\ x.prev = call[c].prev
      /\ x.follows = call[c].follows /\ x.bean.late = call[c].bean.late
      /\ x.bean.status = status /\ x.bean.retries = again
      /\ x.bean.told = sent /\ x.bean.downCount = count
  BY <1>1, <1>3 DEF PushCall, Bean
<1> HIDE DEF x
<1>8. x.bean.status = DOWN =>
        LET b == Announcement(x.cfg, x.prev, DOWN, isImportantForNotification(x.prev, DOWN))
        IN  x.bean.told = b.sent /\ x.bean.downCount = Capped(b.downCount)
  BY <1>6, <1>7
<1>9. heard' = (heard \/ (x.bean.told /\ x.bean.status = DOWN))
  BY <1>5, <1>7
<1> QED BY <1>4, <1>5, <1>7, <1>8, <1>9 DEF again

LEMMA PushDecidesSeen ==
    ASSUME IInv, SeenInv, NEW c \in Call, NEW status \in Status, NEW retries \in Nat,
           PushDecides(c, status, retries)
    PROVE  SeenInv'
<1>1. PICK x \in PushCall :
             /\ call' = [call EXCEPT ![c] = x] /\ call[c].pc = "deciding"
             /\ x.pc = "storing" /\ x.cfg = call[c].cfg /\ x.prev = call[c].prev
             /\ x.follows = call[c].follows /\ x.bean.late = call[c].bean.late
             /\ heard' = (heard \/ (x.bean.told /\ x.bean.status = DOWN))
             /\ x.bean.status = DOWN =>
                  x.bean.told = Announcement(x.cfg, x.prev, DOWN,
                                             isImportantForNotification(x.prev, DOWN)).sent
  BY PushDecidesFields
<1>2. x.bean.status = DOWN /\ x.prev.status # DOWN => x.bean.told
  <2>1. x.cfg \in Config /\ x.prev \in Stored
    BY MonitorAssumption DEF PushCall
  <2>2. isImportantForNotification(x.prev, DOWN) \in BOOLEAN
    BY DEF isImportantForNotification
  <2> QED BY <1>1, <2>1, <2>2, DownAnnounced
<1>4. (heard => heard') /\ (x.bean.status = DOWN /\ x.bean.told => heard')
  BY <1>1, Zenon
<1>5. ~forked /\ newest.status = DOWN => heard
  BY DEF SeenInv
<1>6. Chained(call[c], FALSE, newest, forked, heard)
  BY <1>1 DEF SeenInv
<1>7. x.bean.late => ~x.follows
  BY <1>1, <1>6 DEF Chained
<1>8. ~forked /\ x.follows => x.prev = newest
  BY <1>1, <1>6 DEF Chained
<1>9. ~forked /\ x.follows /\ x.bean.status = DOWN => heard'
  BY <1>2, <1>4, <1>5, <1>8
<1>10. Chained(x, x.pc = "none", newest, forked, heard')
  BY <1>1, <1>7, <1>8, <1>9, Zenon DEF Chained
<1>11. Earlier'
  BY <1>1, UnderWayOfCalls, EarlierIsUnderWay, CallFacts DEF PushDecides, Earlier
<1> QED BY <1>1, <1>4, <1>10, <1>11, OneCallSeen DEF PushDecides

\* What a push call decides on is well typed.
LEMMA PushDecision ==
    ASSUME IInv, NEW c \in Call, PushSays(c) \/ PushInMaintenance(c)
    PROVE  \E status \in Status, retries \in Nat : PushDecides(c, status, retries)
<1>1. CASE PushSays(c)
  BY <1>1, CallFacts, PushResultType DEF PushSays, PushCall
<1>2. CASE PushInMaintenance(c)
  BY <1>2 DEF PushInMaintenance, Status
<1> QED BY <1>1, <1>2

LEMMA PushStoreSeen ==
    ASSUME IInv, SeenInv, NEW c \in Call, PushStore(c) PROVE SeenInv'
<1>1. /\ call[c].bean \in Bean /\ call[c].follows \in BOOLEAN /\ call[c].pc = "storing"
  BY CallFacts DEF PushCall, PushStore
<1>2. /\ Store(call[c].bean, call[c].follows) /\ obj' = Superseded(obj, c)
      /\ call'[c] = NoCall /\ \A d \in Call \ {c} : call'[d] = Superseded(call, c)[d]
  <2>1. DOMAIN Superseded(call, c) = Call
    BY CallFacts DEF CallsOK, Superseded
  <2> QED BY <2>1 DEF PushStore
<1>3. /\ call[c].bean.late => ~call[c].follows
      /\ ~forked /\ call[c].follows /\ call[c].bean.status = DOWN => heard
  BY <1>1 DEF SeenInv, Chained
<1>4. forked \in BOOLEAN /\ c \in Writer /\ c \notin Object
  BY MonitorAssumption DEF IInv, TypeOK, Writer
<1>5. ~forked' => newest' = latest' /\ (newest'.status = DOWN => heard')
  BY <1>1, <1>2, <1>3, <1>4, StoredIsHeard
<1>6. Chained(call'[c], call'[c].pc = "none", newest', forked', heard')
  BY <1>2, NoBeansChained
<1>7. ASSUME NEW y \in Object
      PROVE  /\ Chained(obj'[y], obj'[y].pc \notin Busy, newest', forked', heard')
             /\ obj'[y].pc = obj[y].pc
  <2>1. Passed(obj'[y], obj[y], obj[y].bean.late \/ y \in earlier[c])
    BY <1>2, SupersededPassed
  <2>2. obj'[y].pc = obj[y].pc
    BY <2>1 DEF Passed, Alike
  <2>3. (obj[y].bean.late \/ y \in earlier[c]) \in BOOLEAN
        /\ (obj'[y].pc \notin Busy => ~(obj[y].bean.late \/ y \in earlier[c]))
    BY <1>4, <2>2, LateIsUnderWay, Zenon
  <2> QED BY <2>1, <2>2, <2>3, PassedChained, Zenon
<1>8. ASSUME NEW d \in Call \ {c}
      PROVE  /\ Chained(call'[d], call'[d].pc = "none", newest', forked', heard')
             /\ call'[d].pc = call[d].pc
  <2>1. Passed(call'[d], call[d], call[d].bean.late \/ d \in earlier[c])
    BY <1>2, SupersededPassed
  <2>2. call'[d].pc = call[d].pc
    BY <2>1 DEF Passed, Alike
  <2>3. (call[d].bean.late \/ d \in earlier[c]) \in BOOLEAN
        /\ (call'[d].pc = "none" => ~(call[d].bean.late \/ d \in earlier[c]))
    BY <1>4, <2>2, LateIsUnderWay, Zenon
  <2> QED BY <2>1, <2>2, <2>3, PassedChained, Zenon
<1>9. \A w \in Writer : earlier'[w] \subseteq UnderWay'
  <2>1. UnderWay \ {c} \subseteq UnderWay'
    BY <1>7, <1>8 DEF UnderWay
  <2> QED BY <1>4, <2>1, EarlierIsUnderWay DEF PushStore
<1>10. \A d \in Call : Chained(call'[d], call'[d].pc = "none", newest', forked', heard')
  BY <1>6, <1>8
<1> QED BY <1>5, <1>7, <1>9, <1>10 DEF SeenInv, Chained

LEMMA PushFailsSeen ==
    ASSUME IInv, SeenInv, NEW c \in Call, PushFails(c) PROVE SeenInv'
<1>1. call' = [call EXCEPT ![c] = NoCall]
  BY DEF PushFails
<1>2. Chained(NoCall, NoCall.pc = "none", newest, forked, heard)
  BY NoBeansChained
<1>3. Earlier'
  BY <1>1, UnderWayOfCalls, EarlierIsUnderWay, CallFacts DEF PushFails, Earlier
<1> QED BY <1>1, <1>2, <1>3, OneCallSeen DEF PushFails, seen

\* An object that is told to stop.
LEMMA StoppedSeen ==
    ASSUME NEW x \in MonitorObject
    PROVE  LET y == Stopped(x) IN
           /\ \/ y = Ended
              \/ /\ Alike(y, x) /\ y.bean = x.bean
                 /\ y.follows = x.follows /\ y.retries = x.retries
           /\ y.pc \in Busy <=> x.pc \in Busy
<1>1. CASE x.pc \in {"armed", "ended"}
  <2>1. Stopped(x) = Ended /\ Ended.pc = "ended"
    BY <1>1 DEF Stopped, Ended, NewObject
  <2> QED BY <1>1, <2>1 DEF Busy
<1>2. CASE x.pc \notin {"armed", "ended"}
  BY <1>2 DEF Stopped, MonitorObject, Alike, Busy
<1> QED BY <1>1, <1>2

\* Objects are stopped, and at most new ones are there: what is under way stays.
LEMMA RestartSeen ==
    ASSUME IInv, SeenInv,
           \A o \in Object : \/ obj'[o] = obj[o]
                             \/ obj'[o] = Stopped(obj[o])
                             \/ /\ obj[o].pc \notin Busy
                                /\ \E pc \in Inactive, cfg \in Settings : obj'[o] = NewObject(pc, cfg),
           call' = call, tables' = tables, earlier' = earlier, forked' = forked, heard' = heard
    PROVE  SeenInv'
<1>1. newest' = newest /\ latest' = latest
  BY DEF tables
<1>2. ASSUME NEW o \in Object
      PROVE  /\ Chained(obj'[o], obj'[o].pc \notin Busy, newest, forked, heard)
             /\ obj[o].pc \in Busy => obj'[o].pc \in Busy
  <2>1. Chained(obj[o], obj[o].pc \notin Busy, newest, forked, heard) /\ obj[o] \in MonitorObject
    BY ObjectFacts DEF SeenInv
  <2>2. CASE obj'[o] = obj[o]
    BY <2>1, <2>2
  <2>3. CASE obj'[o] = Stopped(obj[o])
    <3>1. PICK y : y = Stopped(obj[o])
      OBVIOUS
    <3>2. /\ \/ y = Ended
             \/ Alike(y, obj[o]) /\ y.bean = obj[o].bean /\ y.follows = obj[o].follows
          /\ y.pc \in Busy <=> obj[o].pc \in Busy
      BY <2>1, <3>1, StoppedSeen
    <3>3. CASE y = Ended
      BY <2>3, <3>1, <3>2, <3>3, NoBeansChained
    <3>4. CASE Alike(y, obj[o]) /\ y.bean = obj[o].bean /\ y.follows = obj[o].follows
      <4>1. Chained(y, y.pc \notin Busy, newest, forked, heard)
        BY <2>1, <3>2, <3>4 DEF Alike, Chained
      <4> QED BY <2>3, <3>1, <3>2, <4>1
    <3> QED BY <3>2, <3>3, <3>4
  <2>4. CASE /\ obj[o].pc \notin Busy
             /\ \E pc \in Inactive, cfg \in Settings : obj'[o] = NewObject(pc, cfg)
    BY <2>4, NoBeansChained
  <2> QED BY <2>2, <2>3, <2>4
<1>3. UnderWay \subseteq UnderWay'
  BY <1>2 DEF UnderWay, Busy
<1>4. \A c \in Call : Chained(call'[c], call'[c].pc = "none", newest', forked', heard')
  BY <1>1 DEF SeenInv
<1> QED BY <1>1, <1>2, <1>3, <1>4 DEF SeenInv

\* What Start, Stop and Unlist make of the objects.
LEMMA StartObjects ==
    ASSUME IInv, NEW r \in Socket, Start(r), NEW o \in Object
    PROVE  \/ obj'[o] = obj[o]
           \/ obj'[o] = Stopped(obj[o])
           \/ obj[o].pc = "ended" /\ obj'[o] = NewObject("starting", row.cfg)
<1>1. CASE ~row.exists
  BY <1>1 DEF Start
<1>2. CASE row.exists
  BY <1>2 DEF Start, IsFirst, Free
<1> QED BY <1>1, <1>2

LEMMA StopObjects ==
    ASSUME StopListed, NEW o \in Object
    PROVE  obj'[o] = obj[o] \/ obj'[o] = Stopped(obj[o])
BY DEF StopListed

LEMMA StartSeen ==
    ASSUME IInv, SeenInv, NEW r \in Socket, Start(r) PROVE SeenInv'
<1>1. row.cfg \in Settings
  BY DEF IInv, TypeOK
<1>2. \A o \in Object : \/ obj'[o] = obj[o]
                        \/ obj'[o] = Stopped(obj[o])
                        \/ /\ obj[o].pc \notin Busy
                           /\ \E pc \in Inactive, cfg \in Settings : obj'[o] = NewObject(pc, cfg)
  BY <1>1, StartObjects DEF Busy, Inactive
<1> QED BY <1>2, RestartSeen DEF Start

LEMMA StopSeen ==
    ASSUME IInv, SeenInv, NEW r \in Socket, Stop(r) \/ Unlist(r) PROVE SeenInv'
BY StopObjects, RestartSeen DEF Stop, Unlist, seen

LEMMA EmptyTableSeen ==
    ASSUME IInv, SeenInv, EmptyTable, earlier' = earlier, seen' = seen PROVE SeenInv'
<1>1. newest' = NoBeat /\ latest' = NoBeat
  BY DEF EmptyTable
<1>2. ASSUME NEW o \in Object
      PROVE  /\ Chained(obj'[o], obj'[o].pc \notin Busy, newest', forked', heard')
             /\ obj'[o].pc = obj[o].pc
  <2>1. Passed(obj'[o], obj[o], FALSE)
    BY ForgottenPassed
  <2> QED BY <2>1, PassedChained DEF Passed, Alike
<1>3. ASSUME NEW c \in Call
      PROVE  /\ Chained(call'[c], call'[c].pc = "none", newest', forked', heard')
             /\ call'[c].pc = call[c].pc
  <2>1. Passed(call'[c], call[c], FALSE)
    BY ForgottenPassed
  <2> QED BY <2>1, PassedChained DEF Passed, Alike
<1>4. UnderWay \subseteq UnderWay'
  BY <1>2, <1>3 DEF UnderWay
<1> QED BY <1>1, <1>2, <1>3, <1>4 DEF SeenInv, NoBeat, DOWN

LEMMA RequestSeen ==
    ASSUME IInv, SeenInv, NEW r \in Socket, Serve(r) PROVE SeenInv'
<1>1. CASE SaveEdit(r) \/ Activate(r) \/ Deactivate(r)
  BY <1>1, NothingSeen DEF SaveEdit, Activate, Deactivate, seen
<1>2. CASE Remove(r) \/ ClearHeartbeats(r)
  BY <1>2, EmptyTableSeen DEF Remove, ClearHeartbeats
<1> QED BY <1>1, <1>2, StartSeen, StopSeen DEF Serve

\* What Booted makes of the objects.
LEMMA CrashObjects ==
    ASSUME Crash, NEW o \in Object
    PROVE  obj'[o] = Ended \/ obj'[o] = NewObject("found", row.cfg)
BY DEF Crash, Booted

LEMMA CrashSeen == ASSUME IInv, SeenInv, Crash PROVE SeenInv'
<1>1. newest' = newest /\ latest' = latest /\ heard' = heard /\ forked' = forked
  BY DEF Crash, tables, seen
<1>2. row.cfg \in Settings
  BY DEF IInv, TypeOK
<1>3. \A o \in Object : Chained(obj'[o], obj'[o].pc \notin Busy, newest', forked', heard')
  BY <1>2, CrashObjects, NoBeansChained DEF Inactive
<1>4. \A c \in Call : Chained(call'[c], call'[c].pc = "none", newest', forked', heard')
  BY NoBeansChained DEF Crash
<1>5. \A w \in Writer : earlier'[w] = {}
  BY DEF Crash
<1> QED BY <1>1, <1>3, <1>4, <1>5 DEF SeenInv

LEMMA InitSeen == Init => SeenInv
<1> SUFFICES ASSUME Init PROVE SeenInv
  OBVIOUS
<1>1. row.cfg \in Settings /\ newest = NoBeat /\ latest = NoBeat
  BY DEF Init
<1>2. \A o \in Object : obj[o] = Ended \/ obj[o] = NewObject("found", row.cfg)
  BY DEF Init
<1>3. \A o \in Object : Chained(obj[o], obj[o].pc \notin Busy, newest, forked, heard)
  BY <1>1, <1>2, NoBeansChained DEF Inactive
<1>4. \A c \in Call : Chained(call[c], call[c].pc = "none", newest, forked, heard)
  BY NoBeansChained DEF Init
<1>5. \A w \in Writer : earlier[w] = {}
  BY DEF Init
<1> QED BY <1>1, <1>3, <1>4, <1>5 DEF SeenInv, NoBeat, DOWN

LEMMA NextSeen == ASSUME IInv, SeenInv, [Next]_vars PROVE SeenInv'
<1>1. ASSUME NEW o \in Object, Loop(o) PROVE SeenInv'
  BY <1>1, FillListSeen, StartListedSeen, StartDelayedSeen, BeginBeatSeen, CheckSeen, PushInTimeSeen,
     SendNotificationSeen, StoreBeatSeen, BeatGivenUpSeen DEF Loop
<1>2. ASSUME NEW c \in Call, Push(c) PROVE SeenInv'
  BY <1>2, PushDecision, PushDecidesSeen, PushStoreSeen, PushFailsSeen DEF Push
<1>3. ASSUME NEW r \in Socket, NEW op \in Operation, Receive(r, op) PROVE SeenInv'
  BY <1>3, NothingSeen DEF Receive, seen
<1>4. CASE UNCHANGED vars
  BY <1>4, NothingSeen DEF vars, seen
<1> QED BY <1>1, <1>2, <1>3, <1>4, BeatGivenUpSeen, PushBeginSeen, RequestSeen, CrashSeen DEF Next

\* As long as every heartbeat followed from the one before it, no DOWN is the
\* newest of a monitor unless the user was told since the last that was not,
\* whatever crashed or failed between the notice and the heartbeat and
\* however loops, push calls and requests interleave (monitor.js:1081-1119, 1178).
THEOREM NoSilentOutage == Spec => []OutagesAnnounced
<1>1. Init => IInv /\ SeenInv
  BY InitIInv, InitSeen
<1>2. IInv /\ SeenInv /\ [Next]_vars => (IInv /\ SeenInv)'
  BY NextIInv, NextSeen
<1>3. SeenInv => OutagesAnnounced
  BY DEF SeenInv, OutagesAnnounced
<1> QED BY <1>1, <1>2, <1>3, PTL DEF Spec

-----------------------------------------------------------------------------
(* RemindInv: where no edit changes resendInterval, the down count of the  *)
(* newest heartbeat bounds the DOWN beats since the last notice.           *)

\* Edits leave the interval of the reminders as it is.
IntervalStays == \A c \in Settings : \A d \in Edits[c] : d.resendInterval = c.resendInterval

\* Nothing is stored.
LEMMA NothingCounted ==
    ASSUME RemindInv, row' = row, newest' = newest, forked' = forked, unheard' = unheard,
           \A o \in Object : Reminding(obj'[o], "ended", row.cfg.resendInterval),
           \A c \in Call : Reminding(call'[c], "none", row.cfg.resendInterval)
    PROVE  RemindInv'
BY DEF RemindInv, Reminding, Lengthens, Counted

LEMMA OneObjectReminds ==
    ASSUME IInv, RemindInv, NEW o \in Object, NEW x, obj' = [obj EXCEPT ![o] = x],
           Reminding(x, "ended", row.cfg.resendInterval), call' = call, row' = row,
           newest' = newest, forked' = forked, unheard' = unheard
    PROVE  RemindInv'
<1>1. \A y \in Object : obj'[y] = IF y = o THEN x ELSE obj[y]
  BY DEF IInv, TypeOK
<1>2. \A y \in Object : Reminding(obj'[y], "ended", row.cfg.resendInterval)
  BY <1>1 DEF RemindInv
<1> QED BY <1>2, NothingCounted DEF RemindInv

LEMMA OneCallReminds ==
    ASSUME IInv, RemindInv, NEW c \in Call, NEW x, call' = [call EXCEPT ![c] = x],
           Reminding(x, "none", row.cfg.resendInterval), obj' = obj, row' = row,
           newest' = newest, forked' = forked, unheard' = unheard
    PROVE  RemindInv'
<1>1. \A y \in Call : call'[y] = IF y = c THEN x ELSE call[y]
  BY DEF IInv, TypeOK
<1>2. \A y \in Call : Reminding(call'[y], "none", row.cfg.resendInterval)
  BY <1>1 DEF RemindInv
<1> QED BY <1>2, NothingCounted DEF RemindInv

\* An object that is not about to store a beat.
LEMMA IdleReminds ==
    ASSUME RemindInv, NEW o \in Object, obj[o].pc # "ended",
           NEW x, x.pc # "storing", x.cfg = obj[o].cfg
    PROVE  Reminding(x, "ended", row.cfg.resendInterval)
BY DEF RemindInv, Reminding, Lengthens

LEMMA NextCheckReminds ==
    ASSUME NEW x \in MonitorObject, NEW r, x.cfg.resendInterval = r
    PROVE  Reminding(NextCheck(x), "ended", r)
<1>1. CASE x.stop
  BY <1>1, EndedType DEF NextCheck, Reminding, Lengthens, Ended, NewObject
<1>2. CASE ~x.stop
  BY <1>2 DEF NextCheck, Reminding, Lengthens, MonitorObject
<1> QED BY <1>1, <1>2

LEMMA NewReminds ==
    ASSUME NEW r
    PROVE  /\ Reminding(Ended, "ended", r) /\ Reminding(NoCall, "none", r)
           /\ \A pc \in Inactive, cfg \in Settings :
                 cfg.resendInterval = r => Reminding(NewObject(pc, cfg), "ended", r)
BY DEF Reminding, Lengthens, Ended, NewObject, NoCall, Inactive

LEMMA AlikeReminds ==
    ASSUME NEW x, NEW y, Alike(y, x), NEW idle, NEW r, Reminding(x, idle, r)
    PROVE  Reminding(y, idle, r)
BY DEF Alike, Reminding, Lengthens

LEMMA EarlyStepReminds ==
    ASSUME IInv, RemindInv, NEW o \in Object,
           FillList(o) \/ StartListed(o) \/ StartDelayed(o) \/ PushInTime(o)
    PROVE  RemindInv'
<1>1. obj[o] \in MonitorObject /\ obj[o].pc # "ended"
  BY ObjectFacts DEF FillList, StartListed, StartDelayed, PushInTime
<1>2. \E x : /\ obj' = [obj EXCEPT ![o] = x]
             /\ x.pc # "storing" /\ x.cfg = obj[o].cfg
  <2>1. CASE StartListed(o)
    <3> DEFINE x == [obj[o] EXCEPT !.pc = "starting"]
    <3>1. obj' = [obj EXCEPT ![o] = x]
      BY <2>1, ObjectFacts DEF StartListed, ObjectsOK
    <3>2. x.pc # "storing" /\ x.cfg = obj[o].cfg
      BY <1>1 DEF MonitorObject
    <3> QED BY <3>1, <3>2
  <2>2. CASE StartDelayed(o)
    <3> DEFINE x == [obj[o] EXCEPT !.pc = "delay"]
    <3>1. obj' = [obj EXCEPT ![o] = x]
      BY <2>2, ObjectFacts DEF StartDelayed, ObjectsOK
    <3>2. x.pc # "storing" /\ x.cfg = obj[o].cfg
      BY <1>1 DEF MonitorObject
    <3> QED BY <3>1, <3>2
  <2>3. CASE PushInTime(o)
    <3> DEFINE x == [obj[o] EXCEPT !.pc = "armed", !.retries = 0, !.bean = NoBean]
    <3>1. obj' = [obj EXCEPT ![o] = x]
      BY <2>3, ObjectFacts DEF PushInTime, ObjectsOK
    <3>2. x.pc # "storing" /\ x.cfg = obj[o].cfg
      BY <1>1 DEF MonitorObject
    <3> QED BY <3>1, <3>2
  <2>4. CASE FillList(o)
    <3> DEFINE x == [obj[o] EXCEPT !.pc = "listed"]
    <3>1. obj' = [obj EXCEPT ![o] = x]
      BY <2>4, ObjectFacts DEF FillList, ObjectsOK
    <3>2. x.pc # "storing" /\ x.cfg = obj[o].cfg
      BY <1>1 DEF MonitorObject
    <3> QED BY <3>1, <3>2
  <2> QED BY <2>1, <2>2, <2>3, <2>4
<1>3. call' = call /\ row' = row /\ newest' = newest /\ forked' = forked /\ unheard' = unheard
  BY DEF FillList, StartListed, StartDelayed, PushInTime, tables, seen
<1> QED BY <1>1, <1>2, <1>3, IdleReminds, OneObjectReminds

LEMMA MadeReminds ==
    ASSUME IInv, RemindInv, NEW o \in Object, BeginBeat(o) \/ Check(o)
    PROVE  RemindInv'
<1>1. obj[o].pc # "ended"
  BY DEF BeginBeat, Check
<1>2. \E x : /\ obj' = [obj EXCEPT ![o] = x]
             /\ x.pc # "storing" /\ x.cfg = obj[o].cfg
  <2>1. CASE BeginBeat(o)
    <3>1. PICK x \in MonitorObject : /\ obj' = [obj EXCEPT ![o] = x]
                                     /\ x.pc = "checking" /\ x.cfg = obj[o].cfg
      BY <2>1, BeginBeatFields
    <3> QED BY <3>1
  <2>2. CASE Check(o)
    <3>1. PICK x \in MonitorObject : /\ obj' = [obj EXCEPT ![o] = x]
                                     /\ x.pc = "announcing" /\ x.cfg = obj[o].cfg
      BY <2>2, CheckFields
    <3> QED BY <3>1
  <2> QED BY <2>1, <2>2
<1>3. call' = call /\ row' = row /\ newest' = newest /\ forked' = forked /\ unheard' = unheard
  BY DEF BeginBeat, Check, tables, seen
<1> QED BY <1>1, <1>2, <1>3, IdleReminds, OneObjectReminds

\* A beat that is about to be stored, of an object or of a call.
LEMMA AnnouncedLengthens ==
    ASSUME NEW x, x.cfg \in Settings, x.prev \in Stored, x.bean.status = DOWN =>
             \E reset \in BOOLEAN :
                /\ reset <=> isImportantForNotification(x.prev, DOWN)
                /\ x.bean.told = Announcement(x.cfg, x.prev, DOWN, reset).sent
                /\ x.bean.downCount = Capped(Announcement(x.cfg, x.prev, DOWN, reset).downCount)
    PROVE  Lengthens(x)
<1> SUFFICES ASSUME x.bean.status = DOWN, ~x.bean.told
             PROVE  /\ x.prev.status = DOWN
                    /\ x.cfg.resendInterval > 0 =>
                          /\ x.bean.downCount = x.prev.downCount + 1
                          /\ x.bean.downCount < x.cfg.resendInterval
  BY DEF Lengthens
<1>1. PICK reset \in BOOLEAN :
                /\ reset <=> isImportantForNotification(x.prev, DOWN)
                /\ x.bean.told = Announcement(x.cfg, x.prev, DOWN, reset).sent
                /\ x.bean.downCount = Capped(Announcement(x.cfg, x.prev, DOWN, reset).downCount)
  OBVIOUS
<1> DEFINE a == Announcement(x.cfg, x.prev, DOWN, reset)
<1>2. x.cfg \in Config /\ x.cfg.resendInterval <= Saturation
  BY MonitorAssumption
<1>3. ~a.sent
  BY <1>1
<1>4. /\ x.prev.status = DOWN
      /\ x.cfg.resendInterval > 0 => /\ a.downCount = x.prev.downCount + 1
                                     /\ a.downCount < x.cfg.resendInterval
  BY <1>1, <1>2, <1>3, DownAnnounced
<1> HIDE DEF a
<1>5. x.prev.downCount \in Nat /\ x.cfg.resendInterval \in Nat /\ Saturation \in Nat
  BY <1>2, MonitorAssumption DEF Stored, Config
<1>6. x.bean.downCount = Capped(a.downCount)
  BY <1>1 DEF a
<1> QED BY <1>2, <1>4, <1>5, <1>6 DEF Capped

LEMMA SendNotificationReminds ==
    ASSUME IInv, RemindInv, NEW o \in Object, SendNotification(o) PROVE RemindInv'
<1>1. PICK x \in MonitorObject :
             /\ obj' = [obj EXCEPT ![o] = x]
             /\ obj[o].pc = "announcing" /\ x.pc = "storing" /\ x.cfg = obj[o].cfg
             /\ x.bean.status = DOWN =>
                  LET a == Announcement(x.cfg, x.prev, DOWN, isImportantBeat(x.prev, DOWN)) IN
                  x.bean.told = a.sent /\ x.bean.downCount = Capped(a.downCount)
  BY SendNotificationFields
<1>2. isImportantBeat(x.prev, DOWN) \in BOOLEAN
  BY DEF isImportantBeat, isImportantForNotification
<1>3. Lengthens(x)
  BY <1>1, <1>2, ImportantDown, AnnouncedLengthens DEF MonitorObject
<1>4. x.cfg.resendInterval = row.cfg.resendInterval
  BY <1>1 DEF RemindInv, Reminding
<1> QED BY <1>1, <1>3, <1>4, OneObjectReminds DEF SendNotification, tables, Reminding

LEMMA GivenUpReminds ==
    ASSUME IInv, RemindInv, NEW o \in Object, BeatThrows(o) \/ BeatRefused(o) PROVE RemindInv'
<1> DEFINE x == NextCheck(obj[o])
<1>1. obj' = [obj EXCEPT ![o] = x] /\ obj[o] \in MonitorObject /\ obj[o].pc # "ended"
  BY ObjectFacts DEF BeatThrows, BeatRefused
<1>2. Reminding(x, "ended", row.cfg.resendInterval)
  BY <1>1, NextCheckReminds DEF RemindInv, Reminding
<1> HIDE DEF x
<1>3. call' = call /\ row' = row /\ newest' = newest /\ forked' = forked /\ unheard' = unheard
  BY DEF BeatThrows, BeatRefused, tables, seen
<1> QED BY <1>1, <1>2, <1>3, OneObjectReminds

\* A heartbeat is stored.
LEMMA StoreCounted ==
    ASSUME IInv, SeenInv, RemindInv,
           NEW x, Chained(x, FALSE, newest, forked, heard), x.pc = "storing", Lengthens(x),
           x.bean \in Bean, x.follows \in BOOLEAN,
           x.cfg.resendInterval = row.cfg.resendInterval, Store(x.bean, x.follows), row' = row
    PROVE  Counted(newest', forked', unheard', row.cfg.resendInterval)
<1> DEFINE r == row.cfg.resendInterval
<1> SUFFICES ASSUME ~forked', r > 0
             PROVE  unheard' < r /\ (newest'.status = DOWN => unheard' <= newest'.downCount)
  BY DEF Counted
<1>1. x.follows /\ ~forked /\ newest' = Row(x.bean)
  BY StoredIsNewest DEF Chained, IInv, TypeOK
<1>2. newest \in Stored /\ unheard \in 0..Saturation /\ r \in Nat /\ Saturation \in Nat
  BY MonitorAssumption DEF IInv, TypeOK, Config
<1>3. x.bean.downCount \in Nat /\ x.bean.told \in BOOLEAN
  BY MonitorAssumption DEF Bean
<1>4. CASE x.bean.status = DOWN /\ ~x.bean.told
  <2>1. /\ x.prev = newest /\ newest.status = DOWN
        /\ x.bean.downCount = newest.downCount + 1 /\ x.bean.downCount < r
    BY <1>1, <1>4 DEF Chained, Lengthens
  <2>2. unheard <= newest.downCount
    BY <1>1, <2>1 DEF RemindInv, Counted
  <2>3. unheard' = Capped(unheard + 1)
    BY <1>4 DEF Store
  <2>4. unheard' <= unheard + 1
    BY <1>2, <2>3 DEF Capped
  <2>5. newest'.downCount = x.bean.downCount
    BY <1>1 DEF Row
  <2>6. newest.downCount \in Nat /\ unheard' \in Nat
    BY <1>2, <2>3 DEF Stored, Capped
  <2> QED BY <1>2, <1>3, <2>1, <2>2, <2>4, <2>5, <2>6
<1>5. CASE ~(x.bean.status = DOWN /\ ~x.bean.told)
  <2>1. unheard' = 0
    BY <1>5 DEF Store
  <2>2. newest'.downCount = x.bean.downCount
    BY <1>1 DEF Row
  <2> QED BY <1>2, <1>3, <2>1, <2>2
<1> QED BY <1>4, <1>5

LEMMA StoreBeatReminds ==
    ASSUME IInv, SeenInv, RemindInv, NEW o \in Object, StoreBeat(o) PROVE RemindInv'
<1>1. PICK x \in MonitorObject :
             /\ x.cfg = obj[o].cfg /\ obj'[o] = NextCheck(x)
             /\ \A y \in Object \ {o} : obj'[y] = Superseded(obj, o)[y]
             /\ obj[o].bean \in Bean /\ obj[o].follows \in BOOLEAN /\ obj[o].pc = "storing"
  BY StoreBeatFields
<1>2. row' = row /\ call' = Superseded(call, o) /\ Store(obj[o].bean, obj[o].follows)
  BY DEF StoreBeat
<1>3. Reminding(obj[o], "ended", row.cfg.resendInterval)
  BY DEF RemindInv
<1>4. Reminding(obj'[o], "ended", row.cfg.resendInterval)
  BY <1>1, <1>3, NextCheckReminds DEF Reminding
<1>5. \A y \in Object \ {o} : Reminding(obj'[y], "ended", row.cfg.resendInterval)
  BY <1>1, SupersededPassed, AlikeReminds DEF RemindInv, Passed
<1>6. \A c \in Call : Reminding(call'[c], "none", row.cfg.resendInterval)
  BY <1>2, SupersededPassed, AlikeReminds DEF RemindInv, Passed
<1>7. Chained(obj[o], FALSE, newest, forked, heard)
  BY <1>1 DEF SeenInv, Busy
<1>8. Counted(newest', forked', unheard', row.cfg.resendInterval)
  BY <1>1, <1>2, <1>3, <1>7, StoreCounted DEF Reminding
<1> QED BY <1>2, <1>4, <1>5, <1>6, <1>8 DEF RemindInv, Reminding, Lengthens, Counted

LEMMA PushStoreReminds ==
    ASSUME IInv, SeenInv, RemindInv, NEW c \in Call, PushStore(c) PROVE RemindInv'
<1>1. /\ call[c].bean \in Bean /\ call[c].follows \in BOOLEAN /\ call[c].pc = "storing"
  BY CallFacts DEF PushCall, PushStore
<1>2. /\ Store(call[c].bean, call[c].follows) /\ obj' = Superseded(obj, c) /\ row' = row
      /\ call'[c] = NoCall /\ \A d \in Call \ {c} : call'[d] = Superseded(call, c)[d]
  <2>1. DOMAIN Superseded(call, c) = Call
    BY CallFacts DEF CallsOK, Superseded
  <2> QED BY <2>1 DEF PushStore
<1>3. Reminding(call[c], "none", row.cfg.resendInterval)
  BY DEF RemindInv
<1>4. \A y \in Object : Reminding(obj'[y], "ended", row.cfg.resendInterval)
  BY <1>2, SupersededPassed, AlikeReminds DEF RemindInv, Passed
<1>5. \A d \in Call \ {c} : Reminding(call'[d], "none", row.cfg.resendInterval)
  BY <1>2, SupersededPassed, AlikeReminds DEF RemindInv, Passed
<1>6. Reminding(call'[c], "none", row.cfg.resendInterval)
  BY <1>2, NewReminds
<1>7. Chained(call[c], FALSE, newest, forked, heard)
  BY <1>1 DEF SeenInv
<1>8. Counted(newest', forked', unheard', row.cfg.resendInterval)
  BY <1>1, <1>2, <1>3, <1>7, StoreCounted DEF Reminding
<1> QED BY <1>2, <1>4, <1>5, <1>6, <1>8 DEF RemindInv, Reminding, Lengthens, Counted

LEMMA PushReminds ==
    ASSUME IInv, SeenInv, RemindInv, NEW c \in Call, PushBegin(c) \/ Push(c) PROVE RemindInv'
<1>1. CASE PushBegin(c)
  <2> DEFINE x == [pc |-> "deciding", cfg |-> row.cfg, prev |-> latest,
                   follows |-> TRUE, bean |-> NoBean]
  <2>1. Reminding(x, "none", row.cfg.resendInterval)
    BY DEF Reminding, Lengthens
  <2> QED BY <1>1, <2>1, OneCallReminds DEF PushBegin, tables, seen
<1>2. CASE PushSays(c) \/ PushInMaintenance(c)
  <2>1. PICK status \in Status, retries \in Nat : PushDecides(c, status, retries)
    BY <1>2, PushDecision
  <2>2. PICK x \in PushCall :
             /\ call' = [call EXCEPT ![c] = x] /\ call[c].pc = "deciding"
             /\ x.pc = "storing" /\ x.cfg = call[c].cfg
             /\ x.bean.status = DOWN =>
                  LET a == Announcement(x.cfg, x.prev, DOWN,
                                        isImportantForNotification(x.prev, DOWN)) IN
                  x.bean.told = a.sent /\ x.bean.downCount = Capped(a.downCount)
    BY <2>1, PushDecidesFields
  <2>3. isImportantForNotification(x.prev, DOWN) \in BOOLEAN
    BY DEF isImportantForNotification
  <2>4. Lengthens(x)
    BY <2>2, <2>3, AnnouncedLengthens DEF PushCall
  <2>5. x.cfg.resendInterval = row.cfg.resendInterval
    BY <2>2 DEF RemindInv, Reminding
  <2>6. Reminding(x, "none", row.cfg.resendInterval)
    BY <2>4, <2>5 DEF Reminding
  <2>7. obj' = obj /\ row' = row /\ newest' = newest /\ forked' = forked /\ unheard' = unheard
    BY <2>1 DEF PushDecides, tables
  <2> QED BY <2>2, <2>6, <2>7, OneCallReminds
<1>3. CASE PushFails(c)
  <2>1. call' = [call EXCEPT ![c] = NoCall] /\ Reminding(NoCall, "none", row.cfg.resendInterval)
    BY <1>3, NewReminds DEF PushFails
  <2> QED BY <1>3, <2>1, OneCallReminds DEF PushFails, tables, seen
<1> QED BY <1>1, <1>2, <1>3, PushStoreReminds DEF Push

LEMMA StoppedReminds ==
    ASSUME IInv, RemindInv, NEW o \in Object, obj'[o] = Stopped(obj[o])
    PROVE  Reminding(obj'[o], "ended", row.cfg.resendInterval)
BY ObjectFacts, StoppedSeen, NewReminds, AlikeReminds DEF RemindInv

LEMMA StartReminds ==
    ASSUME IInv, RemindInv, NEW r \in Socket, Start(r) PROVE RemindInv'
<1>1. row.cfg \in Settings /\ row.cfg \in Config
  BY MonitorAssumption DEF IInv, TypeOK
<1>2. \A o \in Object : Reminding(obj'[o], "ended", row.cfg.resendInterval)
  <2> TAKE o \in Object
  <2>1. CASE obj'[o] = obj[o]
    BY <2>1 DEF RemindInv
  <2>2. CASE obj'[o] = Stopped(obj[o])
    BY <2>2, StoppedReminds
  <2>3. CASE obj'[o] = NewObject("starting", row.cfg)
    BY <1>1, <2>3, NewReminds DEF Inactive
  <2> QED BY <2>1, <2>2, <2>3, StartObjects
<1>3. /\ call' = call /\ row' = row /\ newest' = newest /\ forked' = forked /\ unheard' = 0
  BY DEF Start, tables
<1>4. newest.downCount \in Nat /\ row.cfg.resendInterval \in Nat
  BY <1>1, MonitorAssumption DEF IInv, TypeOK, Stored, Config
<1>5. Counted(newest, forked, 0, row.cfg.resendInterval)
  BY <1>4 DEF Counted
<1> QED BY <1>2, <1>3, <1>5 DEF RemindInv, Reminding, Lengthens, Counted

LEMMA StopReminds ==
    ASSUME IInv, RemindInv, NEW r \in Socket, Stop(r) \/ Unlist(r) PROVE RemindInv'
<1>1. StopListed /\ call' = call /\ row' = row /\ newest' = newest /\ forked' = forked
      /\ unheard' = unheard
  BY DEF Stop, Unlist, tables, seen
<1>2. \A o \in Object : Reminding(obj'[o], "ended", row.cfg.resendInterval)
  BY <1>1, StopObjects, StoppedReminds DEF RemindInv
<1> QED BY <1>1, <1>2, NothingCounted DEF RemindInv

LEMMA EmptyTableReminds ==
    ASSUME IInv, RemindInv, NEW r \in Socket, Remove(r) \/ ClearHeartbeats(r) PROVE RemindInv'
<1>1. /\ EmptyTable /\ row'.cfg = row.cfg /\ forked' = forked /\ unheard' = unheard
  BY DEF Remove, ClearHeartbeats, seen, IInv, TypeOK
<1>2. \A o \in Object : Reminding(obj'[o], "ended", row.cfg.resendInterval)
  BY <1>1, ForgottenPassed, AlikeReminds DEF RemindInv, Passed
<1>3. \A c \in Call : Reminding(call'[c], "none", row.cfg.resendInterval)
  BY <1>1, ForgottenPassed, AlikeReminds DEF RemindInv, Passed
<1>4. Counted(newest', forked, unheard, row.cfg.resendInterval)
  BY <1>1 DEF RemindInv, Counted, EmptyTable, NoBeat, DOWN
<1> QED BY <1>1, <1>2, <1>3, <1>4 DEF RemindInv, Reminding, Lengthens, Counted

\* Requests that change the row.
LEMMA RowReminds ==
    ASSUME IntervalStays, IInv, RemindInv, NEW r \in Socket,
           SaveEdit(r) \/ Activate(r) \/ Deactivate(r)
    PROVE  RemindInv'
<1>1. row \in [exists : BOOLEAN, active : BOOLEAN, cfg : Settings]
  BY DEF IInv, TypeOK
<1>2. row'.cfg.resendInterval = row.cfg.resendInterval
  <2>1. CASE SaveEdit(r)
    BY <1>1, <2>1 DEF SaveEdit, IntervalStays
  <2>2. CASE Activate(r)
    <3> DEFINE on == row.active \/ row.exists
    <3>1. row' = [row EXCEPT !.active = on]
      BY <2>2, Zenon DEF Activate
    <3> HIDE DEF on
    <3> QED BY <1>1, <3>1
  <2>3. CASE Deactivate(r)
    BY <1>1, <2>3 DEF Deactivate
  <2> QED BY <2>1, <2>2, <2>3
<1>3. obj' = obj /\ call' = call /\ newest' = newest /\ forked' = forked /\ unheard' = unheard
  BY DEF SaveEdit, Activate, Deactivate, tables, seen
<1> QED BY <1>2, <1>3 DEF RemindInv, Reminding, Lengthens, Counted

LEMMA CrashReminds == ASSUME IInv, RemindInv, Crash PROVE RemindInv'
<1>1. row.cfg \in Settings
  BY DEF IInv, TypeOK
<1>2. \A o \in Object : Reminding(obj'[o], "ended", row.cfg.resendInterval)
  BY <1>1, CrashObjects, NewReminds DEF Inactive
<1>3. \A c \in Call : Reminding(call'[c], "none", row.cfg.resendInterval)
  BY NewReminds DEF Crash
<1>4. row' = row /\ newest' = newest /\ forked' = forked /\ unheard' = unheard
  BY DEF Crash, tables, seen
<1> QED BY <1>2, <1>3, <1>4, NothingCounted

LEMMA InitReminds == Init => RemindInv
<1> SUFFICES ASSUME Init PROVE RemindInv
  OBVIOUS
<1>1. row.cfg \in Settings /\ newest = NoBeat /\ unheard = 0 /\ row.cfg.resendInterval \in Nat
  BY MonitorAssumption DEF Init, Config
<1>2. \A o \in Object : obj[o] = Ended \/ obj[o] = NewObject("found", row.cfg)
  BY DEF Init
<1>3. \A o \in Object : Reminding(obj[o], "ended", row.cfg.resendInterval)
  BY <1>1, <1>2, NewReminds DEF Inactive
<1>4. \A c \in Call : Reminding(call[c], "none", row.cfg.resendInterval)
  BY NewReminds DEF Init
<1>5. Counted(newest, forked, unheard, row.cfg.resendInterval)
  BY <1>1 DEF Counted, NoBeat, DOWN
<1> QED BY <1>3, <1>4, <1>5 DEF RemindInv

LEMMA NextReminds ==
    ASSUME IntervalStays, IInv, SeenInv, RemindInv, [Next]_vars PROVE RemindInv'
<1>1. ASSUME NEW o \in Object, Loop(o) PROVE RemindInv'
  BY <1>1, EarlyStepReminds, MadeReminds, SendNotificationReminds, StoreBeatReminds,
     GivenUpReminds DEF Loop
<1>2. ASSUME NEW r \in Socket, Serve(r) PROVE RemindInv'
  BY <1>2, RowReminds, StartReminds, StopReminds, EmptyTableReminds DEF Serve
<1>3. CASE \/ \E r \in Socket, op \in Operation : Receive(r, op)
           \/ UNCHANGED vars
  <2>1. row' = row /\ obj' = obj /\ call' = call /\ newest' = newest /\ forked' = forked
        /\ unheard' = unheard
    BY <1>3 DEF Receive, vars, tables, seen
  <2> QED BY <2>1, NothingCounted DEF RemindInv
<1> QED BY <1>1, <1>2, <1>3, GivenUpReminds, PushReminds, CrashReminds DEF Next

\* Where no edit changes the interval, a running monitor with reminders never
\* has as many DOWN beats behind it as the interval says without a notice,
\* across restarts, push calls and heartbeats lost (monitor.js:1105-1118,
\* api-router.js:109-122).
THEOREM RemindersComeInTime == ASSUME IntervalStays PROVE Spec => []RemindsInTime
<1>1. Init => IInv /\ SeenInv /\ RemindInv
  BY InitIInv, InitSeen, InitReminds
<1>2. IInv /\ SeenInv /\ RemindInv /\ [Next]_vars => (IInv /\ SeenInv /\ RemindInv)'
  BY NextIInv, NextSeen, NextReminds
<1>3. IInv /\ RemindInv => RemindsInTime
  <2> SUFFICES ASSUME IInv, RemindInv, NEW o \in Object, ~forked, Running(o),
                      obj[o].cfg.resendInterval > 0
               PROVE  unheard < obj[o].cfg.resendInterval
    BY DEF RemindsInTime
  <2>1. obj[o].cfg.resendInterval = row.cfg.resendInterval
    BY DEF RemindInv, Reminding, Running
  <2> QED BY <2>1 DEF RemindInv, Counted
<1> QED BY <1>1, <1>2, <1>3, PTL DEF Spec

-----------------------------------------------------------------------------
(* RetryInv: where nothing empties the heartbeat table, a loop that follows *)
(* has counted no more attempts than have failed.                          *)

\* No request deletes the monitor or clears its heartbeats.
TableIsKept == \A c \in Settings : Requests[c] \cap {"delete", "clearHeartbeats"} = {}

\* What is counted is a number.
LEMMA CountTypes ==
    ASSUME IInv
    PROVE  /\ failures \in 0..Saturation /\ newest.retries \in 0..Saturation /\ Saturation \in Nat
           /\ \A o \in Object : /\ obj[o].retries \in 0..Saturation
                                /\ obj[o].cfg.maxretries \in Nat
                                /\ obj[o].cfg.maxretries < Saturation
           /\ \A c \in Call : call[c].bean.retries \in 0..Saturation
BY MonitorAssumption DEF IInv, TypeOK, MonitorObject, PushCall, Bean, Stored, Config

LEMMA CappedGrows ==
    ASSUME NEW m \in Nat, NEW n \in Nat, m <= n
    PROVE  /\ Capped(m) <= Capped(n) /\ Capped(m) <= m
           /\ n <= Saturation => n <= Capped(n + 1)
           /\ \A k \in Nat : k < Saturation /\ k <= n => Capped(n + 1) > k
BY MonitorAssumption DEF Capped

LEMMA TriesMore ==
    ASSUME NEW x, x.retries \in Nat, x.cfg.maxretries \in Nat, NEW f, NEW l,
           NEW m \in Nat, NEW n \in Nat, m <= n, Tries(x, f, m, l)
    PROVE  Tries(x, f, n, l)
BY DEF Tries

LEMMA PushesMore ==
    ASSUME NEW x, x.bean.retries \in Nat, NEW f, NEW m \in Nat, NEW n \in Nat, m <= n,
           Pushes(x, f, m)
    PROVE  Pushes(x, f, n)
BY DEF Pushes

\* Nothing is stored, and failures only grow.
LEMMA OneObjectTries ==
    ASSUME IInv, RetryInv, NEW o \in Object, NEW x, obj' = [obj EXCEPT ![o] = x],
           Tries(x, forked, failures', latest), failures' \in Nat, failures <= failures',
           NothingEmpties', call' = call, tables' = tables, forked' = forked
    PROVE  RetryInv'
<1>1. \A y \in Object : obj'[y] = IF y = o THEN x ELSE obj[y]
  BY DEF IInv, TypeOK
<1>2. newest' = newest /\ latest' = latest /\ failures \in Nat
  BY CountTypes DEF tables
<1>3. \A y \in Object : Tries(obj'[y], forked', failures', latest')
  BY <1>1, <1>2, CountTypes, TriesMore DEF RetryInv
<1>4. \A c \in Call : Pushes(call'[c], forked', failures')
  BY <1>2, CountTypes, PushesMore DEF RetryInv
<1>5. ~forked' => newest'.retries <= failures'
  BY <1>2, CountTypes DEF RetryInv
<1>6. forked' => latest' # NoBeat
  BY <1>2 DEF RetryInv
<1> QED BY <1>3, <1>4, <1>5, <1>6 DEF RetryInv

LEMMA OneCallTries ==
    ASSUME IInv, RetryInv, NEW c \in Call, NEW x, call' = [call EXCEPT ![c] = x],
           Pushes(x, forked, failures'), failures' \in Nat, failures <= failures',
           NothingEmpties', obj' = obj, tables' = tables, forked' = forked
    PROVE  RetryInv'
<1>1. \A y \in Call : call'[y] = IF y = c THEN x ELSE call[y]
  BY DEF IInv, TypeOK
<1>2. newest' = newest /\ latest' = latest /\ failures \in Nat
  BY CountTypes DEF tables
<1>3. \A y \in Object : Tries(obj'[y], forked', failures', latest')
  BY <1>2, CountTypes, TriesMore DEF RetryInv
<1>4. \A y \in Call : Pushes(call'[y], forked', failures')
  BY <1>1, <1>2, CountTypes, PushesMore DEF RetryInv
<1>5. ~forked' => newest'.retries <= failures'
  BY <1>2, CountTypes DEF RetryInv
<1>6. forked' => latest' # NoBeat
  BY <1>2 DEF RetryInv
<1> QED BY <1>3, <1>4, <1>5, <1>6 DEF RetryInv

LEMMA NothingTried ==
    ASSUME RetryInv, NothingEmpties', tables' = tables, forked' = forked, failures' = failures,
           \A o \in Object : Tries(obj'[o], forked, failures, latest),
           \A c \in Call : Pushes(call'[c], forked, failures)
    PROVE  RetryInv'
<1>1. newest' = newest /\ latest' = latest
  BY DEF tables
<1> QED BY <1>1 DEF RetryInv

LEMMA KeepsTable ==
    ASSUME RetryInv, req' = req PROVE NothingEmpties'
BY DEF RetryInv, NothingEmpties

LEMMA NewTries ==
    ASSUME NEW f, NEW n \in Nat, NEW l
    PROVE  /\ Tries(Ended, f, n, l) /\ Pushes(NoCall, f, n)
           /\ \A pc \in Inactive, cfg \in Settings : Tries(NewObject(pc, cfg), f, n, l)
<1>1. Ended.pc = "ended" /\ Ended.retries = 0
  BY DEF Ended, NewObject
<1>2. \A pc \in Inactive, cfg \in Settings :
         NewObject(pc, cfg).pc = pc /\ NewObject(pc, cfg).retries = 0
  BY DEF NewObject
<1> QED BY <1>1, <1>2 DEF Tries, Pushes, NoCall, Inactive

LEMMA NextCheckTries ==
    ASSUME NEW x \in MonitorObject, NEW f, NEW n \in Nat, NEW l,
           ~f /\ (x.follows \/ l = NoBeat) => x.retries <= n
    PROVE  Tries(NextCheck(x), f, n, l)
<1>1. CASE x.stop
  BY <1>1, NewTries DEF NextCheck
<1>2. CASE ~x.stop
  BY <1>2 DEF NextCheck, Tries, MonitorObject
<1> QED BY <1>1, <1>2

LEMMA EarlyStepTries ==
    ASSUME IInv, RetryInv, NEW o \in Object,
           FillList(o) \/ StartListed(o) \/ StartDelayed(o) \/ PushInTime(o)
    PROVE  RetryInv'
<1>1. obj[o] \in MonitorObject
  BY ObjectFacts
<1>2. \E x : /\ obj' = [obj EXCEPT ![o] = x]
             /\ x.pc \notin {"announcing", "storing"} /\ x.follows = obj[o].follows
             /\ x.retries = 0 \/ x.retries = obj[o].retries
  <2>1. CASE StartListed(o)
    <3> DEFINE x == [obj[o] EXCEPT !.pc = "starting"]
    <3>1. obj' = [obj EXCEPT ![o] = x]
      BY <2>1, ObjectFacts DEF StartListed, ObjectsOK
    <3>2. x.pc = "starting" /\ x.follows = obj[o].follows /\ x.retries = obj[o].retries
      BY <1>1 DEF MonitorObject
    <3> QED BY <3>1, <3>2
  <2>2. CASE StartDelayed(o)
    <3> DEFINE x == [obj[o] EXCEPT !.pc = "delay"]
    <3>1. obj' = [obj EXCEPT ![o] = x]
      BY <2>2, ObjectFacts DEF StartDelayed, ObjectsOK
    <3>2. x.pc = "delay" /\ x.follows = obj[o].follows /\ x.retries = obj[o].retries
      BY <1>1 DEF MonitorObject
    <3> QED BY <3>1, <3>2
  <2>3. CASE PushInTime(o)
    <3> DEFINE x == [obj[o] EXCEPT !.pc = "armed", !.retries = 0, !.bean = NoBean]
    <3>1. obj' = [obj EXCEPT ![o] = x]
      BY <2>3, ObjectFacts DEF PushInTime, ObjectsOK
    <3>2. x.pc = "armed" /\ x.follows = obj[o].follows /\ x.retries = 0
      BY <1>1 DEF MonitorObject
    <3> QED BY <3>1, <3>2
  <2>4. CASE FillList(o)
    <3> DEFINE x == [obj[o] EXCEPT !.pc = "listed"]
    <3>1. obj' = [obj EXCEPT ![o] = x]
      BY <2>4, ObjectFacts DEF FillList, ObjectsOK
    <3>2. x.pc = "listed" /\ x.follows = obj[o].follows /\ x.retries = obj[o].retries
      BY <1>1 DEF MonitorObject
    <3> QED BY <3>1, <3>2
  <2> QED BY <2>1, <2>2, <2>3, <2>4
<1>3. /\ call' = call /\ req' = req /\ tables' = tables /\ forked' = forked
      /\ failures' = failures
  BY DEF FillList, StartListed, StartDelayed, PushInTime, seen
<1>4. PICK x : /\ obj' = [obj EXCEPT ![o] = x]
               /\ x.pc \notin {"announcing", "storing"} /\ x.follows = obj[o].follows
               /\ x.retries = 0 \/ x.retries = obj[o].retries
  BY <1>2
<1>5. failures \in Nat /\ Tries(x, forked, failures, latest)
  BY <1>4, CountTypes DEF RetryInv, Tries
<1>6. failures' \in Nat /\ failures <= failures'
  BY <1>3, <1>5
<1> QED BY <1>3, <1>4, <1>5, <1>6, KeepsTable, OneObjectTries

LEMMA BeginBeatTries ==
    ASSUME IInv, SeenInv, RetryInv, NEW o \in Object, BeginBeat(o) PROVE RetryInv'
<1> DEFINE reads == obj[o].prev = NoBeat \/ obj[o].cfg.push
<1>1. PICK x \in MonitorObject :
             /\ obj' = [obj EXCEPT ![o] = x] /\ x.pc = "checking"
             /\ ~reads => x.follows = obj[o].follows
             /\ x.retries = IF reads /\ newest # NoBeat THEN newest.retries ELSE obj[o].retries
  BY BeginBeatFields
<1>2. ~forked /\ (x.follows \/ latest = NoBeat) => x.retries <= failures
  <2>1. CASE reads /\ newest # NoBeat
    BY <1>1, <2>1 DEF RetryInv
  <2>2. CASE reads /\ newest = NoBeat
    BY <1>1, <2>2 DEF RetryInv, Tries, SeenInv
  <2>3. CASE ~reads
    BY <1>1, <2>3 DEF RetryInv, Tries
  <2> QED BY <2>1, <2>2, <2>3
<1>3. Tries(x, forked, failures, latest) /\ failures \in Nat
  BY <1>1, <1>2, CountTypes DEF Tries
<1>4. /\ call' = call /\ req' = req /\ tables' = tables /\ forked' = forked
      /\ failures' = failures
  BY DEF BeginBeat, seen
<1>5. failures' \in Nat /\ failures <= failures'
  BY <1>3, <1>4
<1> QED BY <1>1, <1>3, <1>4, <1>5, KeepsTable, OneObjectTries

\* A check that fails, or decides on DOWN at once.
LEMMA CheckCounts ==
    ASSUME NEW c \in Config, NEW outcome \in Outcome, NEW n \in Nat
    PROVE  LET result == CheckResult(c, outcome, n) IN
           /\ IsFailure(c, outcome) => /\ result.retries = n + 1
                                       /\ result.status = DOWN => n >= c.maxretries
           /\ ~IsFailure(c, outcome) => result.retries = 0
<1>1. CASE IsFailure(c, outcome)
  <2>1. IsError(c, outcome)
    BY <1>1 DEF IsFailure
  <2>2. CheckResult(c, outcome, n) =
           [status |-> IF n < c.maxretries THEN PENDING ELSE DOWN, retries |-> n + 1]
    BY <1>1, <2>1 DEF CheckResult
  <2>3. c.maxretries \in Nat /\ PENDING # DOWN
    BY DEF Config, PENDING, DOWN
  <2> QED BY <1>1, <2>2, <2>3
<1>2. CASE ~IsFailure(c, outcome)
  BY <1>2 DEF CheckResult
<1> QED BY <1>1, <1>2

LEMMA CheckTries ==
    ASSUME IInv, RetryInv, NEW o \in Object, Check(o) PROVE RetryInv'
<1>1. PICK x \in MonitorObject, outcome \in Outcome :
             LET result == CheckResult(obj[o].cfg, outcome, obj[o].retries) IN
             /\ obj' = [obj EXCEPT ![o] = x]
             /\ x.pc = "announcing" /\ x.cfg = obj[o].cfg
             /\ x.follows = obj[o].follows
             /\ x.retries = Capped(result.retries) /\ x.bean.retries = x.retries
             /\ x.bean.status = result.status
             /\ failures' = Failed(IsFailure(obj[o].cfg, outcome), result.status)
  BY CheckFields
<1> DEFINE result == CheckResult(obj[o].cfg, outcome, obj[o].retries)
           max == obj[o].cfg.maxretries
<1>2. /\ failures \in Nat /\ failures <= Saturation /\ Saturation \in Nat
      /\ obj[o].retries \in Nat /\ max \in Nat /\ max < Saturation /\ obj[o].cfg \in Config
  BY CountTypes, ObjectFacts
<1>3. /\ IsFailure(obj[o].cfg, outcome) => /\ result.retries = obj[o].retries + 1
                                           /\ result.status = DOWN => obj[o].retries >= max
      /\ ~IsFailure(obj[o].cfg, outcome) => result.retries = 0
  BY <1>2, CheckCounts
<1>4. ~forked /\ (obj[o].follows \/ latest = NoBeat) => obj[o].retries <= failures
  BY DEF RetryInv, Tries
<1> HIDE DEF result
<1>5. Tries(x, forked, failures', latest) /\ failures' \in Nat /\ failures <= failures'
  <2>1. CASE IsFailure(obj[o].cfg, outcome)
    <3>1. failures' = Capped(failures + 1) /\ x.retries = Capped(obj[o].retries + 1)
      BY <1>1, <1>3, <2>1 DEF result, Failed
    <3>2. failures' \in Nat /\ failures <= failures'
      BY <1>2, <3>1, CappedType, CappedGrows
    <3>3. obj[o].retries <= failures => x.retries <= failures'
      BY <1>2, <3>1, CappedGrows
    <3>4. obj[o].retries <= failures /\ x.bean.status = DOWN => failures' > max
      <4>1. \A k \in Nat : k < Saturation /\ k <= failures => Capped(failures + 1) > k
        BY <1>2, CappedGrows
      <4>2. x.bean.status = DOWN => obj[o].retries >= max
        BY <1>1, <1>3, <2>1 DEF result
      <4>3. obj[o].retries <= failures /\ x.bean.status = DOWN => max <= failures
        BY <1>2, <4>2
      <4> QED BY <1>2, <3>1, <4>1, <4>3
    <3> QED BY <1>1, <1>4, <3>2, <3>3, <3>4 DEF Tries
  <2>2. CASE ~IsFailure(obj[o].cfg, outcome)
    <3>1. failures' = (IF result.status = DOWN THEN Saturation ELSE failures) /\ x.retries = 0
      BY <1>1, <1>2, <1>3, <2>2 DEF result, Capped, Failed
    <3> QED BY <1>1, <1>2, <3>1 DEF Tries, result
  <2> QED BY <2>1, <2>2
<1> QED BY <1>1, <1>5, KeepsTable, OneObjectTries DEF Check

LEMMA SendNotificationTries ==
    ASSUME IInv, RetryInv, NEW o \in Object, SendNotification(o) PROVE RetryInv'
<1>1. PICK x \in MonitorObject :
             /\ obj' = [obj EXCEPT ![o] = x]
             /\ obj[o].pc = "announcing" /\ x.pc = "storing"
             /\ x.follows = obj[o].follows /\ x.retries = obj[o].retries
             /\ x.bean.retries = obj[o].bean.retries
  BY SendNotificationFields
<1>2. Tries(x, forked, failures, latest)
  BY <1>1 DEF RetryInv, Tries
<1>3. /\ call' = call /\ req' = req /\ tables' = tables /\ forked' = forked
      /\ failures' = failures
  BY DEF SendNotification
<1>4. Tries(x, forked, failures', latest) /\ failures' \in Nat /\ failures <= failures'
  BY <1>2, <1>3, CountTypes
<1> QED BY <1>1, <1>3, <1>4, KeepsTable, OneObjectTries

LEMMA GivenUpTries ==
    ASSUME IInv, RetryInv, NEW o \in Object, BeatThrows(o) \/ BeatRefused(o) PROVE RetryInv'
<1> DEFINE x == NextCheck(obj[o])
<1>1. obj' = [obj EXCEPT ![o] = x] /\ obj[o] \in MonitorObject
  BY ObjectFacts DEF BeatThrows, BeatRefused
<1>2. /\ call' = call /\ req' = req /\ tables' = tables /\ forked' = forked
      /\ failures' = failures
  BY DEF BeatThrows, BeatRefused, seen
<1>3. failures \in Nat
  BY CountTypes
<1>4. ~forked /\ (obj[o].follows \/ latest = NoBeat) => obj[o].retries <= failures
  BY DEF RetryInv, Tries
<1>5. Tries(x, forked, failures, latest)
  BY <1>1, <1>3, <1>4, NextCheckTries
<1> HIDE DEF x
<1>6. Tries(x, forked, failures', latest) /\ failures' \in Nat /\ failures <= failures'
  BY <1>2, <1>3, <1>5
<1> QED BY <1>1, <1>2, <1>6, KeepsTable, OneObjectTries

\* A heartbeat is stored: whoever does not make it is out of the chain.
LEMMA StoreTries ==
    ASSUME IInv, RetryInv, NEW bean \in Bean, NEW follows \in BOOLEAN, Store(bean, follows),
           bean.late => ~follows, bean.status \in Status,
           ~forked /\ follows => bean.retries <= failures
    PROVE  /\ latest' # NoBeat /\ failures' \in Nat
           /\ ~forked' => newest'.retries = bean.retries /\ bean.retries <= failures'
<1>1. latest' = Row(bean)
  BY DEF Store
<1>2. latest' # NoBeat
  <2>1. latest'.status \in Status
    BY <1>1 DEF Row
  <2> QED BY <2>1 DEF NoBeat, Status, UP, DOWN, PENDING, MAINTENANCE
<1>3. failures \in Nat /\ bean.retries \in Nat
  BY CountTypes, MonitorAssumption DEF Bean
<1>4. failures' = IF bean.retries = 0 /\ bean.status # DOWN THEN 0 ELSE failures
  BY DEF Store
<1>5. ASSUME ~forked' PROVE newest'.retries = bean.retries /\ bean.retries <= failures'
  <2>1. follows /\ ~forked /\ newest' = Row(bean)
    BY <1>5, StoredIsNewest DEF IInv, TypeOK
  <2> QED BY <1>3, <1>4, <2>1 DEF Row
<1> QED BY <1>2, <1>3, <1>4, <1>5

LEMMA PassedTries ==
    ASSUME NEW x, NEW y, NEW late, Passed(y, x, late), y.retries = x.retries,
           NEW f, NEW n, NEW l, Tries(x, f, n, l), NEW g, NEW m, NEW k, k # NoBeat
    PROVE  Tries(y, g, m, k)
BY DEF Passed, Alike, Tries

LEMMA StoreBeatTries ==
    ASSUME IInv, SeenInv, RetryInv, NEW o \in Object, StoreBeat(o) PROVE RetryInv'
<1>1. PICK x \in MonitorObject :
             /\ x.retries = obj[o].retries /\ obj'[o] = NextCheck(x)
             /\ \A y \in Object \ {o} : obj'[y] = Superseded(obj, o)[y]
             /\ obj[o].bean \in Bean /\ obj[o].follows \in BOOLEAN /\ obj[o].pc = "storing"
  BY StoreBeatFields
<1>2. /\ Store(obj[o].bean, obj[o].follows) /\ call' = Superseded(call, o) /\ req' = req
  BY DEF StoreBeat
<1>3. obj[o].bean.status \in Status /\ (obj[o].bean.late => ~obj[o].follows)
  BY <1>1, ObjectFacts DEF Made, SeenInv, Chained
<1>4. /\ obj[o].bean.retries = obj[o].retries
      /\ ~forked /\ obj[o].follows => obj[o].bean.retries <= failures
  BY <1>1 DEF RetryInv, Tries
<1>5. /\ latest' # NoBeat /\ failures' \in Nat
      /\ ~forked' => newest'.retries <= failures' /\ x.retries <= failures'
  BY <1>1, <1>2, <1>3, <1>4, StoreTries
<1>6. Tries(obj'[o], forked', failures', latest')
  BY <1>1, <1>5, NextCheckTries
<1>7. ASSUME NEW y \in Object \ {o} PROVE Tries(obj'[y], forked', failures', latest')
  <2>1. /\ Passed(obj'[y], obj[y], obj[y].bean.late \/ y \in earlier[o])
        /\ obj'[y].retries = obj[y].retries
    BY <1>1, SupersededPassed
  <2>2. Tries(obj[y], forked, failures, latest)
    BY DEF RetryInv
  <2> QED BY <1>5, <2>1, <2>2, PassedTries
<1>8. \A c \in Call : Pushes(call'[c], forked', failures')
  BY <1>2, SupersededPassed DEF Passed, Pushes
<1> QED BY <1>2, <1>5, <1>6, <1>7, <1>8, KeepsTable DEF RetryInv

LEMMA PushStoreTries ==
    ASSUME IInv, SeenInv, RetryInv, NEW c \in Call, PushStore(c) PROVE RetryInv'
<1>1. /\ call[c].bean \in Bean /\ call[c].follows \in BOOLEAN /\ call[c].pc = "storing"
      /\ call[c].bean.status \in Status
  BY CallFacts DEF PushCall, PushStore, Made
<1>2. /\ Store(call[c].bean, call[c].follows) /\ obj' = Superseded(obj, c) /\ req' = req
      /\ call'[c] = NoCall /\ \A d \in Call \ {c} : call'[d] = Superseded(call, c)[d]
  <2>1. DOMAIN Superseded(call, c) = Call
    BY CallFacts DEF CallsOK, Superseded
  <2> QED BY <2>1 DEF PushStore
<1>3. /\ call[c].bean.late => ~call[c].follows
      /\ ~forked /\ call[c].follows => call[c].bean.retries <= failures
  BY <1>1 DEF SeenInv, Chained, RetryInv, Pushes
<1>4. /\ latest' # NoBeat /\ failures' \in Nat
      /\ ~forked' => newest'.retries <= failures'
  BY <1>1, <1>2, <1>3, StoreTries
<1>5. ASSUME NEW y \in Object PROVE Tries(obj'[y], forked', failures', latest')
  <2>1. /\ Passed(obj'[y], obj[y], obj[y].bean.late \/ y \in earlier[c])
        /\ obj'[y].retries = obj[y].retries
    BY <1>2, SupersededPassed
  <2>2. Tries(obj[y], forked, failures, latest)
    BY DEF RetryInv
  <2> QED BY <1>4, <2>1, <2>2, PassedTries
<1>6. \A d \in Call \ {c} : Pushes(call'[d], forked', failures')
  BY <1>2, SupersededPassed DEF Passed, Pushes
<1>7. Pushes(call'[c], forked', failures')
  BY <1>2 DEF Pushes, NoCall
<1> QED BY <1>2, <1>4, <1>5, <1>6, <1>7, KeepsTable DEF RetryInv

\* A push call counts on from the heartbeat before it, or not at all.
LEMMA PushResultCounts ==
    ASSUME NEW c, NEW s, NEW prev \in Stored
    PROVE  PushResult(c, s, prev).retries \in {0, prev.retries + 1}
BY DEF PushResult

LEMMA PushDecidesTries ==
    ASSUME IInv, SeenInv, RetryInv, NEW c \in Call, NEW status \in Status, NEW retries \in Nat,
           PushDecides(c, status, retries),
           \/ retries = 0 /\ failures' \in {failures, Saturation}
           \/ retries = call[c].prev.retries + 1 /\ failures' = Capped(failures + 1)
    PROVE  RetryInv'
<1>1. PICK x \in PushCall :
             /\ call' = [call EXCEPT ![c] = x] /\ call[c].pc = "deciding"
             /\ x.follows = call[c].follows /\ x.bean.retries = Capped(retries)
  BY PushDecidesFields
<1>2. /\ failures \in Nat /\ failures <= Saturation /\ Saturation \in Nat
      /\ call[c].prev.retries \in Nat
  BY CountTypes, CallFacts, MonitorAssumption DEF PushCall, Stored
<1>3. ~forked /\ call[c].follows => call[c].prev.retries <= failures
  BY DEF SeenInv, Chained, RetryInv
<1>4. failures' \in Nat /\ failures <= failures' /\ Pushes(x, forked, failures')
  <2>1. CASE retries = 0 /\ failures' \in {failures, Saturation}
    BY <1>1, <1>2, <2>1 DEF Pushes, Capped
  <2>2. CASE retries = call[c].prev.retries + 1 /\ failures' = Capped(failures + 1)
    <3>1. failures' \in Nat /\ failures <= failures'
      BY <1>2, <2>2, CappedType, CappedGrows
    <3>2. call[c].prev.retries <= failures => x.bean.retries <= failures'
      BY <1>1, <1>2, <2>2, CappedGrows
    <3> QED BY <1>1, <1>3, <3>1, <3>2 DEF Pushes
  <2> QED BY <2>1, <2>2
<1>5. obj' = obj /\ req' = req /\ tables' = tables /\ forked' = forked
  BY DEF PushDecides
<1> QED BY <1>1, <1>4, <1>5, KeepsTable, OneCallTries

LEMMA PushTries ==
    ASSUME IInv, SeenInv, RetryInv, NEW c \in Call, PushBegin(c) \/ Push(c) PROVE RetryInv'
<1>1. CASE PushBegin(c)
  <2> DEFINE x == [pc |-> "deciding", cfg |-> row.cfg, prev |-> latest,
                   follows |-> TRUE, bean |-> NoBean]
  <2>1. call' = [call EXCEPT ![c] = x] /\ Pushes(x, forked, failures')
    BY <1>1 DEF PushBegin, Pushes
  <2> HIDE DEF x
  <2>2. failures' \in Nat /\ failures <= failures'
    BY <1>1, CountTypes DEF PushBegin, seen
  <2>3. obj' = obj /\ req' = req /\ tables' = tables /\ forked' = forked
    BY <1>1 DEF PushBegin, seen
  <2> QED BY <2>1, <2>2, <2>3, KeepsTable, OneCallTries
<1>2. CASE PushSays(c)
  <2>1. PICK s \in {UP, DOWN} :
          LET result == PushResult(call[c].cfg, s, call[c].prev)
          IN  /\ PushDecides(c, result.status, result.retries)
              /\ failures' = Failed(result.retries > 0, result.status)
    BY <1>2 DEF PushSays
  <2> DEFINE result == PushResult(call[c].cfg, s, call[c].prev)
  <2>2. /\ result.status \in Status /\ result.retries \in Nat
        /\ result.retries \in {0, call[c].prev.retries + 1}
    BY CallFacts, PushResultType, PushResultCounts DEF PushCall
  <2> HIDE DEF result
  <2>3. \/ result.retries = 0 /\ failures' \in {failures, Saturation}
        \/ result.retries = call[c].prev.retries + 1 /\ failures' = Capped(failures + 1)
    <3>1. call[c].prev.retries \in Nat
      BY CallFacts, MonitorAssumption DEF PushCall, Stored
    <3>2. CASE result.retries > 0
      BY <2>1, <2>2, <3>1, <3>2 DEF result, Failed
    <3>3. CASE result.retries = 0
      BY <2>1, <3>3 DEF result, Failed
    <3> QED BY <2>2, <3>1, <3>2, <3>3
  <2> QED BY <2>1, <2>2, <2>3, PushDecidesTries DEF result
<1>3. CASE PushInMaintenance(c)
  BY <1>3, PushDecidesTries DEF PushInMaintenance, Status
<1>4. CASE PushFails(c)
  <2>1. call' = [call EXCEPT ![c] = NoCall] /\ Pushes(NoCall, forked, failures')
    BY <1>4 DEF PushFails, Pushes, NoCall
  <2>2. failures' \in Nat /\ failures <= failures'
    BY <1>4, CountTypes DEF PushFails, seen
  <2>3. obj' = obj /\ req' = req /\ tables' = tables /\ forked' = forked
    BY <1>4 DEF PushFails, seen
  <2> QED BY <2>1, <2>2, <2>3, KeepsTable, OneCallTries
<1> QED BY <1>1, <1>2, <1>3, <1>4, PushStoreTries DEF Push

\* No request comes to empty the table.
LEMMA GotoKeepsTable ==
    ASSUME IInv, RetryInv, NEW r \in Socket, NEW pc, Goto(r, pc),
           pc \in {"none", "activate", "start", "stop"}
    PROVE  NothingEmpties'
<1> DEFINE x == IF pc = "none" THEN NoRequest ELSE [req[r] EXCEPT !.pc = pc]
<1>1. req \in [Socket -> Request]
  BY DEF IInv, TypeOK
<1>2. \A s \in Socket : req'[s] = IF s = r THEN x ELSE req[s]
  BY <1>1 DEF Goto
<1>3. x.pc \in {"none", "activate", "start", "stop"}
  BY <1>1 DEF Request, NoRequest
<1> QED BY <1>2, <1>3 DEF RetryInv, NothingEmpties

LEMMA ServeTries ==
    ASSUME IInv, RetryInv, NEW r \in Socket, Serve(r) PROVE RetryInv'
<1>1. ~Unlist(r) /\ ~Remove(r) /\ ~ClearHeartbeats(r)
  BY DEF RetryInv, NothingEmpties, Unlist, Remove, ClearHeartbeats
<1>2. SaveEdit(r) \/ Activate(r) \/ Start(r) \/ Deactivate(r) \/ Stop(r)
  BY <1>1 DEF Serve
<1>3. NothingEmpties'
  BY <1>2, GotoKeepsTable DEF SaveEdit, Activate, Start, Deactivate, Stop
<1>4. tables' = tables /\ call' = call /\ forked' = forked /\ failures' = failures
  BY <1>2 DEF SaveEdit, Activate, Start, Deactivate, Stop, seen
<1>5. ASSUME NEW o \in Object PROVE Tries(obj'[o], forked, failures, latest)
  <2>1. /\ Tries(obj[o], forked, failures, latest) /\ obj[o] \in MonitorObject
        /\ failures \in Nat /\ row.cfg \in Settings
    BY ObjectFacts, CountTypes DEF RetryInv, TypeOK
  <2>2. \/ obj'[o] = obj[o]
        \/ obj'[o] = Stopped(obj[o])
        \/ obj'[o] = NewObject("starting", row.cfg)
    BY <1>2, StartObjects, StopObjects DEF SaveEdit, Activate, Deactivate, Stop
  <2>3. CASE obj'[o] = Stopped(obj[o])
    <3>1. PICK y : y = Stopped(obj[o])
      OBVIOUS
    <3>2. \/ y = Ended
          \/ /\ Alike(y, obj[o]) /\ y.bean = obj[o].bean
             /\ y.follows = obj[o].follows /\ y.retries = obj[o].retries
      BY <2>1, <3>1, StoppedSeen
    <3>3. CASE y = Ended
      BY <2>1, <2>3, <3>1, <3>3, NewTries
    <3>4. CASE /\ Alike(y, obj[o]) /\ y.bean = obj[o].bean
               /\ y.follows = obj[o].follows /\ y.retries = obj[o].retries
      <4>1. Tries(y, forked, failures, latest)
        BY <2>1, <3>4 DEF Alike, Tries
      <4> QED BY <2>3, <3>1, <4>1
    <3> QED BY <3>2, <3>3, <3>4
  <2>4. CASE obj'[o] = NewObject("starting", row.cfg)
    BY <2>1, <2>4, NewTries DEF Inactive
  <2> QED BY <2>1, <2>2, <2>3, <2>4
<1> QED BY <1>3, <1>4, <1>5, NothingTried DEF RetryInv

LEMMA ReceiveTries ==
    ASSUME TableIsKept, IInv, RetryInv, NEW r \in Socket, NEW op \in Operation, Receive(r, op)
    PROVE  RetryInv'
<1> DEFINE x == [pc |-> FirstStep(op), active |-> row.active]
<1>1. op \in {"resume", "pause", "edit"}
  BY DEF Receive, TableIsKept, Operation, IInv, TypeOK
<1>2. FirstStep(op) \in {"activate", "deactivate", "save"}
  BY <1>1 DEF FirstStep
<1>3. req \in [Socket -> Request] /\ req' = [req EXCEPT ![r] = x]
  BY DEF Receive, IInv, TypeOK
<1>4. x.pc \in {"activate", "deactivate", "save"}
  BY <1>2
<1> HIDE DEF x
<1>5. NothingEmpties'
  BY <1>3, <1>4 DEF RetryInv, NothingEmpties
<1> QED BY <1>5, NothingTried DEF RetryInv, Receive, seen

LEMMA CrashTries == ASSUME IInv, RetryInv, Crash PROVE RetryInv'
<1>1. failures \in Nat /\ row.cfg \in Settings
  BY CountTypes DEF IInv, TypeOK
<1>2. \A o \in Object : Tries(obj'[o], forked, failures, latest)
  BY <1>1, CrashObjects, NewTries DEF Inactive
<1>3. \A c \in Call : Pushes(call'[c], forked, failures)
  BY <1>1, NewTries DEF Crash
<1>4. NothingEmpties'
  BY DEF Crash, NothingEmpties, NoRequest
<1> QED BY <1>2, <1>3, <1>4, NothingTried DEF Crash, seen

LEMMA InitTries == Init => RetryInv
<1> SUFFICES ASSUME Init PROVE RetryInv
  OBVIOUS
<1>1. row.cfg \in Settings /\ newest = NoBeat /\ failures = 0 /\ forked = FALSE
  BY DEF Init
<1>2. \A o \in Object : obj[o] = Ended \/ obj[o] = NewObject("found", row.cfg)
  BY DEF Init
<1>3. \A o \in Object : Tries(obj[o], forked, failures, latest)
  BY <1>1, <1>2, NewTries DEF Inactive
<1>4. \A c \in Call : Pushes(call[c], forked, failures)
  BY <1>1, NewTries DEF Init
<1>5. NothingEmpties
  BY DEF Init, NothingEmpties, NoRequest
<1> QED BY <1>1, <1>3, <1>4, <1>5 DEF RetryInv, NoBeat

LEMMA NextTries ==
    ASSUME TableIsKept, IInv, SeenInv, RetryInv, [Next]_vars PROVE RetryInv'
<1>1. ASSUME NEW o \in Object, Loop(o) PROVE RetryInv'
  BY <1>1, EarlyStepTries, BeginBeatTries, CheckTries, SendNotificationTries, StoreBeatTries,
     GivenUpTries DEF Loop
<1>2. CASE UNCHANGED vars
  BY <1>2, KeepsTable, NothingTried DEF RetryInv, vars, seen
<1> QED BY <1>1, <1>2, GivenUpTries, ServeTries, ReceiveTries, PushTries, CrashTries DEF Next

\* Where nothing empties the heartbeat table, a loop whose heartbeats follow
\* each other announces no outage before more than maxretries attempts have
\* failed since the last good heartbeat, across restarts, edits, push calls
\* and heartbeats that were lost (monitor.js:1036-1068).
THEOREM NoEarlyOutage == ASSUME TableIsKept PROVE Spec => []RetriesExhausted
<1>1. Init => IInv /\ SeenInv /\ RetryInv
  BY InitIInv, InitSeen, InitTries
<1>2. IInv /\ SeenInv /\ RetryInv /\ [Next]_vars => (IInv /\ SeenInv /\ RetryInv)'
  BY NextIInv, NextSeen, NextTries
<1>3. RetryInv => RetriesExhausted
  BY DEF RetryInv, Tries, RetriesExhausted
<1> QED BY <1>1, <1>2, <1>3, PTL DEF Spec

=============================================================================
