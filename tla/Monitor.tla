------------------------------ MODULE Monitor ------------------------------
(***************************************************************************)
(* One monitor of an Uptime Kuma server: the row, the JavaScript objects   *)
(* that check it (server/model/monitor.js, start), the socket requests     *)
(* that start and stop them (server/server.js) and the push endpoint       *)
(* (server/routers/api-router.js).  The server is a single thread; an      *)
(* action is what runs between two awaits, so requests, beats and push     *)
(* calls interleave at every await.                                        *)
(*                                                                         *)
(* Every start makes a new object with a loop of its own.  Stopping an     *)
(* object cancels its timer, but a beat that is under way goes on.         *)
(***************************************************************************)
EXTENDS Beat

CONSTANTS
    Object,        \* the JavaScript objects that may exist at once
    NoObject,
    Socket,        \* requests that may be under way at once
    Call,          \* calls of /api/push that may be under way at once
    Settings,      \* the configurations the monitor may have
    Default,       \* one of them, for what is not in use
    Edits,         \* Edits[c]: the configurations that c may be changed to
    Outcomes,      \* what checks may meet
    Requests,      \* Requests[c]: the requests that occur while the settings are c
    Pooled,        \* the database serves several connections, as MariaDB's pool does
    MaxRequests,   \* bound on the requests
    MaxFaults,     \* bound on crashes and failures of the database
    Saturation     \* counters above it are not told apart

Writer == Object \cup Call

Operation == {"resume", "pause", "edit", "delete", "clearHeartbeats"}

ASSUME MonitorAssumption ==
    /\ Object \subseteq Nat /\ NoObject \notin Object /\ Socket \subseteq Nat
    /\ Object \cap Call = {}
    /\ Settings \subseteq Config /\ Default \in Settings
    /\ Edits \in [Settings -> SUBSET Settings]
    /\ Outcomes \subseteq Outcome
    /\ Requests \in [Settings -> SUBSET Operation]
    /\ Pooled \in BOOLEAN
    /\ MaxRequests \in Nat /\ MaxFaults \in Nat /\ Saturation \in Nat
    /\ \A c \in Settings : /\ c.maxretries < Saturation
                           /\ c.resendInterval <= Saturation

VARIABLES
    row,       \* the monitor's row
    list,      \* server.monitorList: the object that stands for the monitor
    obj,       \* the objects
    req,       \* the socket requests under way
    call,      \* the push calls under way
    earlier,   \* earlier[w]: the beats under way whose time is before that of w
    newest,    \* the heartbeat with the greatest time
    latest,    \* the heartbeat with the greatest id
    requests, faults,
    \* What a user could have seen, kept for the properties:
    failures,  \* failed attempts since a beat with none was stored
    heard,     \* a DOWN notice was sent since a beat other than DOWN was stored
    unheard,   \* DOWN beats stored since the last notice
    forked,    \* a beat was stored that did not follow from the last one
    lost       \* objects that startMonitors took off the list without stopping them

tables == <<newest, latest>>
seen   == <<failures, heard, unheard, forked, lost>>
vars   == <<row, list, obj, req, call, earlier, tables, requests, faults, seen>>

Capped(n) == IF n > Saturation THEN Saturation ELSE n

\* A heartbeat being made; told: it was announced; late: one with a greater
\* time has been stored already.
Bean == [status : Status \cup {"none"}, retries : 0..Saturation,
         downCount : 0..Saturation, told : BOOLEAN, late : BOOLEAN]
NoBean == [status |-> "none", retries |-> 0, downCount |-> 0,
           told |-> FALSE, late |-> FALSE]

Stored == {b \in [status : Status \cup {"none"}, retries : 0..Saturation,
                  downCount : 0..Saturation] : b.status = "none" => b = NoBeat}

Row(bean) == [status |-> bean.status, retries |-> bean.retries,
              downCount |-> bean.downCount]

\* follows, a history variable: prev is still the heartbeat stored last.
\* "found" is a row that startMonitors is reading, "listed" waits for its turn
\* there, "starting" for the awaits of
\* start, "delay" for the first timer of a push monitor, "armed" for
\* heartbeatInterval; the others are within a beat.
MonitorObject == [pc   : {"ended", "found", "listed", "starting", "delay", "armed",
                          "checking", "announcing", "storing"},
                  stop : BOOLEAN, cfg : Settings,
                  prev : Stored, follows : BOOLEAN,
                  retries : 0..Saturation, bean : Bean]

NewObject(pc, cfg) == [pc |-> pc, stop |-> FALSE, cfg |-> cfg, prev |-> NoBeat,
                       follows |-> FALSE, retries |-> 0, bean |-> NoBean]
Ended == [NewObject("ended", Default) EXCEPT !.stop = TRUE]

Request == [pc : {"none", "save", "activate", "start", "deactivate",
                  "stop", "unlist", "remove", "clear"},
            active : BOOLEAN]    \* bean.active as an edit has read it
NoRequest == [pc |-> "none", active |-> FALSE]

PushCall == [pc : {"none", "deciding", "storing"}, cfg : Settings,
             prev : Stored, follows : BOOLEAN, bean : Bean]
NoCall == [pc |-> "none", cfg |-> Default, prev |-> NoBeat,
           follows |-> FALSE, bean |-> NoBean]

\* Objects and requests have no names of their own: a new one takes the first
\* that is free.
IsFirst(o, free) == o \in free /\ \A x \in free : o <= x

\* startMonitors looks for the active monitors; the list is empty.
Booted(objects) ==
    LET starts == row.exists /\ row.active
    IN  \E o \in Object :
            /\ IsFirst(o, Object)
            /\ objects = [x \in Object |-> IF x = o /\ starts THEN NewObject("found", row.cfg)
                                                              ELSE Ended]

\* The server starts with an active monitor that has no heartbeats yet.
Init ==
    /\ row \in [exists : {TRUE}, active : {TRUE}, cfg : Settings]
    /\ list = NoObject
    /\ obj \in [Object -> {Ended, NewObject("found", row.cfg)}] /\ Booted(obj)
    /\ req = [r \in Socket |-> NoRequest]
    /\ call = [c \in Call |-> NoCall]
    /\ earlier = [w \in Writer |-> {}]
    /\ newest = NoBeat /\ latest = NoBeat
    /\ requests = 0 /\ faults = 0
    /\ failures = 0 /\ heard = FALSE /\ unheard = 0 /\ forked = FALSE
    /\ lost = {}

\* The query of startMonitors is the first; on a single connection, that of
\* SQLite, no other is answered before it.
Answers == Pooled \/ \A o \in Object : obj[o].pc # "found"

Fault == faults < MaxFaults /\ faults' = faults + 1

-----------------------------------------------------------------------------
(* The heartbeat table.                                                    *)

UnderWay == {o \in Object : obj[o].pc \in {"checking", "announcing", "storing"}}
            \cup {c \in Call : call[c].pc # "none"}

\* A beat gets its time, after that of all that are under way ...
BeginWriting(w) == earlier' = [earlier EXCEPT ![w] = UnderWay]

\* ... and has come to its end.
EndWriting(w) == earlier' = [x \in Writer |-> IF x = w THEN {} ELSE earlier[x] \ {w}]

\* R.store(bean), which violates a foreign key when the monitor is gone.
Store(bean, follows) ==
    /\ row.exists
    /\ forked' = (forked \/ ~follows)
    /\ latest' = Row(bean)
    /\ newest' = IF bean.late THEN newest ELSE Row(bean)
    /\ heard' = (heard /\ bean.status = DOWN)
    /\ failures' = IF bean.retries = 0 /\ bean.status # DOWN THEN 0 ELSE failures
    /\ unheard' = IF bean.status = DOWN /\ ~bean.told THEN Capped(unheard + 1) ELSE 0
    /\ UNCHANGED lost

\* A notice is sent, or not, for bean.
Announce(sent, status) == heard' = (heard \/ (sent /\ status = DOWN))

-----------------------------------------------------------------------------
(* The loop of an object: start, beat and safeBeat.                        *)

\* Mutant: isStop is not looked at.
NextCheckAlways(object) == [object EXCEPT !.pc = "armed", !.bean = NoBean]

\* setTimeout(safeBeat, ...), unless the object was stopped meanwhile.
NextCheck(object) ==
    IF object.stop THEN Ended ELSE [object EXCEPT !.pc = "armed", !.bean = NoBean]

\* start() runs on after its awaits: a push monitor's first beat comes later.
StartDelayed(o) ==
    /\ obj[o].pc = "starting" /\ obj[o].cfg.push
    /\ obj' = [obj EXCEPT ![o].pc = "delay"]
    /\ UNCHANGED <<row, list, req, call, earlier, tables, requests, faults, seen>>

\* Mutant: every beat counts the attempts from 0.
BeginBeatAfresh(o) ==
    /\ \/ obj[o].pc \in {"delay", "armed"}
       \/ obj[o].pc = "starting" /\ ~obj[o].cfg.push
    /\ obj' = [obj EXCEPT ![o].pc = "checking", ![o].prev = newest,
                          ![o].follows = TRUE, ![o].retries = 0]
    /\ BeginWriting(o)
    /\ UNCHANGED <<row, list, req, call, tables, requests, faults, seen>>

\* The timer fires, or start() calls safeBeat().  previousBeat is read from
\* the table by the first beat, and by every beat of a push monitor.
BeginBeat(o) ==
    /\ \/ obj[o].pc \in {"delay", "armed"}
       \/ obj[o].pc = "starting" /\ ~obj[o].cfg.push
    /\ LET reads == obj[o].prev = NoBeat \/ obj[o].cfg.push
           found == reads /\ newest # NoBeat
       IN  obj' = [obj EXCEPT ![o].pc = "checking",
                              ![o].prev = IF reads THEN newest ELSE @,
                              ![o].follows = reads \/ @,
                              ![o].retries = IF found THEN newest.retries ELSE @]
    /\ BeginWriting(o)
    /\ UNCHANGED <<row, list, req, call, tables, requests, faults, seen>>

Meets(o) == IF obj[o].cfg.push THEN Outcomes \cap {"maintenance", "throws"} ELSE Outcomes

\* The failed attempts after one more, or after a DOWN that needs no attempts.
Failed(again, status) == IF again THEN Capped(failures + 1)
                         ELSE IF status = DOWN THEN Saturation ELSE failures

\* The try block and its catch.
Check(o) ==
    /\ obj[o].pc = "checking"
    /\ \E outcome \in Meets(o) :
         LET result == CheckResult(obj[o].cfg, outcome, obj[o].retries)
         IN  /\ obj' = [obj EXCEPT
                   ![o].pc = "announcing",
                   ![o].retries = Capped(result.retries),
                   ![o].bean = [@ EXCEPT !.status = result.status,
                                         !.retries = Capped(result.retries)]]
             /\ failures' = Failed(IsFailure(obj[o].cfg, outcome), result.status)
    /\ UNCHANGED <<row, list, req, call, earlier, tables, requests, faults,
                   heard, unheard, forked, lost>>

\* A push came in time: the beat ends early, and sets its timer whether or
\* not the object was stopped.
PushInTime(o) ==
    /\ obj[o].pc = "checking" /\ obj[o].cfg.push
    /\ obj[o].prev.status = IF obj[o].cfg.upsideDown THEN DOWN ELSE UP
    /\ obj' = [obj EXCEPT ![o].pc = "armed", ![o].retries = 0, ![o].bean = NoBean]
    /\ EndWriting(o)
    /\ UNCHANGED <<row, list, req, call, tables, requests, faults, seen>>

SendNotification(o) ==
    /\ obj[o].pc = "announcing"
    /\ LET object == obj[o]
           status == object.bean.status
           a == Announcement(object.cfg, object.prev, status,
                             isImportantBeat(object.prev, status))
       IN  /\ obj' = [obj EXCEPT ![o].pc = "storing",
                                 ![o].bean.downCount = Capped(a.downCount),
                                 ![o].bean.told = a.sent]
           /\ Announce(a.sent, status)
    /\ UNCHANGED <<row, list, req, call, earlier, tables, requests, faults,
                   failures, unheard, forked, lost>>

\* w is stored: those under way with an earlier time are late from now on, and
\* what the others know as the previous heartbeat is not the last any more.
Superseded(writers, w) ==
    [x \in DOMAIN writers |->
        [writers[x] EXCEPT !.follows = FALSE,
                           !.bean.late = @ \/ x \in earlier[w]]]

StoreBeat(o) ==
    /\ obj[o].pc = "storing"
    /\ Store(obj[o].bean, obj[o].follows)
    /\ LET object == [obj[o] EXCEPT !.prev = Row(obj[o].bean), !.follows = TRUE]
           others == Superseded(obj, o)
       IN  obj' = [others EXCEPT ![o] = NextCheck(object)]
    /\ call' = Superseded(call, o)
    /\ EndWriting(o)
    /\ UNCHANGED <<row, list, req, requests, faults>>

\* Mutant: no timer is set when a beat throws.
BeatThrowsToTheEnd(o) ==
    /\ obj[o].pc \in {"announcing", "storing"}
    /\ Fault
    /\ obj' = [obj EXCEPT ![o].pc = "ended"]
    /\ EndWriting(o)
    /\ UNCHANGED <<row, list, req, call, tables, requests, seen>>

\* beat() throws (a query fails) and safeBeat catches: retries stays, and
\* previousBeat stays what it was.
BeatThrows(o) ==
    /\ obj[o].pc \in {"announcing", "storing"}
    /\ Fault
    /\ obj' = [obj EXCEPT ![o] = NextCheck(@)]
    /\ EndWriting(o)
    /\ UNCHANGED <<row, list, req, call, tables, requests, seen>>

\* The same, because the monitor of the heartbeat is gone.
BeatRefused(o) ==
    /\ obj[o].pc = "storing" /\ ~row.exists
    /\ obj' = [obj EXCEPT ![o] = NextCheck(@)]
    /\ EndWriting(o)
    /\ UNCHANGED <<row, list, req, call, tables, requests, faults, seen>>

-----------------------------------------------------------------------------
(* The push endpoint, which works on the row and not on the object.        *)

PushBegin(c) ==
    /\ call[c].pc = "none"
    /\ row.exists /\ row.active /\ row.cfg.push /\ Answers
    /\ call' = [call EXCEPT ![c] = [pc |-> "deciding", cfg |-> row.cfg,
                                    prev |-> latest, follows |-> TRUE, bean |-> NoBean]]
    /\ BeginWriting(c)
    /\ UNCHANGED <<row, list, obj, req, tables, requests, faults, seen>>

PushDecides(c, status, retries) ==
    /\ call[c].pc = "deciding"
    /\ LET cfg  == call[c].cfg
           prev == call[c].prev
           a    == Announcement(cfg, prev, status, isImportantForNotification(prev, status))
       IN  /\ call' = [call EXCEPT ![c].pc = "storing",
                                   ![c].bean = [@ EXCEPT !.status = status,
                                                         !.retries = Capped(retries),
                                                         !.downCount = Capped(a.downCount),
                                                         !.told = a.sent]]
           /\ Announce(a.sent, status)
    /\ UNCHANGED <<row, list, obj, req, earlier, tables, requests, faults, unheard, forked, lost>>

PushSays(c) ==
    \E s \in {UP, DOWN} :
        LET result == PushResult(call[c].cfg, s, call[c].prev)
        IN  /\ PushDecides(c, result.status, result.retries)
            /\ failures' = Failed(result.retries > 0, result.status)

PushInMaintenance(c) ==
    /\ "maintenance" \in Outcomes
    /\ PushDecides(c, MAINTENANCE, 0)
    /\ UNCHANGED failures

PushStore(c) ==
    /\ call[c].pc = "storing"
    /\ Store(call[c].bean, call[c].follows)
    /\ obj' = Superseded(obj, c)
    /\ call' = [Superseded(call, c) EXCEPT ![c] = NoCall]
    /\ EndWriting(c)
    /\ UNCHANGED <<row, list, req, requests, faults>>

\* A query fails, or the monitor is gone: the call is answered with an error.
PushFails(c) ==
    /\ call[c].pc # "none"
    /\ IF row.exists \/ call[c].pc = "deciding" THEN Fault ELSE UNCHANGED faults
    /\ call' = [call EXCEPT ![c] = NoCall]
    /\ EndWriting(c)
    /\ UNCHANGED <<row, list, obj, req, tables, requests, seen>>

-----------------------------------------------------------------------------
(* The requests.                                                           *)

Goto(r, pc) == req' = [req EXCEPT ![r] = IF pc = "none" THEN NoRequest
                                         ELSE [@ EXCEPT !.pc = pc]]

\* stop(): the timer is cleared; but the first timer of a push monitor is not
\* in heartbeatInterval, and what is under way goes on.
Stopped(object) == IF object.pc \in {"armed", "ended"} THEN Ended
                   ELSE [object EXCEPT !.stop = TRUE]

FirstStep(op) == CASE op = "resume" -> "activate" [] op = "pause" -> "deactivate"
                   [] op = "edit" -> "save" [] op = "delete" -> "unlist"
                   [] op = "clearHeartbeats" -> "clear"

\* editMonitor reads the row, active included, when it arrives.
Receive(r, op) ==
    /\ IsFirst(r, {x \in Socket : req[x].pc = "none"})
    /\ requests < MaxRequests /\ requests' = requests + 1
    /\ op \in Requests[row.cfg]
    /\ row.exists /\ Answers
    /\ req' = [req EXCEPT ![r] = [pc |-> FirstStep(op), active |-> row.active]]
    /\ UNCHANGED <<row, list, obj, call, earlier, tables, faults, seen>>

\* R.store(bean); the monitor is restarted if it was active when it was read.
SaveEdit(r) ==
    /\ req[r].pc = "save"
    /\ IF row.exists THEN \E c \in Edits[row.cfg] : row' = [row EXCEPT !.cfg = c]
                     ELSE UNCHANGED row
    /\ Goto(r, IF req[r].active THEN "activate" ELSE "none")
    /\ UNCHANGED <<list, obj, call, earlier, tables, requests, faults, seen>>

\* startMonitor: checkOwner, and UPDATE monitor SET active = 1.
Activate(r) ==
    /\ req[r].pc = "activate"
    /\ row' = [row EXCEPT !.active = @ \/ row.exists]
    /\ Goto(r, IF row.exists THEN "start" ELSE "none")
    /\ UNCHANGED <<list, obj, call, earlier, tables, requests, faults, seen>>

Free == {o \in Object : obj[o].pc = "ended" /\ o # list}

\* Mutant: the object in the list is not stopped.
StartBesides(r) ==
    /\ req[r].pc = "start"
    /\ IF row.exists
       THEN \E o \in Object : /\ IsFirst(o, Free)
                              /\ obj' = [obj EXCEPT ![o] = NewObject("starting", row.cfg)]
                              /\ list' = o
       ELSE UNCHANGED <<obj, list>>
    /\ Goto(r, "none")
    /\ unheard' = 0
    /\ UNCHANGED <<row, call, earlier, tables, requests, faults, failures, heard, forked, lost>>

\* startMonitor: the row is loaded, the object in the list is stopped and the
\* new one takes its place.  The due reminders are counted from here.
Start(r) ==
    /\ req[r].pc = "start"
    /\ IF row.exists
       THEN \E o \in Object :
              /\ IsFirst(o, Free)
              /\ obj' = [x \in Object |-> CASE x = o -> NewObject("starting", row.cfg)
                                            [] x = list -> Stopped(obj[x])
                                            [] OTHER -> obj[x]]
              /\ list' = o
       ELSE UNCHANGED <<obj, list>>
    /\ Goto(r, "none")
    /\ unheard' = 0
    /\ UNCHANGED <<row, call, earlier, tables, requests, faults, failures, heard, forked, lost>>

\* pauseMonitor: UPDATE monitor SET active = 0.
Deactivate(r) ==
    /\ req[r].pc = "deactivate"
    /\ row' = [row EXCEPT !.active = FALSE]
    /\ Goto(r, IF row.exists THEN "stop" ELSE "none")
    /\ UNCHANGED <<list, obj, call, earlier, tables, requests, faults, seen>>

StopListed == obj' = [x \in Object |-> IF x = list THEN Stopped(obj[x]) ELSE obj[x]]

\* pauseMonitor: the object in the list is stopped, and stays in the list.
Stop(r) ==
    /\ req[r].pc = "stop"
    /\ StopListed
    /\ Goto(r, "none")
    /\ UNCHANGED <<row, list, call, earlier, tables, requests, faults, seen>>

\* deleteMonitor: stopped, and taken off the list.
Unlist(r) ==
    /\ req[r].pc = "unlist"
    /\ StopListed
    /\ list' = NoObject
    /\ Goto(r, "remove")
    /\ UNCHANGED <<row, call, earlier, tables, requests, faults, seen>>

\* The table is emptied: no stored beat is younger than those under way.
Forgotten(writers) ==
    [x \in DOMAIN writers |-> [writers[x] EXCEPT !.follows = FALSE, !.bean.late = FALSE]]
EmptyTable ==
    /\ newest' = NoBeat /\ latest' = NoBeat
    /\ obj' = Forgotten(obj) /\ call' = Forgotten(call)

\* deleteMonitor: DELETE FROM monitor, which cascades to the heartbeats.
Remove(r) ==
    /\ req[r].pc = "remove"
    /\ row' = [row EXCEPT !.exists = FALSE, !.active = FALSE]
    /\ EmptyTable
    /\ Goto(r, "none")
    /\ UNCHANGED <<list, earlier, requests, faults, seen>>

\* clearHeartbeats, which restarts what is in the list, paused or not.
ClearHeartbeats(r) ==
    /\ req[r].pc = "clear"
    /\ EmptyTable
    /\ Goto(r, IF list # NoObject THEN "activate" ELSE "none")
    /\ UNCHANGED <<row, list, earlier, requests, faults, seen>>

-----------------------------------------------------------------------------
(* The server dies and is started again.                                   *)

\* What was under way is lost; the server listens, and startMonitors queries.
Crash ==
    /\ Fault
    /\ list' = NoObject /\ Booted(obj')
    /\ req' = [r \in Socket |-> NoRequest]
    /\ call' = [c \in Call |-> NoCall]
    /\ earlier' = [w \in Writer |-> {}]
    /\ lost' = {}
    /\ UNCHANGED <<row, tables, requests, failures, heard, unheard, forked>>

Running(o) == obj[o].pc \notin {"ended", "found"} /\ ~obj[o].stop

\* It puts what it has found into the list, over what a request has put there
\* meanwhile ...
FillList(o) ==
    /\ obj[o].pc = "found"
    /\ obj' = [obj EXCEPT ![o].pc = "listed"]
    /\ list' = o
    /\ lost' = lost \cup {x \in Object : x = list /\ Running(x)}
    /\ UNCHANGED <<row, req, call, earlier, tables, requests, faults,
                   failures, heard, unheard, forked>>

\* ... and then starts one after the other, stopped in between or not.
StartListed(o) ==
    /\ obj[o].pc = "listed"
    /\ obj' = [obj EXCEPT ![o].pc = "starting"]
    /\ UNCHANGED <<row, list, req, call, earlier, tables, requests, faults, seen>>

-----------------------------------------------------------------------------

Loop(o) == \/ FillList(o) \/ StartListed(o) \/ StartDelayed(o) \/ BeginBeat(o) \/ Check(o)
           \/ PushInTime(o) \/ SendNotification(o) \/ StoreBeat(o) \/ BeatRefused(o)

Serve(r) == \/ SaveEdit(r) \/ Activate(r) \/ Start(r) \/ Deactivate(r) \/ Stop(r)
            \/ Unlist(r) \/ Remove(r) \/ ClearHeartbeats(r)

Push(c) == \/ PushSays(c) \/ PushInMaintenance(c) \/ PushStore(c) \/ PushFails(c)

Next == \/ \E o \in Object : Loop(o) \/ BeatThrows(o)
        \/ \E r \in Socket : Serve(r) \/ \E op \in Operation : Receive(r, op)
        \/ \E c \in Call : PushBegin(c) \/ Push(c)
        \/ Crash

Spec == Init /\ [][Next]_vars

\* Timers fire and promises settle; requests, calls and failures owe nothing.
Fairness == /\ \A o \in Object : WF_vars(Loop(o))
            /\ \A r \in Socket : WF_vars(Serve(r))
            /\ \A c \in Call : WF_vars(Push(c))

FairSpec == Spec /\ Fairness

-----------------------------------------------------------------------------
(* Properties.                                                             *)

\* The type invariant.
TypeOK ==
    /\ row \in [exists : BOOLEAN, active : BOOLEAN, cfg : Settings]
    /\ list \in Object \cup {NoObject}
    /\ obj \in [Object -> MonitorObject]
    /\ req \in [Socket -> Request]
    /\ call \in [Call -> PushCall]
    /\ earlier \in [Writer -> SUBSET Writer]
    /\ newest \in Stored /\ latest \in Stored
    /\ requests \in Nat /\ faults \in Nat
    /\ failures \in 0..Saturation /\ unheard \in 0..Saturation
    /\ heard \in BOOLEAN /\ forked \in BOOLEAN
    /\ lost \in SUBSET Object

\* server.monitorList is all that later requests can find: an object that was
\* never stopped is the one in it, so the monitor is not checked by two loops
\* and none escapes a pause (server.js:2000-2048).  One is left out: it was
\* started by a request while startMonitors waited for its query, and was then
\* taken off the list without a stop (server.js:2051-2056).
OneLoop == \A o \in Object : Running(o) => o = list \/ o \in lost

\* monitor.js:1208, "isStop = true, no next check.": however a stop falls
\* into the awaits of a start or of a beat, no timer is set afterwards.
StopIsFinal == \A o \in Object : obj[o].stop => obj[o].pc # "armed"

\* As long as every heartbeat followed from the one stored before it: when the
\* newest says DOWN, the user was told so after the last one that did not,
\* whatever crashed or failed between the notice and the heartbeat.
OutagesAnnounced == ~forked /\ newest.status = DOWN => heard

\* en.json:95, "Maximum retries before the service is marked as down and a
\* notification is sent": a loop never announces an outage before it has
\* failed more than maxretries times since the last good heartbeat, across
\* restarts, edits and lost heartbeats.
RetriesExhausted ==
    \A o \in Object :
        /\ ~forked /\ obj[o].follows
        /\ obj[o].pc = "announcing" /\ obj[o].bean.status = DOWN
        => failures > obj[o].cfg.maxretries

\* A lasting outage is announced again after at most resendInterval
\* heartbeats, across restarts and lost heartbeats.
RemindsInTime ==
    \A o \in Object :
        ~forked /\ Running(o) /\ obj[o].cfg.resendInterval > 0
        => unheard < obj[o].cfg.resendInterval

\* Once requests and failures have stopped, a running monitor that only fails
\* comes to be DOWN, and stays so.
EveryCheckFails ==
    <>[][\A o \in Object : Check(o) => obj'[o].bean.retries > 0]_vars
OutagesDetected ==
    EveryCheckFails =>
        <>[](\A o \in Object : Running(o) /\ row.exists => newest.status = DOWN)

\* A loop that was not stopped goes on checking, whatever its beats throw.
KeepsChecking ==
    \A o \in Object : ~obj[o].stop ~> (obj[o].pc = "checking" \/ obj[o].stop)

=============================================================================
