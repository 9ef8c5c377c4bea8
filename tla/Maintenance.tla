----------------------------- MODULE Maintenance -----------------------------
(***************************************************************************)
(* A maintenance window (server/model/maintenance.js), the socket requests *)
(* about it (server/socket-handlers/maintenance-socket-handler.js) and its *)
(* start with the server (server/uptime-kuma-server.js): a bean that is in *)
(* memory and in a row, a cron job that begins a slot, and the timeout     *)
(* that ends it.  Monitors ask for its status before every beat.           *)
(*                                                                         *)
(* Time is in ticks, and all that happens at a tick happens a little after *)
(* it; a schedule is the set of ticks at which its cron pattern fires.     *)
(* SQLite answers in the order asked, so that a store is one step with     *)
(* what asks for it.                                                       *)
(***************************************************************************)
EXTENDS Naturals, FiniteSets

CONSTANTS
    None,
    Socket,       \* requests that may be under way at once
    Plans,        \* what a user may ask for
    End,          \* the last tick
    MaxTimeout,   \* the longest timeout there is: 2^31 - 1 milliseconds
    MaxRequests,  \* bound on the requests
    MaxRestarts   \* bound on the restarts of the server

\* starts, duration: the slots; from, until: the dates it is limited to, if it
\* is; interval: the days between two slots, each a tick of the pattern.
Plan == [strategy : {"manual", "single", "recurring"}, starts : SUBSET (0 .. End),
         duration : Nat, interval : Nat \ {0},
         from : 0 .. End, until : 0 .. End + 1]

\* A bean holds a plan, whether it is active, and last_start_date.
Beans == [plan : Plan, active : BOOLEAN, last : 0 .. End \cup {None}]

ASSUME MaintenanceAssumption ==
    /\ End \in Nat /\ MaxTimeout \in Nat /\ MaxRequests \in Nat /\ MaxRestarts \in Nat
    /\ None \notin Nat /\ None \notin Beans
    /\ Plans \subseteq Plan
    /\ \A p \in Plans : p.duration <= End /\ p.from < p.until

VARIABLES
    now,
    row,       \* the row in the table, if there is one
    bean,      \* the bean in memory, if there ever was one
    listed,    \* it is in maintenanceList
    status,    \* beanMeta.status
    job,       \* beanMeta.job
    jobs,      \* the cron jobs that are not stopped
    timer,     \* when durationTimeout is due
    req, requests, restarts,
    \* Kept for the properties:
    overlap,   \* a run or a pause was overtaken by another, or by a deletion
    unstored,  \* a store, or the deletion, of what memory holds failed
    unrun,     \* a request changed the bean and failed before its run
    overlong,  \* the status is from a run in the last second of a slot
    began      \* when slots began

vars == <<now, row, bean, listed, status, job, jobs, timer, req, requests,
          restarts, overlap,
                   unstored, unrun, overlong, began>>
-----------------------------------------------------------------------------
\* The bean of a new maintenance.
Bean(p, a) == [plan |-> p, active |-> a, last |-> None]

\* A job fires at those of its starts that are after `after`; `current` is the
\* time of the run that made it, which its callback has captured.
Job == [starts : SUBSET (0 .. End), after : 0 .. End, current : 0 .. End, id : Nat]

Idle == [op |-> "none", at |-> "none", current |-> 0, starts |-> {}]

Settled == /\ \A r \in Socket : req[r] = Idle
           /\ \A j \in jobs : ~(now \in j.starts /\ j.after < now)
           /\ timer # None => timer > now

Answer(r) == req' = [req EXCEPT ![r] = Idle]

Goto(r, q, place) == req' = [req EXCEPT ![r] = [q EXCEPT !.at = place]]

\* Another request is at one of these places.
OtherAt(r, places) == \E s \in Socket \ {r} : req[s].at \in places

\* getStatus.
Status ==
    IF ~bean.active THEN "inactive"
    ELSE IF bean.plan.strategy = "manual" THEN "under-maintenance"
    ELSE IF now < bean.plan.from THEN "scheduled"
    ELSE IF now >= bean.plan.until THEN "ended"
    ELSE IF bean.plan.strategy = "single" THEN "under-maintenance"
    ELSE IF status = "none" THEN "unknown" ELSE status

\* What a monitor is told: getMaintenance finds only what is listed.
UnderMaintenance == listed /\ Status = "under-maintenance"

\* Mutant: the job is stopped, and not forgotten.
StopJobOnly == jobs' = {j \in jobs : j.id # job} /\ UNCHANGED job

\* stop: the job ends; the timeout and the status stay.
StopJob == job' = None /\ jobs' = {j \in jobs : j.id # job}

\* inferDuration: all of it, but not beyond the end date.
Least(a, b) == IF a < b THEN a ELSE b
SlotEnd(from) == Least(from + bean.plan.duration, bean.plan.until)

\* setTimeout: what is longer than it can count is due at once.
Timeout(from, end) == IF end > from + MaxTimeout THEN now ELSE end

\* What startEvent stores; nobody waits for it, and it may fail.
StoreLast(current) ==
    /\ bean' = [bean EXCEPT !.last = current]
    /\ \/ row' = (IF row = None THEN None ELSE bean') /\ UNCHANGED unstored
       \/ row # None /\ unstored' = TRUE /\ UNCHANGED row

\* Mutant: a timeout that is pending stays.
StartEventAgain(from, end, current) ==
    /\ status' = "under-maintenance"
    /\ timer' = IF timer # None THEN timer ELSE Timeout(from, end)
    /\ StoreLast(current)
    /\ began' = began \cup {now}

\* startEvent: the slot begins, or goes on, and is to end at `end`.
StartEvent(from, end, current) ==
    /\ status' = "under-maintenance"
    /\ timer' = Timeout(from, end)
    /\ StoreLast(current)
    /\ began' = began \cup {now}
-----------------------------------------------------------------------------
(* Requests                                                                *)

BeginWith(r) ==
    /\ req[r] = Idle /\ requests < MaxRequests
    /\ requests' = requests + 1

\* addMaintenance: the bean is stored, listed and run.
Add(r) ==
    \E p \in Plans :
        /\ BeginWith(r) /\ bean = None
        /\ bean' = Bean(p, TRUE) /\ row' = bean' /\ listed' = TRUE
        /\ Goto(r, [Idle EXCEPT !.op = "add"], "run")
        /\ UNCHANGED <<now, status, job, jobs, timer, restarts, overlap,
                   unstored, unrun, overlong, began>>

\* jsonToBean changes the bean as it goes, and fails at a bad date.
Mixed(p) == [bean.plan EXCEPT !.strategy = p.strategy, !.interval = p.interval]

\* editMaintenance changes the bean that is in use, then stores and runs it.
Edit(r) ==
    \E p \in Plans, a \in BOOLEAN, outcome \in {"ok", "invalid", "store fails"} :
        /\ BeginWith(r) /\ listed
        /\ bean' = [bean EXCEPT !.plan = IF outcome = "invalid" THEN Mixed(p) ELSE p,
                                !.active = a]
        /\ IF outcome = "ok"
           THEN /\ row' = bean' /\ unstored' = FALSE /\ unrun' = FALSE
                /\ Goto(r, [Idle EXCEPT !.op = "edit"], "run")
           ELSE unstored' = TRUE /\ unrun' = TRUE /\ UNCHANGED <<row, req>>
        /\ UNCHANGED <<now, listed, status, job, jobs, timer, restarts, overlap,
                       overlong, began>>

\* Mutant: the pause is not stored.
PauseUnstored(r) ==
    /\ BeginWith(r) /\ listed
    /\ bean' = [bean EXCEPT !.active = FALSE]
    /\ Goto(r, [Idle EXCEPT !.op = "pause"], "stop")
    /\ UNCHANGED <<now, row, listed, status, job, jobs, timer, restarts, overlap,
                   unstored, unrun, overlong, began>>

\* pauseMaintenance stores first, then stops; a store that fails ends it.
Pause(r) ==
    /\ BeginWith(r) /\ listed
    /\ bean' = [bean EXCEPT !.active = FALSE]
    /\ \/ row' = bean' /\ Goto(r, [Idle EXCEPT !.op = "pause"], "stop")
          /\ UNCHANGED unstored
       \/ unstored' = TRUE /\ UNCHANGED <<row, req>>
    /\ UNCHANGED <<now, listed, status, job, jobs, timer, restarts, overlap,
                   unrun, overlong, began>>

PauseStop(r) ==
    /\ req[r].at = "stop"
    /\ StopJob /\ Answer(r)
    /\ overlap' = (overlap \/ OtherAt(r, {"job"}))
    /\ UNCHANGED <<now, row, bean, listed, status, timer, requests, restarts,
                   unstored, unrun, overlong, began>>

\* resumeMaintenance stores, then runs.
Resume(r) ==
    /\ BeginWith(r) /\ listed
    /\ bean' = [bean EXCEPT !.active = TRUE]
    /\ \/ row' = bean' /\ Goto(r, [Idle EXCEPT !.op = "resume"], "run")
          /\ UNCHANGED <<unstored, unrun>>
       \/ unstored' = TRUE /\ unrun' = TRUE /\ UNCHANGED <<row, req>>
    /\ UNCHANGED <<now, listed, status, job, jobs, timer, restarts, overlap,
                   overlong, began>>

\* deleteMaintenance stops it and takes it off the list, then deletes the row,
\* which may fail.
Delete(r) ==
    /\ BeginWith(r) /\ listed
    /\ StopJob /\ listed' = FALSE
    /\ \/ row' = None /\ UNCHANGED unstored
       \/ unstored' = TRUE /\ UNCHANGED row
    /\ overlap' = (overlap \/ OtherAt(r, {"run", "job"}))
    /\ UNCHANGED <<now, bean, status, timer, req, restarts, unrun, overlong, began>>

\* Mutant: the job that is there goes on.
RunOnTop(r) ==
    /\ req[r].at = "run"
    /\ overlap' = (overlap \/ OtherAt(r, {"stop", "job"}))
    /\ IF bean.plan.strategy = "manual" THEN Answer(r) /\ UNCHANGED status
       ELSE /\ Goto(r, [req[r] EXCEPT !.current = now, !.starts = bean.plan.starts], "job")
            /\ status' = IF bean.plan.strategy = "recurring" THEN "scheduled" ELSE status
    /\ overlong' = (overlong /\ bean.plan.strategy # "recurring")
    /\ UNCHANGED <<now, row, bean, listed, job, jobs, timer, requests, restarts,
                   unstored, unrun, began>>

\* run: a job that is there is stopped, and what depends on a pattern is
\* scheduled; then the time zone is asked for.
Run(r) ==
    /\ req[r].at = "run"
    /\ StopJob
    /\ overlap' = (overlap \/ OtherAt(r, {"stop", "job"}))
    /\ IF bean.plan.strategy = "manual" THEN Answer(r) /\ UNCHANGED status
       ELSE /\ Goto(r, [req[r] EXCEPT !.current = now, !.starts = bean.plan.starts], "job")
            /\ status' = IF bean.plan.strategy = "recurring" THEN "scheduled" ELSE status
    /\ overlong' = (overlong /\ bean.plan.strategy # "recurring")
    /\ UNCHANGED <<now, row, bean, listed, timer, requests, restarts,
                   unstored, unrun, began>>

\* getRunningTimeslot: the first slot that is not over, if it has begun.
Slots(starts) == {s \in starts : s + bean.plan.duration > now}
Running(starts) ==
    {s \in Slots(starts) : s <= now /\ \A t \in Slots(starts) : s <= t}

NewId == CHOOSE i \in 1 .. Cardinality(jobs) + 1 : \A j \in jobs : j.id # i

\* Mutant: a slot that has begun is left to the job.
NewJobOnly(r) ==
    LET q == req[r]
        n == [starts |-> q.starts, after |-> now, current |-> q.current, id |-> NewId]
    IN
    /\ q.at = "job"
    /\ job' = n.id /\ jobs' = jobs \cup {n}
    /\ Answer(r)
    /\ UNCHANGED <<now, row, bean, listed, status, timer, requests, restarts,
                   overlap, unstored, unrun, overlong, began>>

\* The job is made; it replaces one that another run made meanwhile, which goes
\* on.  A slot that has begun goes on until its end; but what is left of it is
\* counted in whole seconds, and none left, as in its last second, is taken for
\* all of its duration.
NewJob(r) ==
    LET q == req[r]
        n == [starts |-> q.starts, after |-> now, current |-> q.current, id |-> NewId]
    IN
    /\ q.at = "job"
    /\ job' = n.id /\ jobs' = jobs \cup {n}
    /\ IF bean.plan.strategy # "recurring" \/ Running(q.starts) = {}
       THEN UNCHANGED <<status, timer, bean, row, unstored, overlong, began>>
       ELSE \E s \in Running(q.starts) :
              \/ /\ StartEvent(now, s + bean.plan.duration, q.current)
                 /\ overlong' = FALSE
              \/ /\ s + bean.plan.duration = now + 1
                 /\ StartEvent(now + 1, SlotEnd(now + 1), q.current)
                 /\ overlong' = TRUE
    /\ Answer(r)
    /\ UNCHANGED <<now, listed, requests, restarts, overlap, unrun>>
-----------------------------------------------------------------------------
(* Time                                                                    *)

\* With an interval of days, a slot begins if the last has begun long enough
\* before - as of the run, and that is what is stored, too.
IntervalOver(j) ==
    \/ bean.last = None \/ bean.plan.interval = 1
    \/ j.current >= bean.last + bean.plan.interval

CronFires(j) ==
    LET after == (jobs \ {j}) \cup {[j EXCEPT !.after = now]} IN
    /\ now \in j.starts /\ j.after < now
    /\ jobs' = after
    /\ IF bean.plan.strategy = "recurring" /\ IntervalOver(j)
       THEN StartEvent(now, SlotEnd(now), j.current) /\ overlong' = FALSE
       ELSE UNCHANGED <<status, timer, bean, row, unstored, overlong, began>>
    /\ UNCHANGED <<now, listed, job, req, requests, restarts, overlap, unrun>>

TimerFires ==
    /\ timer # None /\ timer <= now
    /\ status' = "scheduled" /\ timer' = None /\ overlong' = FALSE
    /\ UNCHANGED <<now, row, bean, listed, job, jobs, req, requests, restarts,
                   overlap, unstored, unrun, began>>

\* Timers are punctual; queries take no whole tick.
Tick ==
    /\ now < End /\ Settled
    /\ now' = now + 1
    /\ UNCHANGED <<row, bean, listed, status, job, jobs, timer, req, requests,
                   restarts, overlap,
                   unstored, unrun, overlong, began>>

\* loadMaintenanceList runs what is in the table.
Restart ==
    /\ restarts < MaxRestarts /\ restarts' = restarts + 1
    /\ bean' = row /\ listed' = (row # None)
    /\ status' = "none" /\ job' = None /\ jobs' = {} /\ timer' = None
    /\ \E r \in Socket :
          req' = [s \in Socket |-> IF s = r /\ row # None
                                   THEN [Idle EXCEPT !.op = "load", !.at = "run"] ELSE Idle]
    /\ overlap' = FALSE /\ unstored' = FALSE /\ unrun' = FALSE /\ overlong' = FALSE
    /\ UNCHANGED <<now, row, requests, began>>
-----------------------------------------------------------------------------
Init ==
    /\ now = 0
    /\ row = None /\ bean = None /\ listed = FALSE
    /\ status = "none" /\ job = None /\ jobs = {} /\ timer = None
    /\ req = [r \in Socket |-> Idle]
    /\ requests = 0 /\ restarts = 0
    /\ overlap = FALSE /\ unstored = FALSE /\ unrun = FALSE /\ overlong = FALSE
    /\ began = {}

Request(r) == Add(r) \/ Edit(r) \/ Pause(r) \/ Resume(r) \/ Delete(r)

Go(r) == PauseStop(r) \/ Run(r) \/ NewJob(r)

Next ==
    \/ \E r \in Socket : Request(r) \/ Go(r)
    \/ \E j \in jobs : CronFires(j)
    \/ TimerFires \/ Tick \/ Restart

Spec == Init /\ [][Next]_vars
-----------------------------------------------------------------------------
(* Properties                                                              *)

TypeOK ==
    /\ now \in 0 .. End
    /\ row = None \/ row \in Beans
    /\ bean = None \/ bean \in Beans
    /\ listed \in BOOLEAN /\ (listed => bean # None)
    /\ status \in {"none", "scheduled", "under-maintenance"}
    /\ \A j \in jobs : j \in Job
    /\ job = None \/ \E j \in jobs : j.id = job
    /\ timer = None \/ timer \in Nat
    /\ req \in [Socket -> [op : {"none", "add", "edit", "pause", "resume", "load"},
                            at : {"none", "stop", "run", "job"},
                            current : 0 .. End, starts : SUBSET (0 .. End)]]
    /\ requests \in Nat /\ restarts \in Nat
    /\ overlap \in BOOLEAN /\ unstored \in BOOLEAN /\ unrun \in BOOLEAN
    /\ overlong \in BOOLEAN /\ began \subseteq 0 .. End

\* What a user has asked for.
InDates == bean.plan.from <= now /\ now < bean.plan.until

InSlot == \E s \in bean.plan.starts : s <= now /\ now < s + bean.plan.duration

Planned ==
    /\ bean.active
    /\ CASE bean.plan.strategy = "manual" -> TRUE
         [] bean.plan.strategy = "single" -> InDates
         [] OTHER                         -> InDates /\ InSlot

\* Plans whose slots a status can tell: one is over before the next begins, no
\* days are left out, and a timeout can count to its end.
Plain(p) ==
    /\ p.interval = 1 /\ p.duration <= MaxTimeout
    /\ \A s, t \in p.starts : s < t => s + p.duration <= t

\* Whatever was edited, paused and resumed, in whatever slot, and whenever the
\* server was restarted: monitors are told of a maintenance at the times that
\* the plan gives; and at no others, but for one more duration after a run in
\* the last second of a slot (overlong).  Excused are two runs that overlapped,
\* whose jobs then both go on, a pause that stopped the job of the resume that
\* overtook it, and an edit or a resume that failed before its run.
StatusTruthful ==
    Settled /\ listed /\ Plain(bean.plan) /\ ~overlap /\ ~unrun =>
        /\ Planned => UnderMaintenance
        /\ UnderMaintenance => Planned \/ overlong

\* A job that nobody can stop any more is only left behind by a run that was
\* overtaken while it asked for the time zone.
NoStrayJobs == ~overlap => \A j \in jobs : j.id = job

\* A restart changes nothing: what is in memory is what is stored, unless the
\* database failed a request or a slot halfway: all of them change memory first,
\* and none takes it back.
StoredAsSeen ==
    Settled /\ ~unstored =>
        /\ listed <=> row # None
        /\ listed => bean = row

\* A monitor sees a maintenance end before its time only while a run is between
\* its two halves, having set the status back, or at the tick at which the next
\* slot begins, between the timeout of the last and the job of this one.
GapsOnlyInRuns ==
    [][UnderMaintenance /\ bean' # None /\ listed'
       /\ Plain(bean'.plan) /\ ~overlap' /\ ~unrun' /\ ~UnderMaintenance' /\ Planned'
       => \/ \E r \in Socket : req'[r].at \in {"run", "job"}
          \/ \E j \in jobs' : now' \in j.starts /\ j.after < now']_vars

\* maintenance.js:294, "Check if the interval is enough": a recurring interval
\* begins when enough days have passed since it last began.
IntervalKept ==
    Settled /\ listed /\ bean.active /\ InDates /\ now \in bean.plan.starts
      /\ bean.plan.strategy = "recurring" /\ ~overlap /\ ~unrun
      /\ (\A b \in began : b + bean.plan.interval <= now)
    => UnderMaintenance
=============================================================================
