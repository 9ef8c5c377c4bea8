-------------------------- MODULE MaintenanceProofs --------------------------
(***************************************************************************)
(* For any plans, however long time goes on and however many requests are  *)
(* under way: the types of a maintenance, that its jobs are under control, *)
(* that what is in memory is what is stored, and that monitors are told of *)
(* it when its plan says so.                                               *)
(***************************************************************************)
EXTENDS Maintenance, FiniteSetTheorems, TLAPS

Query == [op : {"none", "add", "edit", "pause", "resume", "load"},
          at : {"none", "stop", "run", "job"},
          current : 0 .. End, starts : SUBSET (0 .. End)]

QueriesOK == req \in [Socket -> Query]

BeansOK ==
    /\ row = None \/ row \in Beans
    /\ bean = None \/ bean \in Beans
    /\ listed \in BOOLEAN /\ (listed => bean # None)

JobsOK ==
    /\ \A j \in jobs : j \in Job
    /\ IsFiniteSet(jobs)
    /\ job = None \/ \E j \in jobs : j.id = job

OthersOK ==
    /\ now \in 0 .. End
    /\ status \in {"none", "scheduled", "under-maintenance"}
    /\ timer = None \/ timer \in Nat
    /\ requests \in Nat /\ restarts \in Nat
    /\ began \subseteq 0 .. End

FlagsOK == /\ overlap \in BOOLEAN /\ unstored \in BOOLEAN
           /\ unrun \in BOOLEAN /\ overlong \in BOOLEAN

\* What runs, or is about to, has a bean.
Used == /\ \A r \in Socket : req[r].at \in {"run", "job"} => bean # None
        /\ jobs # {} => bean # None

\* A run that was not overtaken is the only one, and has no job before it makes
\* one.
One == ~overlap =>
          /\ \A j \in jobs : j.id = job
          /\ \A r \in Socket : req[r].at = "job" =>
                /\ jobs = {}
                /\ \A s \in Socket \ {r} : req[s].at # "job"

Seen == ~unstored => /\ listed <=> row # None
                     /\ listed => bean = row

MInv == QueriesOK /\ BeansOK /\ JobsOK /\ OthersOK /\ FlagsOK /\ Used /\ One /\ Seen
-----------------------------------------------------------------------------
(* What the steps are made of                                              *)

LEMMA IdleQuery == Idle \in Query /\ Idle.at = "none"
  BY MaintenanceAssumption DEF Idle, Query

\* A bean with some of its fields changed is a bean.
LEMMA BeanFields ==
    ASSUME NEW b \in Beans
    PROVE  /\ b.plan \in Plan /\ b # None
           /\ \A p \in Plan, a \in BOOLEAN :
                 [b EXCEPT !.plan = p, !.active = a] \in Beans
           /\ \A a \in BOOLEAN : [b EXCEPT !.active = a] \in Beans
           /\ \A l \in 0 .. End : [b EXCEPT !.last = l] \in Beans
  BY MaintenanceAssumption DEF Beans

LEMMA NewBean ==
    ASSUME NEW p \in Plan, NEW a \in BOOLEAN PROVE Bean(p, a) \in Beans
  BY DEF Bean, Beans

LEMMA MixedPlan ==
    ASSUME bean \in Beans, NEW p \in Plan PROVE Mixed(p) \in Plan
  BY DEF Beans, Plan, Mixed

\* stop leaves no job if there is one that it knows.
LEMMA StopJobOK ==
    ASSUME JobsOK, StopJob
    PROVE  /\ JobsOK' /\ jobs' \subseteq jobs
           /\ (\A j \in jobs : j.id = job) => jobs' = {}
  <1>1. jobs' \subseteq jobs  BY DEF StopJob
  <1>2. IsFiniteSet(jobs')  BY <1>1, FS_Subset DEF JobsOK
  <1> QED BY <1>1, <1>2 DEF JobsOK, StopJob

\* An id that no job has.
LEMMA NewIdOK ==
    ASSUME JobsOK
    PROVE  NewId \in Nat /\ \A j \in jobs : j.id # NewId
  <1> DEFINE n == Cardinality(jobs)
             I == 1 .. n + 1
             f == [i \in I |-> CHOOSE j \in jobs : j.id = i]
  <1>1. n \in Nat  BY FS_CardinalityType DEF JobsOK
  <1>2. IsFiniteSet(I) /\ Cardinality(I) = n + 1  BY <1>1, FS_Interval
  <1>3. \E i \in I : \A j \in jobs : j.id # i
    <2> SUFFICES ASSUME \A i \in I : \E j \in jobs : j.id = i PROVE FALSE
      OBVIOUS
    <2>1. \A i \in I : f[i] \in jobs /\ f[i].id = i  OBVIOUS
    <2>2. f \in [I -> jobs]  BY <2>1
    <2> HIDE DEF f, I
    <2>3. \E x, y \in I : x # y /\ f[x] = f[y]
      BY <1>1, <1>2, <2>2, FS_PigeonHole DEF JobsOK
    <2> QED BY <2>1, <2>3
  <1>4. I \subseteq Nat  BY <1>1
  <1> QED BY <1>3, <1>4 DEF NewId

\* What a slot that begins leaves of the bean and of the row.
Stores ==
    /\ bean' \in Beans
    /\ \/ UNCHANGED <<bean, row, unstored>>
       \/ row' = (IF row = None THEN None ELSE bean') /\ UNCHANGED unstored
       \/ row # None /\ row' = row /\ unstored' = TRUE

\* A slot that begins.
LEMMA StartEventOK ==
    ASSUME BeansOK, OthersOK, bean # None, NEW from \in Nat, NEW end \in Nat,
           NEW current \in 0 .. End, StartEvent(from, end, current)
    PROVE  /\ status' \in {"none", "scheduled", "under-maintenance"}
           /\ timer' \in Nat /\ began' \subseteq 0 .. End
           /\ Stores
  <1>1. bean' \in Beans  BY BeanFields DEF BeansOK, StartEvent, StoreLast
  <1>2. Timeout(from, end) \in Nat  BY MaintenanceAssumption DEF OthersOK, Timeout
  <1> QED BY <1>1, <1>2 DEF OthersOK, StartEvent, StoreLast, Stores

\* The ends that slots are given.
LEMMA SlotEnds ==
    ASSUME bean \in Beans, NEW from \in Nat
    PROVE  /\ SlotEnd(from) \in Nat
           /\ \A s \in 0 .. End : s + bean.plan.duration \in Nat
  <1>1. bean.plan.duration \in Nat /\ bean.plan.until \in Nat
    BY MaintenanceAssumption DEF Beans, Plan
  <1> QED BY <1>1, MaintenanceAssumption DEF SlotEnd, Least

\* What a step that may begin a slot does to memory and table.
LEMMA StoresOK ==
    ASSUME BeansOK, Seen, FlagsOK, bean # None, Stores, listed' = listed
    PROVE  BeansOK' /\ Seen' /\ unstored' \in BOOLEAN /\ bean' # None
  <1>1. bean' # None  BY MaintenanceAssumption DEF Stores
  <1>2. BeansOK'  BY <1>1 DEF BeansOK, Stores
  <1>3. unstored' \in BOOLEAN  BY DEF FlagsOK, Stores
  <1>4. CASE UNCHANGED <<bean, row, unstored>>  BY <1>4, <1>1, <1>2, <1>3 DEF Seen
  <1>5. CASE row' = (IF row = None THEN None ELSE bean') /\ UNCHANGED unstored
    BY <1>1, <1>2, <1>3, <1>5 DEF Seen
  <1>6. CASE unstored' = TRUE  BY <1>1, <1>2, <1>3, <1>6 DEF Seen
  <1> QED BY <1>4, <1>5, <1>6 DEF Stores
-----------------------------------------------------------------------------
(* The steps                                                               *)

LEMMA InitOK == Init => MInv
  <1> SUFFICES ASSUME Init PROVE MInv  OBVIOUS
  <1> USE MaintenanceAssumption DEF Init
  <1>1. QueriesOK /\ Used /\ One  BY IdleQuery DEF QueriesOK, Used, One
  <1>2. BeansOK /\ Seen  BY DEF BeansOK, Seen
  <1>3. JobsOK  BY FS_EmptySet DEF JobsOK
  <1>4. OthersOK  BY DEF OthersOK
  <1>5. FlagsOK  BY Zenon DEF FlagsOK
  <1> QED BY <1>1, <1>2, <1>3, <1>4, <1>5 DEF MInv

\* A request that goes to a place where no job is made.
LEMMA GoesTo ==
    ASSUME MInv, NEW r \in Socket, NEW q \in Query, NEW at \in {"stop", "run"},
           Goto(r, q, at)
    PROVE  /\ QueriesOK'
           /\ \A s \in Socket : req'[s].at = "job" => req[s].at = "job"
           /\ \A s \in Socket : req'[s].at = "run" => req[s].at = "run" \/ at = "run"
  <1>1. [q EXCEPT !.at = at] \in Query /\ [q EXCEPT !.at = at].at = at  BY DEF Query
  <1> QED BY <1>1 DEF Goto, MInv, QueriesOK

LEMMA Answers ==
    ASSUME MInv, NEW r \in Socket, Answer(r)
    PROVE  /\ QueriesOK'
           /\ req'[r].at = "none"
           /\ \A s \in Socket \ {r} : req'[s] = req[s]
  BY IdleQuery DEF Answer, MInv, QueriesOK

LEMMA NothingBegins ==
    ASSUME JobsOK, OthersOK, requests' = requests + 1,
           UNCHANGED <<now, status, job, jobs, timer, restarts, began>>
    PROVE  JobsOK' /\ OthersOK'
  BY DEF JobsOK, OthersOK

LEMMA AddOK == ASSUME MInv, NEW r \in Socket, Add(r) PROVE MInv'
  <1>1. PICK p \in Plans :
          /\ BeginWith(r) /\ bean = None
          /\ bean' = Bean(p, TRUE) /\ row' = bean' /\ listed' = TRUE
          /\ Goto(r, [Idle EXCEPT !.op = "add"], "run")
          /\ UNCHANGED <<now, status, job, jobs, timer, restarts, overlap,
                         unstored, unrun, overlong, began>>
    BY DEF Add
  <1>2. [Idle EXCEPT !.op = "add"] \in Query  BY IdleQuery DEF Query
  <1>3. bean' \in Beans /\ bean' # None
    BY <1>1, NewBean, MaintenanceAssumption
  <1>4. /\ QueriesOK'
        /\ \A s \in Socket : req'[s].at = "job" => req[s].at = "job"
    BY <1>1, <1>2, GoesTo
  <1>5. BeansOK' /\ Used' /\ Seen'  BY <1>1, <1>3 DEF BeansOK, Used, Seen
  <1>6. JobsOK' /\ OthersOK'  BY <1>1 DEF BeginWith, MInv, JobsOK, OthersOK
  <1>7. One'  BY <1>1, <1>4 DEF One, MInv
  <1>8. FlagsOK'  BY <1>1 DEF FlagsOK, MInv
  <1> QED BY <1>4, <1>5, <1>6, <1>7, <1>8 DEF MInv

\* Pause and resume differ in where they go; an edit that is stored, too.
LEMMA StoredOK ==
    ASSUME MInv, NEW r \in Socket, NEW q \in Query, NEW at \in {"stop", "run"},
           Goto(r, q, at), BeginWith(r), bean' \in Beans, row' = bean', listed,
           unstored' \in BOOLEAN, unrun' \in BOOLEAN,
           UNCHANGED <<now, listed, status, job, jobs, timer, restarts, overlap,
                       overlong, began>>
    PROVE  MInv'
  <1>1. /\ QueriesOK'
        /\ \A s \in Socket : req'[s].at = "job" => req[s].at = "job"
    BY GoesTo
  <1>2. bean' # None  BY MaintenanceAssumption
  <1>3. BeansOK' /\ Used' /\ Seen'  BY <1>2 DEF BeansOK, Used, Seen, MInv
  <1>4. JobsOK' /\ OthersOK'  BY DEF BeginWith, MInv, JobsOK, OthersOK
  <1>5. One'  BY <1>1 DEF One, MInv
  <1>6. FlagsOK'  BY DEF FlagsOK, MInv
  <1> QED BY <1>1, <1>3, <1>4, <1>5, <1>6 DEF MInv

\* One that fails has changed the bean, and says so.
LEMMA ChangedOK ==
    ASSUME MInv, NEW r \in Socket, BeginWith(r), bean' \in Beans, listed,
           unstored' = TRUE, unrun' \in BOOLEAN, UNCHANGED <<row, req>>,
           UNCHANGED <<now, listed, status, job, jobs, timer, restarts, overlap,
                       overlong, began>>
    PROVE  MInv'
  <1>1. bean' # None  BY MaintenanceAssumption
  <1>2. BeansOK' /\ Used' /\ Seen' /\ QueriesOK'
    BY <1>1 DEF BeansOK, Used, Seen, QueriesOK, MInv
  <1>3. requests' = requests + 1  BY DEF BeginWith
  <1>4. JobsOK' /\ OthersOK'  BY <1>3, NothingBegins DEF MInv
  <1>5. One'  BY DEF One, MInv
  <1>6. FlagsOK'
    <2>1. overlap' \in BOOLEAN /\ overlong' \in BOOLEAN  BY DEF FlagsOK, MInv
    <2> QED BY <2>1, Zenon DEF FlagsOK
  <1> QED BY <1>2, <1>4, <1>5, <1>6 DEF MInv

LEMMA EditOK == ASSUME MInv, NEW r \in Socket, Edit(r) PROVE MInv'
  <1>1. PICK p \in Plans, a \in BOOLEAN, outcome \in {"ok", "invalid", "store fails"} :
        /\ BeginWith(r) /\ listed
        /\ bean' = [bean EXCEPT !.plan = IF outcome = "invalid" THEN Mixed(p) ELSE p,
                                !.active = a]
        /\ IF outcome = "ok"
           THEN /\ row' = bean' /\ unstored' = FALSE /\ unrun' = FALSE
                /\ Goto(r, [Idle EXCEPT !.op = "edit"], "run")
           ELSE unstored' = TRUE /\ unrun' = TRUE /\ UNCHANGED <<row, req>>
        /\ UNCHANGED <<now, listed, status, job, jobs, timer, restarts, overlap,
                       overlong, began>>
    BY DEF Edit
  <1>2. bean \in Beans  BY <1>1 DEF MInv, BeansOK
  <1>3. p \in Plan  BY MaintenanceAssumption
  <1>4. Mixed(p) \in Plan  BY <1>2, <1>3, MixedPlan
  <1>5. bean' \in Beans /\ bean' # None
    BY <1>1, <1>2, <1>3, <1>4, BeanFields, MaintenanceAssumption
  <1>6. CASE outcome = "ok"
    <2>1. [Idle EXCEPT !.op = "edit"] \in Query  BY IdleQuery DEF Query
    <2>2. unstored' \in BOOLEAN /\ unrun' \in BOOLEAN  BY <1>1, <1>6, Zenon
    <2> QED BY <1>1, <1>5, <1>6, <2>1, <2>2, StoredOK
  <1>7. CASE outcome # "ok"
    <2>1. unstored' = TRUE /\ unrun' = TRUE /\ UNCHANGED <<row, req>>  BY <1>1, <1>7
    <2>2. unrun' \in BOOLEAN  BY <2>1, Zenon
    <2> QED BY <1>1, <1>5, <2>1, <2>2, ChangedOK
  <1> QED BY <1>6, <1>7

LEMMA PauseOK == ASSUME MInv, NEW r \in Socket, Pause(r) PROVE MInv'
  <1>1. bean \in Beans  BY DEF MInv, BeansOK, Pause
  <1>2. bean' \in Beans  BY <1>1, BeanFields DEF Pause
  <1>3. [Idle EXCEPT !.op = "pause"] \in Query  BY IdleQuery DEF Query
  <1>4. unrun' \in BOOLEAN  BY DEF MInv, FlagsOK, Pause
  <1>5. CASE /\ row' = bean' /\ Goto(r, [Idle EXCEPT !.op = "pause"], "stop")
             /\ UNCHANGED unstored
    <2>1. unstored' \in BOOLEAN  BY <1>5 DEF MInv, FlagsOK
    <2> QED BY <1>2, <1>3, <1>4, <1>5, <2>1, StoredOK DEF Pause
  <1>6. CASE unstored' = TRUE /\ UNCHANGED <<row, req>>
    BY <1>2, <1>4, <1>6, ChangedOK DEF Pause
  <1> QED BY <1>5, <1>6 DEF Pause

LEMMA ResumeOK == ASSUME MInv, NEW r \in Socket, Resume(r) PROVE MInv'
  <1>1. bean \in Beans  BY DEF MInv, BeansOK, Resume
  <1>2. bean' \in Beans  BY <1>1, BeanFields DEF Resume
  <1>3. [Idle EXCEPT !.op = "resume"] \in Query  BY IdleQuery DEF Query
  <1>4. CASE /\ row' = bean' /\ Goto(r, [Idle EXCEPT !.op = "resume"], "run")
             /\ UNCHANGED <<unstored, unrun>>
    <2>1. unstored' \in BOOLEAN /\ unrun' \in BOOLEAN  BY <1>4 DEF MInv, FlagsOK
    <2> QED BY <1>2, <1>3, <1>4, <2>1, StoredOK DEF Resume
  <1>5. CASE unstored' = TRUE /\ unrun' = TRUE /\ UNCHANGED <<row, req>>
    <2>1. unrun' \in BOOLEAN  BY <1>5, Zenon
    <2> QED BY <1>2, <1>5, <2>1, ChangedOK DEF Resume
  <1> QED BY <1>4, <1>5 DEF Resume

LEMMA DeleteOK == ASSUME MInv, NEW r \in Socket, Delete(r) PROVE MInv'
  <1>1. /\ JobsOK' /\ jobs' \subseteq jobs
        /\ (\A j \in jobs : j.id = job) => jobs' = {}
    BY StopJobOK DEF MInv, Delete
  <1>2. BeansOK' /\ Used' /\ Seen' /\ QueriesOK'
    BY <1>1 DEF MInv, Delete, BeansOK, Used, Seen, QueriesOK
  <1>3. OthersOK'  BY DEF MInv, Delete, BeginWith, OthersOK
  <1>4. One'
    <2> SUFFICES ASSUME ~overlap' PROVE One'  BY DEF One
    <2>1. ~overlap  BY DEF Delete
    <2> QED BY <1>1, <2>1 DEF MInv, One, Delete
  <1>5. FlagsOK'
    <2>1. unrun' \in BOOLEAN /\ overlong' \in BOOLEAN  BY DEF MInv, FlagsOK, Delete
    <2>2. overlap' \in BOOLEAN  BY Zenon DEF MInv, FlagsOK, Delete
    <2>3. unstored' \in BOOLEAN  BY Zenon DEF MInv, FlagsOK, Delete
    <2> QED BY <2>1, <2>2, <2>3 DEF FlagsOK
  <1> QED BY <1>1, <1>2, <1>3, <1>4, <1>5 DEF MInv

LEMMA PauseStopOK == ASSUME MInv, NEW r \in Socket, PauseStop(r) PROVE MInv'
  <1>1. /\ JobsOK' /\ jobs' \subseteq jobs
        /\ (\A j \in jobs : j.id = job) => jobs' = {}
    BY StopJobOK DEF MInv, PauseStop
  <1>2. /\ QueriesOK' /\ req'[r].at = "none"
        /\ \A s \in Socket \ {r} : req'[s] = req[s]
    BY Answers DEF PauseStop
  <1>3. BeansOK' /\ Seen'  BY DEF MInv, PauseStop, BeansOK, Seen
  <1>4. Used'
    <2>1. \A s \in Socket : req'[s].at \in {"run", "job"} => req[s].at \in {"run", "job"}
      BY <1>2
    <2> QED BY <1>1, <2>1 DEF MInv, Used, PauseStop
  <1>5. OthersOK'  BY DEF MInv, PauseStop, OthersOK
  <1>6. One'
    <2> SUFFICES ASSUME ~overlap' PROVE One'  BY DEF One
    <2>1. ~overlap  BY DEF PauseStop
    <2>2. jobs' = {}  BY <1>1, <2>1 DEF MInv, One
    <2>3. \A s \in Socket : req'[s].at = "job" => req[s].at = "job"  BY <1>2
    <2> QED BY <1>2, <2>1, <2>2, <2>3 DEF MInv, One
  <1>7. FlagsOK'  BY Zenon DEF MInv, FlagsOK, PauseStop
  <1> QED BY <1>1, <1>2, <1>3, <1>4, <1>5, <1>6, <1>7 DEF MInv

LEMMA RunOK == ASSUME MInv, NEW r \in Socket, Run(r) PROVE MInv'
  <1> DEFINE q == [req[r] EXCEPT !.current = now, !.starts = bean.plan.starts, !.at = "job"]
             status1 == IF bean.plan.strategy = "recurring" THEN "scheduled" ELSE status
  <1>1. bean \in Beans /\ bean # None  BY DEF MInv, Used, BeansOK, Run
  <1>2. bean.plan.starts \in SUBSET (0 .. End)  BY <1>1 DEF Beans, Plan
  <1>3. q \in Query /\ q.at = "job"
    BY <1>2 DEF MInv, QueriesOK, OthersOK, Query
  <1>4. \/ Answer(r) /\ UNCHANGED status
        \/ req' = [req EXCEPT ![r] = q] /\ status' = status1
    BY DEF Run, Goto
  <1> HIDE DEF q
  <1>5. /\ QueriesOK'
        /\ \A s \in Socket \ {r} : req'[s] = req[s]
    <2>1. CASE Answer(r)  BY <2>1, Answers
    <2>2. CASE req' = [req EXCEPT ![r] = q]  BY <1>3, <2>2 DEF MInv, QueriesOK
    <2> QED BY <1>4, <2>1, <2>2
  <1>6. /\ JobsOK' /\ jobs' \subseteq jobs
        /\ (\A j \in jobs : j.id = job) => jobs' = {}
    BY StopJobOK DEF MInv, Run
  <1>7. BeansOK' /\ Seen'  BY DEF MInv, Run, BeansOK, Seen
  <1>8. Used'  BY <1>1 DEF Used, Run
  <1>9. OthersOK'
    <2>1. status' \in {"none", "scheduled", "under-maintenance"}
      BY <1>4 DEF MInv, OthersOK
    <2> QED BY <2>1 DEF MInv, OthersOK, Run
  <1>10. One'
    <2> SUFFICES ASSUME ~overlap' PROVE One'  BY DEF One
    <2>1. ~overlap /\ \A s \in Socket \ {r} : req[s].at # "job"
      BY DEF Run, OtherAt
    <2>2. jobs' = {}  BY <1>6, <2>1 DEF MInv, One
    <2>3. \A s \in Socket \ {r} : req'[s].at # "job"  BY <1>5, <2>1
    <2> QED BY <2>2, <2>3 DEF One
  <1>11. FlagsOK'  BY Zenon DEF MInv, FlagsOK, Run
  <1> QED BY <1>5, <1>6, <1>7, <1>8, <1>9, <1>10, <1>11 DEF MInv

\* The job that is made begins a slot, or none.
LEMMA NewJobStarts ==
    ASSUME MInv, NEW r \in Socket, NewJob(r)
    PROVE  \/ UNCHANGED <<status, timer, bean, row, unstored, overlong, began>>
           \/ \E from, end \in Nat : StartEvent(from, end, req[r].current)
  <1> DEFINE q == req[r]
  <1>1. bean \in Beans /\ now \in Nat
    BY MaintenanceAssumption DEF MInv, Used, BeansOK, OthersOK, NewJob
  <1>2. CASE bean.plan.strategy # "recurring" \/ Running(q.starts) = {}
    BY <1>2 DEF NewJob
  <1>3. CASE ~(bean.plan.strategy # "recurring" \/ Running(q.starts) = {})
    <2>1. PICK s \in Running(q.starts) :
            \/ StartEvent(now, s + bean.plan.duration, q.current)
            \/ StartEvent(now + 1, SlotEnd(now + 1), q.current)
      BY <1>3 DEF NewJob
    <2>2. q.starts \in SUBSET (0 .. End)  BY DEF MInv, QueriesOK, Query
    <2>3. s \in 0 .. End  BY <2>2 DEF Running, Slots
    <2>4. now + 1 \in Nat  BY <1>1
    <2>5. s + bean.plan.duration \in Nat /\ SlotEnd(now + 1) \in Nat
      BY <1>1, <2>3, <2>4, SlotEnds
    <2> QED BY <1>1, <2>1, <2>4, <2>5
  <1> QED BY <1>2, <1>3

LEMMA NewJobOK == ASSUME MInv, NEW r \in Socket, NewJob(r) PROVE MInv'
  <1> DEFINE q == req[r]
             n == [starts |-> q.starts, after |-> now, current |-> q.current,
                   id |-> NewId]
  <1>1. bean \in Beans /\ bean # None  BY DEF MInv, Used, BeansOK, NewJob
  <1>2. q \in Query  BY DEF MInv, QueriesOK
  <1>3. q.current \in 0 .. End /\ q.starts \in SUBSET (0 .. End)  BY <1>2 DEF Query
  <1>4. n \in Job /\ n.id = NewId
    BY <1>3, NewIdOK DEF MInv, OthersOK, Job
  <1>5. job' = NewId /\ jobs' = jobs \cup {n}  BY DEF NewJob
  <1> HIDE DEF n
  <1>6. IsFiniteSet(jobs')  BY <1>5, FS_AddElement DEF MInv, JobsOK
  <1>7. JobsOK'  BY <1>4, <1>5, <1>6 DEF MInv, JobsOK
  <1>8. /\ QueriesOK' /\ req'[r].at = "none"
        /\ \A s \in Socket \ {r} : req'[s] = req[s]
    BY Answers DEF NewJob
  <1>9. \/ UNCHANGED <<status, timer, bean, row, unstored, overlong, began>>
        \/ \E from, end \in Nat : StartEvent(from, end, q.current)
    BY NewJobStarts
  <1>10. /\ status' \in {"none", "scheduled", "under-maintenance"}
         /\ timer' = None \/ timer' \in Nat
         /\ began' \subseteq 0 .. End
         /\ Stores
    <2>1. CASE UNCHANGED <<status, timer, bean, row, unstored, overlong, began>>
      BY <1>1, <2>1 DEF MInv, OthersOK, Stores
    <2>2. ASSUME NEW from \in Nat, NEW end \in Nat, StartEvent(from, end, q.current)
          PROVE /\ status' \in {"none", "scheduled", "under-maintenance"}
                /\ timer' \in Nat /\ began' \subseteq 0 .. End
                /\ Stores
      BY <1>1, <1>3, <2>2, StartEventOK DEF MInv
    <2> QED BY <1>9, <2>1, <2>2
  <1>12. BeansOK' /\ Seen' /\ unstored' \in BOOLEAN /\ bean' # None
    BY <1>1, <1>10, StoresOK DEF MInv, NewJob
  <1>13. Used'  BY <1>12 DEF Used
  <1>14. OthersOK'  BY <1>10 DEF MInv, OthersOK, NewJob
  <1>15. One'
    <2> SUFFICES ASSUME ~overlap' PROVE One'  BY DEF One
    <2>1. ~overlap /\ q.at = "job"  BY DEF NewJob
    <2>2. jobs = {} /\ \A s \in Socket \ {r} : req[s].at # "job"
      BY <2>1 DEF MInv, One
    <2> QED BY <1>4, <1>5, <1>8, <2>2 DEF One
  <1>16. FlagsOK'
    <2>1. overlong' \in BOOLEAN  BY Zenon DEF MInv, FlagsOK, NewJob
    <2> QED BY <1>12, <2>1 DEF MInv, FlagsOK, NewJob
  <1> QED BY <1>7, <1>8, <1>12, <1>13, <1>14, <1>15, <1>16 DEF MInv

LEMMA CronFiresOK == ASSUME MInv, NEW j \in jobs, CronFires(j) PROVE MInv'
  <1> DEFINE n == [j EXCEPT !.after = now]
  <1>1. bean \in Beans /\ bean # None  BY DEF MInv, Used, BeansOK
  <1>2. j \in Job  BY DEF MInv, JobsOK
  <1>3. n \in Job /\ n.id = j.id  BY <1>2 DEF MInv, OthersOK, Job
  <1>4. j.current \in 0 .. End  BY <1>2 DEF Job
  <1>5. jobs' = (jobs \ {j}) \cup {n}  BY DEF CronFires
  <1> HIDE DEF n
  <1>6. IsFiniteSet(jobs')
    <2>1. IsFiniteSet(jobs \ {j})  BY FS_RemoveElement DEF MInv, JobsOK
    <2> QED BY <1>5, <2>1, FS_AddElement
  <1>7. JobsOK'  BY <1>3, <1>5, <1>6 DEF MInv, JobsOK, CronFires
  <1>8. now \in Nat /\ SlotEnd(now) \in Nat
    <2>1. now \in Nat  BY MaintenanceAssumption DEF MInv, OthersOK
    <2> QED BY <1>1, <2>1, SlotEnds
  <1>9. \/ UNCHANGED <<status, timer, bean, row, unstored, overlong, began>>
        \/ StartEvent(now, SlotEnd(now), j.current) /\ overlong' = FALSE
    BY DEF CronFires
  <1>10. /\ status' \in {"none", "scheduled", "under-maintenance"}
         /\ timer' = None \/ timer' \in Nat
         /\ began' \subseteq 0 .. End
         /\ Stores
    <2>1. CASE UNCHANGED <<status, timer, bean, row, unstored, overlong, began>>
      BY <1>1, <2>1 DEF MInv, OthersOK, Stores
    <2>2. CASE StartEvent(now, SlotEnd(now), j.current)
      BY <1>1, <1>4, <1>8, <2>2, StartEventOK DEF MInv
    <2> QED BY <1>9, <2>1, <2>2
  <1>11. BeansOK' /\ Seen' /\ unstored' \in BOOLEAN /\ bean' # None
    BY <1>1, <1>10, StoresOK DEF MInv, CronFires
  <1>12. QueriesOK'  BY DEF MInv, QueriesOK, CronFires
  <1>13. Used'  BY <1>11 DEF Used
  <1>14. OthersOK'  BY <1>10 DEF MInv, OthersOK, CronFires
  <1>15. One'  BY <1>3, <1>5 DEF MInv, One, CronFires
  <1>16. FlagsOK'
    <2>1. overlong' \in BOOLEAN  BY <1>9, Zenon DEF MInv, FlagsOK
    <2> QED BY <1>11, <2>1 DEF MInv, FlagsOK, CronFires
  <1> QED BY <1>7, <1>11, <1>12, <1>13, <1>14, <1>15, <1>16 DEF MInv

LEMMA TimeOK == ASSUME MInv, TimerFires \/ Tick PROVE MInv'
  <1>1. UNCHANGED <<row, bean, listed, job, jobs, req, overlap, unstored, unrun>>
    BY DEF TimerFires, Tick
  <1>3. QueriesOK' /\ BeansOK' /\ JobsOK'
    BY <1>1 DEF MInv, QueriesOK, BeansOK, JobsOK
  <1>4. Used' /\ One' /\ Seen'
    BY <1>1 DEF MInv, Used, One, Seen
  <1>2. OthersOK'
    <2>1. CASE TimerFires
      BY <2>1 DEF MInv, TimerFires, OthersOK
    <2>2. CASE Tick
      BY <2>2, MaintenanceAssumption DEF MInv, Tick, OthersOK
    <2> QED BY <2>1, <2>2
  <1>5. FlagsOK'
    <2>1. overlong' \in BOOLEAN  BY Zenon DEF MInv, FlagsOK, TimerFires, Tick
    <2> QED BY <1>1, <2>1 DEF MInv, FlagsOK
  <1> QED BY <1>2, <1>3, <1>4, <1>5 DEF MInv

LEMMA RestartOK == ASSUME MInv, Restart PROVE MInv'
  <1> DEFINE load == [Idle EXCEPT !.op = "load", !.at = "run"]
  <1>1. load \in Query /\ load.at = "run"  BY IdleQuery DEF Query
  <1> HIDE DEF load
  <1>2. PICK r \in Socket :
          req' = [s \in Socket |-> IF s = r /\ row # None THEN load ELSE Idle]
    BY DEF Restart, load
  <1>3. QueriesOK'  BY <1>1, <1>2, IdleQuery DEF QueriesOK
  <1>4. \A s \in Socket : /\ req'[s].at # "job"
                          /\ req'[s].at = "run" => row # None
    BY <1>1, <1>2, IdleQuery
  <1>5. BeansOK' /\ Seen'  BY DEF Restart, MInv, BeansOK, Seen
  <1>6. JobsOK'  BY FS_EmptySet DEF Restart, JobsOK
  <1>7. Used' /\ One'  BY <1>4 DEF Restart, Used, One
  <1>8. OthersOK'  BY DEF Restart, MInv, OthersOK
  <1>9. FlagsOK'  BY Zenon DEF Restart, FlagsOK
  <1> QED BY <1>3, <1>5, <1>6, <1>7, <1>8, <1>9 DEF MInv

LEMMA NextOK == MInv /\ [Next]_vars => MInv'
  <1> SUFFICES ASSUME MInv, [Next]_vars PROVE MInv'  OBVIOUS
  <1>1. ASSUME NEW r \in Socket, Request(r) PROVE MInv'
    BY <1>1, AddOK, EditOK, PauseOK, ResumeOK, DeleteOK DEF Request
  <1>2. ASSUME NEW r \in Socket, Go(r) PROVE MInv'
    BY <1>2, PauseStopOK, RunOK, NewJobOK DEF Go
  <1>3. ASSUME NEW j \in jobs, CronFires(j) PROVE MInv'
    BY <1>3, CronFiresOK
  <1>4. CASE TimerFires \/ Tick  BY <1>4, TimeOK
  <1>5. CASE Restart  BY <1>5, RestartOK
  <1>6. CASE UNCHANGED vars
    BY <1>6 DEF vars, MInv, QueriesOK, BeansOK, JobsOK, OthersOK, FlagsOK, Used, One,
       Seen
  <1> QED BY <1>1, <1>2, <1>3, <1>4, <1>5, <1>6 DEF Next

LEMMA AlwaysMInv == Spec => []MInv
  BY InitOK, NextOK, PTL DEF Spec
-----------------------------------------------------------------------------
(* The theorems                                                            *)

\* The variables of a maintenance have their types (maintenance.js 200-430).
THEOREM MaintenanceTypes == Spec => []TypeOK
  <1>1. MInv => TypeOK
    BY DEF MInv, QueriesOK, Query, BeansOK, JobsOK, OthersOK, FlagsOK, TypeOK
  <1> QED BY <1>1, AlwaysMInv, PTL

\* A cron job that stop does not know of is only there after a run that was
\* overtaken (maintenance.js 220-330): for any number of requests and plans.
THEOREM JobsUnderControl == Spec => []NoStrayJobs
  <1>1. MInv => NoStrayJobs  BY DEF MInv, One, NoStrayJobs
  <1> QED BY <1>1, AlwaysMInv, PTL

\* A restart changes nothing that a user can see: memory and table agree after
\* any requests, slots and restarts, up to an edit, a pause, a resume, a deletion
\* or a slot whose store the database fails (maintenance-socket-handler.js 47-68
\* and 221-316, maintenance.js 264-265).
THEOREM MemoryIsTable == Spec => []StoredAsSeen
  <1>1. MInv => StoredAsSeen  BY DEF MInv, Seen, StoredAsSeen
  <1> QED BY <1>1, AlwaysMInv, PTL
-----------------------------------------------------------------------------
(* What monitors are told                                                  *)

\* The slot that began at s goes on, as far as the end date lets it.
Due(s) == s <= now /\ now < s + bean.plan.duration /\ now < bean.plan.until

\* A maintenance that is on has a timeout, and a slot that does not end before
\* it, unless it is from the last second of one.
Tells ==
    status = "under-maintenance" =>
        /\ timer \in Nat
        /\ overlong \/ \E s \in bean.plan.starts : s <= now /\ timer <= s + bean.plan.duration

\* A slot that goes on is told of until its end, once the job has fired.
Kept(j) ==
    \A s \in bean.plan.starts : Due(s) =>
        \/ s = now /\ j.after < s
        \/ /\ status = "under-maintenance" /\ timer \in Nat
           /\ s + bean.plan.duration <= timer \/ bean.plan.until <= timer

\* The only job is one for the plan.
Scheduled(j) ==
    /\ jobs = {j} /\ j.starts = bean.plan.starts /\ j.after <= now
    /\ Plain(bean.plan) => Tells /\ Kept(j)

\* No run is to come that would schedule the plan anew.
Governed ==
    /\ listed /\ bean.active /\ ~overlap /\ ~unrun
    /\ \A r \in Socket : req[r].at # "run"

Making == \E r \in Socket : req[r].at = "job"

\* Then no pause is to come either, and a plan with slots is between the halves
\* of its run or has its job.
InTime ==
    Governed =>
        /\ \A r \in Socket : req[r].at # "stop"
        /\ bean.plan.strategy = "recurring" /\ Making =>
              /\ status # "under-maintenance"
              /\ \A r \in Socket : req[r].at = "job" => req[r].starts = bean.plan.starts
        /\ bean.plan.strategy = "recurring" /\ ~Making => \E j \in jobs : Scheduled(j)

\* The numbers of a plan.
LEMMA PlanNumbers ==
    ASSUME NEW b \in Beans
    PROVE  /\ b.plan.duration \in Nat /\ b.plan.until \in Nat /\ b.plan.from \in Nat
           /\ b.plan.starts \subseteq Nat
  BY MaintenanceAssumption DEF Beans, Plan

\* A request changes a plan only if a run is to come, or it fails, or ends it.
LEMMA RequestInTime ==
    ASSUME MInv, NEW r \in Socket, Request(r) PROVE InTime'
  <1>1. ASSUME NEW op, Goto(r, [Idle EXCEPT !.op = op], "run") PROVE ~Governed'
    <2>1. req'[r].at = "run"
      BY <1>1 DEF MInv, QueriesOK, Goto, Idle
    <2> QED BY <2>1 DEF Governed
  <1>2. CASE Add(r)  BY <1>1, <1>2 DEF Add, InTime
  <1>3. CASE Edit(r)
    <2>1. \/ Goto(r, [Idle EXCEPT !.op = "edit"], "run")
          \/ unrun' = TRUE
      BY <1>3 DEF Edit
    <2> QED BY <1>1, <2>1 DEF Governed, InTime
  <1>4. CASE Pause(r)
    <2>1. bean \in Beans  BY <1>4 DEF MInv, BeansOK, Pause
    <2>2. bean'.active = FALSE  BY <1>4, <2>1 DEF Pause, Beans
    <2> QED BY <2>2 DEF Governed, InTime
  <1>5. CASE Resume(r)
    <2>1. \/ Goto(r, [Idle EXCEPT !.op = "resume"], "run")
          \/ unrun' = TRUE
      BY <1>5 DEF Resume
    <2> QED BY <1>1, <2>1 DEF Governed, InTime
  <1>6. CASE Delete(r)  BY <1>6 DEF Delete, Governed, InTime
  <1> QED BY <1>2, <1>3, <1>4, <1>5, <1>6 DEF Request

LEMMA RestartInTime == ASSUME MInv, Restart PROVE InTime'
  <1> DEFINE load == [Idle EXCEPT !.op = "load", !.at = "run"]
  <1>1. load.at = "run"  BY DEF Idle
  <1> HIDE DEF load
  <1>2. PICK r \in Socket :
          req' = [s \in Socket |-> IF s = r /\ row # None THEN load ELSE Idle]
    BY DEF Restart, load
  <1>3. CASE row # None  BY <1>1, <1>2, <1>3 DEF Governed, InTime
  <1>4. CASE row = None  BY <1>4 DEF Restart, Governed, InTime
  <1> QED BY <1>3, <1>4

LEMMA PauseStopInTime ==
    ASSUME MInv, InTime, NEW r \in Socket, PauseStop(r) PROVE InTime'
  <1> SUFFICES ASSUME Governed' PROVE FALSE  BY DEF InTime
  <1>1. /\ req'[r].at = "none"
        /\ \A s \in Socket \ {r} : req'[s] = req[s]
    BY Answers DEF MInv, PauseStop
  <1>2. \A s \in Socket : req[s].at # "run"  BY <1>1 DEF Governed, PauseStop
  <1>3. Governed  BY <1>2 DEF Governed, PauseStop
  <1> QED BY <1>3 DEF InTime, PauseStop

\* A run finds no pause to come and no other run, leaves no job, and sets the
\* status back.
LEMMA RunInTime == ASSUME MInv, NEW r \in Socket, Run(r) PROVE InTime'
  <1> DEFINE q == [req[r] EXCEPT !.current = now, !.starts = bean.plan.starts, !.at = "job"]
             status1 == IF bean.plan.strategy = "recurring" THEN "scheduled" ELSE status
  <1> SUFFICES ASSUME Governed' PROVE InTime'  BY DEF InTime
  <1>1. bean' = bean  BY DEF Run
  <1>2. q.at = "job" /\ q.starts = bean.plan.starts
    BY DEF MInv, QueriesOK, Query
  <1>3. CASE bean.plan.strategy = "manual"
    <2>1. Answer(r)  BY <1>3 DEF Run
    <2>2. /\ req'[r].at = "none"
          /\ \A s \in Socket \ {r} : req'[s] = req[s]
      BY <2>1, Answers DEF MInv
    <2>3. \A s \in Socket \ {r} : req[s].at # "stop"
      BY DEF Governed, Run, OtherAt
    <2> QED BY <1>1, <1>3, <2>2, <2>3 DEF InTime
  <1>4. CASE bean.plan.strategy # "manual"
    <2>1. req' = [req EXCEPT ![r] = q] /\ status' = status1
      BY <1>4 DEF Run, Goto
    <2> HIDE DEF q
    <2>2. req'[r] = q /\ \A s \in Socket \ {r} : req'[s] = req[s]
      BY <2>1 DEF MInv, QueriesOK
    <2>3. \A s \in Socket \ {r} : req[s].at \notin {"stop", "job"}
      BY DEF Governed, Run, OtherAt
    <2>4. \A s \in Socket : req'[s].at # "stop"  BY <1>2, <2>2, <2>3
    <2>5. Making'  BY <1>2, <2>2 DEF Making
    <2>6. \A s \in Socket : req'[s].at = "job" => req'[s].starts = bean'.plan.starts
      BY <1>1, <1>2, <2>2, <2>3
    <2>7. bean'.plan.strategy = "recurring" => status' # "under-maintenance"
      BY <1>1, <2>1
    <2> QED BY <2>4, <2>5, <2>6, <2>7 DEF InTime
  <1> QED BY <1>3, <1>4

\* In a plain plan two slots are not under way at once.
LEMMA OneSlot ==
    ASSUME NEW b \in Beans, Plain(b.plan), now \in Nat,
           NEW s \in b.plan.starts, NEW t \in b.plan.starts,
           s <= now, now < s + b.plan.duration, t <= now, now < t + b.plan.duration
    PROVE  s = t
  <1>1. s \in Nat /\ t \in Nat /\ b.plan.duration \in Nat  BY PlanNumbers
  <1>2. /\ s < t => s + b.plan.duration <= t
        /\ t < s => t + b.plan.duration <= s
    BY DEF Plain
  <1> QED BY <1>1, <1>2

\* A slot that begins leaves the plan as it is.
LEMMA StartedPlan ==
    ASSUME bean \in Beans
    PROVE  \A from, end, current :
              UNCHANGED <<status, timer, bean, row, unstored, overlong, began>>
              \/ StartEvent(from, end, current)
              => bean'.plan = bean.plan /\ bean'.active = bean.active
  BY DEF StartEvent, StoreLast, Beans

\* In a plain plan a timeout can count to the end of a slot.
LEMMA TimeoutReaches ==
    ASSUME NEW b \in Beans, Plain(b.plan), NEW from \in Nat, NEW end \in Nat,
           end <= from + b.plan.duration
    PROVE  Timeout(from, end) = end
  <1>1. b.plan.duration \in Nat /\ MaxTimeout \in Nat /\ b.plan.duration <= MaxTimeout
    BY PlanNumbers, MaintenanceAssumption DEF Plain
  <1> QED BY <1>1 DEF Timeout

\* The new job finds the slot that has begun, if there is one, and does not fire
\* for it.
LEMMA NewJobInTime ==
    ASSUME MInv, InTime, NEW r \in Socket, NewJob(r) PROVE InTime'
  <1> DEFINE q == req[r]
  <1> SUFFICES ASSUME Governed' PROVE InTime'  BY DEF InTime
  <1>1. bean \in Beans /\ now \in Nat
    BY MaintenanceAssumption DEF MInv, Used, BeansOK, OthersOK, NewJob
  <1>2. PICK n : n = [starts |-> q.starts, after |-> now, current |-> q.current,
                      id |-> NewId]
    OBVIOUS
  <1>3. /\ jobs' = jobs \cup {n} /\ q.at = "job"
        /\ n.starts = q.starts /\ n.after = now
    BY <1>2 DEF NewJob
  <1>4. /\ req'[r].at = "none"
        /\ \A s \in Socket \ {r} : req'[s] = req[s]
    BY Answers DEF NewJob
  <1>5. \/ UNCHANGED <<status, timer, bean, row, unstored, overlong, began>>
        \/ \E from, end \in Nat : StartEvent(from, end, q.current)
    BY NewJobStarts
  <1>6. bean'.plan = bean.plan /\ bean'.active = bean.active
    BY <1>1, <1>5, StartedPlan
  <1>7. \A s \in Socket : req[s].at # "run"  BY <1>3, <1>4 DEF Governed
  <1>8. Governed  BY <1>6, <1>7 DEF Governed, NewJob
  <1>9. \A s \in Socket : req'[s].at # "stop"  BY <1>4, <1>8 DEF InTime
  <1>10. jobs = {} /\ \A s \in Socket \ {r} : req[s].at # "job"
    BY <1>3, <1>8 DEF MInv, One, Governed
  <1>11. ~Making'  BY <1>4, <1>10 DEF Making
  <1>12. ASSUME bean.plan.strategy = "recurring" PROVE Scheduled(n)'
    <2>1. q.starts = bean.plan.starts /\ status # "under-maintenance"
      BY <1>3, <1>8, <1>12 DEF InTime, Making
    <2>2. jobs' = {n} /\ n.starts = bean'.plan.starts /\ n.after <= now' /\ now' = now
      BY <1>1, <1>3, <1>6, <1>10, <2>1 DEF NewJob
    <2>3. ASSUME Plain(bean.plan) PROVE Tells' /\ Kept(n)'
      <3>1. CASE Running(q.starts) = {}
        <4>1. status' = status  BY <1>12, <3>1 DEF NewJob
        <4>2. ASSUME NEW s \in bean.plan.starts, Due(s) PROVE FALSE
          <5>1. s \in Slots(q.starts) /\ s <= now  BY <2>1, <4>2 DEF Slots, Due
          <5>2. ASSUME NEW t \in Slots(q.starts) PROVE s <= t
            <6>1. t \in bean.plan.starts /\ now < t + bean.plan.duration
              BY <1>1, <2>1, <5>2, PlanNumbers DEF Slots
            <6>2. CASE t <= now  BY <1>1, <2>3, <4>2, <6>1, <6>2, OneSlot, PlanNumbers DEF Due
            <6>3. CASE ~(t <= now)  BY <1>1, <5>1, <6>1, <6>3, PlanNumbers
            <6> QED BY <6>2, <6>3
          <5> QED BY <3>1, <5>1, <5>2 DEF Running
        <4>3. \A s \in bean'.plan.starts : ~Due(s)'
          BY <1>6, <2>2, <4>2 DEF Due
        <4> QED BY <2>1, <4>1, <4>3 DEF Tells, Kept
      <3>2. CASE Running(q.starts) # {}
        <4>1. PICK s \in Running(q.starts) :
                \/ /\ StartEvent(now, s + bean.plan.duration, q.current)
                   /\ overlong' = FALSE
                \/ /\ s + bean.plan.duration = now + 1
                   /\ StartEvent(now + 1, SlotEnd(now + 1), q.current)
                   /\ overlong' = TRUE
          BY <1>12, <3>2 DEF NewJob
        <4>2. /\ s \in bean.plan.starts /\ s <= now /\ now < s + bean.plan.duration
              /\ s \in Nat /\ bean.plan.duration \in Nat /\ bean.plan.until \in Nat
          BY <1>1, <2>1, PlanNumbers DEF Running, Slots
        <4>3. /\ status' = "under-maintenance" /\ timer' \in Nat
              /\ timer' = s + bean.plan.duration \/ overlong' = TRUE
              /\ s + bean.plan.duration <= timer' \/ bean.plan.until <= timer'
          <5>1. CASE StartEvent(now, s + bean.plan.duration, q.current)
            <6>1. /\ s + bean.plan.duration \in Nat
                  /\ s + bean.plan.duration <= now + bean.plan.duration
              BY <1>1, <4>2
            <6>2. Timeout(now, s + bean.plan.duration) = s + bean.plan.duration
              BY <1>1, <2>3, <6>1, TimeoutReaches
            <6> QED BY <4>2, <5>1, <6>1, <6>2 DEF StartEvent
          <5>2. CASE /\ s + bean.plan.duration = now + 1
                     /\ StartEvent(now + 1, SlotEnd(now + 1), q.current)
                     /\ overlong' = TRUE
            <6>1. /\ SlotEnd(now + 1) \in Nat
                  /\ SlotEnd(now + 1) <= now + 1 + bean.plan.duration
                  /\ now + 1 <= SlotEnd(now + 1) \/ bean.plan.until <= SlotEnd(now + 1)
              BY <1>1, <4>2 DEF SlotEnd, Least
            <6>2. Timeout(now + 1, SlotEnd(now + 1)) = SlotEnd(now + 1)
              BY <1>1, <2>3, <6>1, TimeoutReaches
            <6> QED BY <4>2, <5>2, <6>1, <6>2 DEF StartEvent
          <5> QED BY <4>1, <5>1, <5>2
        <4>4. Tells'
          <5>1. timer' = s + bean.plan.duration => timer' <= s + bean'.plan.duration
            BY <1>1, <1>6, <4>2
          <5> QED BY <1>6, <2>2, <4>2, <4>3, <5>1 DEF Tells
        <4>5. ASSUME NEW t \in bean.plan.starts, t <= now, now < t + bean.plan.duration
              PROVE t = s
          BY <1>1, <2>3, <4>2, <4>5, OneSlot
        <4>6. Kept(n)'
          BY <1>1, <1>6, <2>2, <4>2, <4>3, <4>5, PlanNumbers DEF Kept, Due
        <4> QED BY <4>4, <4>6
      <3> QED BY <3>1, <3>2
    <2>4. Plain(bean'.plan) => Plain(bean.plan)  BY <1>6
    <2> QED BY <2>2, <2>3, <2>4 DEF Scheduled
  <1>13. n \in jobs'  BY <1>3
  <1> QED BY <1>6, <1>9, <1>11, <1>12, <1>13 DEF InTime

\* A slot that begins is the only one, and gets its own timeout.
LEMMA CronFiresInTime ==
    ASSUME MInv, InTime, NEW j \in jobs, CronFires(j) PROVE InTime'
  <1> SUFFICES ASSUME Governed' PROVE InTime'  BY DEF InTime
  <1>1. bean \in Beans /\ now \in Nat /\ j \in Job
    BY MaintenanceAssumption DEF MInv, Used, BeansOK, JobsOK, OthersOK
  <1>2. PICK n : n = [j EXCEPT !.after = now]  OBVIOUS
  <1>3. jobs' = (jobs \ {j}) \cup {n} /\ n.starts = j.starts /\ n.after = now
    BY <1>1, <1>2 DEF CronFires, Job
  <1>4. bean'.plan = bean.plan /\ bean'.active = bean.active
    BY <1>1, StartedPlan DEF CronFires
  <1>5. Governed  BY <1>4 DEF Governed, CronFires
  <1>6. ~Making  BY <1>5 DEF Making, MInv, One, Governed
  <1>7. \A s \in Socket : req'[s].at # "stop"  BY <1>5 DEF InTime, CronFires
  <1>8. ~Making'  BY <1>6 DEF Making, CronFires
  <1>9. ASSUME bean.plan.strategy = "recurring" PROVE Scheduled(n)'
    <2>1. PICK k \in jobs : Scheduled(k)  BY <1>5, <1>6, <1>9 DEF InTime
    <2>2. jobs = {j} /\ j.starts = bean.plan.starts  BY <2>1 DEF Scheduled
    <2>3. jobs' = {n} /\ n.starts = bean'.plan.starts /\ n.after <= now' /\ now' = now
      BY <1>1, <1>3, <1>4, <2>2 DEF CronFires
    <2>4. ASSUME Plain(bean.plan) PROVE Tells' /\ Kept(n)'
      <3>1. now \in bean.plan.starts  BY <2>2 DEF CronFires
      <3>2. StartEvent(now, SlotEnd(now), j.current)
        BY <1>9, <2>4 DEF CronFires, IntervalOver, Plain
      <3>4. /\ SlotEnd(now) \in Nat /\ SlotEnd(now) <= now + bean.plan.duration
            /\ \/ SlotEnd(now) = now + bean.plan.duration
               \/ SlotEnd(now) = bean.plan.until
        BY <1>1, PlanNumbers DEF SlotEnd, Least
      <3>3. status' = "under-maintenance" /\ timer' = SlotEnd(now)
        <4>1. Timeout(now, SlotEnd(now)) = SlotEnd(now)
          BY <1>1, <2>4, <3>4, TimeoutReaches
        <4> QED BY <3>2, <4>1 DEF StartEvent
      <3>5. Tells'
        BY <1>1, <1>4, <2>3, <3>1, <3>3, <3>4, PlanNumbers DEF Tells
      <3>6. ASSUME NEW t \in bean.plan.starts, t <= now, now < t + bean.plan.duration
            PROVE t = now
        <4>1. now < now + bean.plan.duration  BY <1>1, <3>6, PlanNumbers
        <4> QED BY <1>1, <2>4, <3>1, <3>6, <4>1, OneSlot
      <3>7. Kept(n)'
        BY <1>1, <1>4, <2>3, <3>3, <3>4, <3>6, PlanNumbers DEF Kept, Due
      <3> QED BY <3>5, <3>7
    <2>5. Plain(bean'.plan) => Plain(bean.plan)  BY <1>4
    <2> QED BY <2>3, <2>4, <2>5 DEF Scheduled
  <1>10. n \in jobs'  BY <1>3
  <1> QED BY <1>4, <1>7, <1>8, <1>9, <1>10 DEF InTime

\* The timeout of a slot does not end it early; and by the next tick whatever
\* was due has fired.
LEMMA TimeInTime ==
    ASSUME MInv, InTime, TimerFires \/ Tick PROVE InTime'
  <1> SUFFICES ASSUME Governed' PROVE InTime'  BY DEF InTime
  <1>1. UNCHANGED <<row, bean, listed, job, jobs, req, overlap, unrun>>
    BY DEF TimerFires, Tick
  <1>2. Governed  BY <1>1 DEF Governed
  <1>3. Making' <=> Making  BY <1>1 DEF Making
  <1>4. bean \in Beans /\ now \in Nat
    BY <1>2, MaintenanceAssumption DEF Governed, MInv, BeansOK, OthersOK
  <1>5. status' = "under-maintenance" => status = "under-maintenance"
    BY DEF TimerFires, Tick
  <1>6. ASSUME NEW j \in jobs, Scheduled(j) PROVE Scheduled(j)'
    <2>0. j \in Job  BY DEF MInv, JobsOK
    <2>1. jobs' = {j} /\ j.starts = bean'.plan.starts /\ j.after <= now'
      BY <1>1, <1>4, <1>6, <2>0 DEF Scheduled, TimerFires, Tick, Job
    <2>2. ASSUME Plain(bean.plan) PROVE Tells' /\ Kept(j)'
      <3>1. Tells /\ Kept(j)  BY <1>6, <2>2 DEF Scheduled
      <3>2. CASE TimerFires
        <4>1. Tells'  BY <3>2 DEF Tells, TimerFires
        <4>2. timer \in Nat /\ timer <= now /\ now' = now
          BY <3>2 DEF TimerFires, MInv, OthersOK
        <4>3. ASSUME NEW s \in bean.plan.starts, Due(s) PROVE s = now /\ j.after < s
          BY <1>4, <3>1, <4>2, <4>3, PlanNumbers DEF Kept, Due
        <4> QED BY <1>1, <4>1, <4>2, <4>3 DEF Kept, Due
      <3>3. CASE Tick
        <4>1. now' = now + 1 /\ status' = status /\ timer' = timer /\ Settled
          BY <3>3 DEF Tick
        <4>2. Tells'
          <5>2. overlong' = overlong  BY <3>3 DEF Tick
          <5> SUFFICES ASSUME status = "under-maintenance", ~overlong PROVE Tells'
            BY <3>1, <4>1, <5>2 DEF Tells
          <5>1. PICK s \in bean.plan.starts : s <= now /\ timer <= s + bean.plan.duration
            BY <3>1 DEF Tells
          <5> QED BY <1>1, <1>4, <3>1, <4>1, <5>1, PlanNumbers DEF Tells
        <4>3. ASSUME NEW s \in bean.plan.starts, Due(s)'
              PROVE \/ s = now' /\ j.after < s
                    \/ /\ status' = "under-maintenance" /\ timer' \in Nat
                       /\ s + bean.plan.duration <= timer' \/ bean.plan.until <= timer'
          <5>1. s \in Nat /\ bean.plan.duration \in Nat /\ bean.plan.until \in Nat
                /\ s <= now + 1 /\ now + 1 < s + bean.plan.duration
                /\ now + 1 < bean.plan.until
            BY <1>1, <1>4, <4>1, <4>3, PlanNumbers DEF Due
          <5>2. CASE s = now + 1
            BY <1>4, <1>6, <2>0, <4>1, <5>2 DEF Scheduled, Job
          <5>3. CASE s # now + 1
            <6>1. Due(s)  BY <1>4, <5>1, <5>3 DEF Due
            <6>2. ~(s = now /\ j.after < s)
              BY <1>6, <4>1 DEF Settled, Scheduled
            <6> QED BY <3>1, <4>1, <6>1, <6>2 DEF Kept
          <5> QED BY <5>2, <5>3
        <4> QED BY <1>1, <4>2, <4>3 DEF Kept
      <3> QED BY <3>2, <3>3
    <2>3. Plain(bean'.plan) => Plain(bean.plan)  BY <1>1
    <2> QED BY <2>1, <2>2, <2>3 DEF Scheduled
  <1> QED BY <1>1, <1>2, <1>3, <1>5, <1>6 DEF InTime

LEMMA StutterInTime == ASSUME InTime, UNCHANGED vars PROVE InTime'
  BY DEF vars, InTime, Governed, Making, Scheduled, Tells, Kept, Due, Plain

LEMMA NextInTime == MInv /\ InTime /\ [Next]_vars => InTime'
  <1> SUFFICES ASSUME MInv, InTime, [Next]_vars PROVE InTime'  OBVIOUS
  <1>1. ASSUME NEW r \in Socket, Go(r) PROVE InTime'
    BY <1>1, PauseStopInTime, RunInTime, NewJobInTime DEF Go
  <1> QED BY <1>1, RequestInTime, CronFiresInTime, TimeInTime, RestartInTime,
             StutterInTime DEF Next

LEMMA AlwaysInTime == Spec => [](MInv /\ InTime)
  <1>1. Init => InTime  BY DEF Init, InTime, Governed
  <1> QED BY <1>1, InitOK, NextOK, NextInTime, PTL DEF Spec

\* What a monitor is told, against what was planned.
LEMMA TellsThePlan ==
    ASSUME MInv, InTime, listed, Plain(bean.plan), ~overlap, ~unrun
    PROVE  /\ Settled => /\ Planned => UnderMaintenance
                         /\ UnderMaintenance => Planned \/ overlong
           /\ Planned /\ ~UnderMaintenance =>
                \/ \E r \in Socket : req[r].at \in {"run", "job"}
                \/ \E j \in jobs : now \in j.starts /\ j.after < now
  <1>1. bean \in Beans /\ now \in Nat
    BY MaintenanceAssumption DEF MInv, BeansOK, OthersOK
  <1>2. bean.plan.strategy \in {"manual", "single", "recurring"}
    BY <1>1 DEF Beans, Plan
  <1>3. CASE ~bean.active
    <2>1. Status = "inactive" /\ ~Planned  BY <1>3 DEF Status, Planned
    <2> QED BY <2>1 DEF UnderMaintenance
  <1>4. CASE bean.active /\ bean.plan.strategy = "manual"
    BY <1>4 DEF Status, Planned, UnderMaintenance
  <1>5. CASE bean.active /\ bean.plan.strategy = "single"
    BY <1>1, <1>5, PlanNumbers DEF Status, Planned, UnderMaintenance, InDates
  <1>6. CASE bean.active /\ bean.plan.strategy = "recurring"
    <2>1. Planned <=> InDates /\ InSlot  BY <1>6 DEF Planned
    <2>2. UnderMaintenance <=> InDates /\ status = "under-maintenance"
      BY <1>1, <1>6, PlanNumbers DEF Status, UnderMaintenance, InDates
    <2>3. CASE \E r \in Socket : req[r].at \in {"run", "job"}
      BY <2>3, IdleQuery DEF Settled
    <2>4. CASE ~\E r \in Socket : req[r].at \in {"run", "job"}
      <3>1. Governed /\ ~Making  BY <1>6, <2>4 DEF Governed, Making
      <3>2. PICK j \in jobs : Scheduled(j)  BY <1>6, <3>1 DEF InTime
      <3>3. Tells /\ Kept(j) /\ j.starts = bean.plan.starts  BY <3>2 DEF Scheduled
      <3>4. ASSUME InDates, InSlot
            PROVE \/ status = "under-maintenance"
                  \/ now \in j.starts /\ j.after < now
        <4>1. PICK s \in bean.plan.starts : s <= now /\ now < s + bean.plan.duration
          BY <3>4 DEF InSlot
        <4>2. Due(s)  BY <3>4, <4>1 DEF Due, InDates
        <4> QED BY <3>3, <4>2 DEF Kept
      <3>5. ASSUME Settled, status = "under-maintenance", ~overlong PROVE InSlot
        <4>1. PICK s \in bean.plan.starts : s <= now /\ timer <= s + bean.plan.duration
          BY <3>3, <3>5 DEF Tells
        <4>2. timer \in Nat /\ timer > now
          BY <3>3, <3>5, MaintenanceAssumption DEF Tells, Settled
        <4>3. now < s + bean.plan.duration  BY <1>1, <4>1, <4>2, PlanNumbers
        <4> QED BY <4>1, <4>3 DEF InSlot
      <3>6. Settled => ~(now \in j.starts /\ j.after < now)  BY DEF Settled
      <3> QED BY <2>1, <2>2, <3>4, <3>5, <3>6
    <2> QED BY <2>3, <2>4
  <1> QED BY <1>2, <1>3, <1>4, <1>5, <1>6

Explained ==
    listed /\ Plain(bean.plan) /\ ~overlap /\ ~unrun /\ Planned /\ ~UnderMaintenance =>
        \/ \E r \in Socket : req[r].at \in {"run", "job"}
        \/ \E j \in jobs : now \in j.starts /\ j.after < now

\* Whatever was edited, paused, resumed or restarted in whatever slot, monitors
\* are told of a maintenance at the times that the plan gives, and at no others
\* but for one more duration after a run in the last second of a slot
\* (maintenance.js 200-430, 324).  The plans are those whose slots do not overlap
\* and are short enough for a timeout; excused are the runs and pauses that were
\* overtaken, and the edits and resumes that failed before their run.
THEOREM ToldWhenPlanned == Spec => []StatusTruthful
  <1>1. MInv /\ InTime => StatusTruthful  BY TellsThePlan DEF StatusTruthful
  <1> QED BY <1>1, AlwaysInTime, PTL

\* A maintenance that is planned to go on is only left out of sight between the
\* halves of a run, or by the job of the slot that begins at this very tick
\* (maintenance.js 220-330 and 383-392).
THEOREM GapsExplained == Spec => GapsOnlyInRuns
  <1>1. MInv /\ InTime => Explained  BY TellsThePlan DEF Explained
  <1>2. ASSUME Explained' PROVE [UnderMaintenance /\ bean' # None /\ listed'
           /\ Plain(bean'.plan) /\ ~overlap' /\ ~unrun' /\ ~UnderMaintenance' /\ Planned'
           => \/ \E r \in Socket : req'[r].at \in {"run", "job"}
              \/ \E j \in jobs' : now' \in j.starts /\ j.after < now']_vars
    BY <1>2 DEF Explained, Plain
  <1> QED BY <1>1, <1>2, AlwaysInTime, PTL DEF GapsOnlyInRuns
=============================================================================
