-------------------------- MODULE UptimeCalculator --------------------------
(***************************************************************************)
(* The statistics of one monitor (server/uptime-calculator.js): every beat *)
(* is counted in the bucket of its minute, of its hour and of its day,     *)
(* first in memory, in queues of limited length (server/utils), then in    *)
(* three tables, store after store.  The object that holds the queues is   *)
(* made and loaded by whoever asks for it first: a beat, a push call, a    *)
(* status page, a badge.                                                   *)
(*                                                                         *)
(* Time is in minutes; a bucket has the time at which it begins as its     *)
(* key.  An action is a query and what follows it up to the next await.    *)
(***************************************************************************)
EXTENDS Naturals, FiniteSets, Sequences, SequencesExt

CONSTANTS
    Width, Limit,  \* for minutes, hours and days: the minutes in a bucket, and
                   \* the length of the queue
    Object, None,  \* calculators there may be at once; no calculator
    User,          \* calls that may be under way at once
    Statuses,      \* what beats may say
    Starts,        \* what the tables may hold at first
    Start, End,    \* the first and the last minute
    MaxBeats,      \* bound on the beats
    MaxEvents      \* bound on restarts, clears, readers and failing queries

\* The levels: the first are the minutes, the last the days.
Day == Len(Width)
Level == 1 .. Day

Counts == [up : Nat, down : Nat, maintenance : Nat]
Zero == [up |-> 0, down |-> 0, maintenance |-> 0]

Key(l, t) == t - (t % Width[l])

ASSUME UptimeAssumption ==
    /\ Width \in Seq(Nat \ {0}) /\ Limit \in Seq(Nat \ {0})
    /\ Len(Width) = Len(Limit) /\ Len(Width) >= 2
    /\ None \notin Object \cup Counts
    /\ Statuses \subseteq {"up", "down", "pending", "maintenance"}
    /\ Start \in Nat /\ End \in Nat
    /\ \A l \in Level : Width[l] * Limit[l] <= Start
    /\ \A tables \in Starts :
          /\ tables = [l \in Level |-> tables[l]]
          /\ \A l \in Level :
                /\ DOMAIN tables[l] \subseteq {Key(l, t) : t \in 0 .. Start}
                /\ tables[l] \in [DOMAIN tables[l] -> Counts]
    /\ MaxBeats \in Nat /\ MaxEvents \in Nat

VARIABLES
    now,
    rows,      \* the tables: for each level, the counts of the stored buckets
    calc,      \* the calculators
    listed,    \* the one in UptimeCalculator.list
    user,      \* the calls under way
    told, events,
    \* Kept for the properties:
    beats,     \* for each level, the beats of each bucket since the last clear
    hurt,      \* something was lost on the way to the tables
    mixed      \* a call was under way during a clear

vars == <<now, rows, calc, listed, user, told, events, beats, hurt, mixed>>
-----------------------------------------------------------------------------
(* Buckets and queues                                                      *)

AtMost(c, d) == \A f \in DOMAIN c : c[f] <= d[f]

\* What is kept: 24 hours of minutes, 30 days of hours, 365 days.
KeepFrom(l, t) == Key(l, t - Width[l] * Limit[l])

Nowhere == [k \in {} |-> Zero]

With(f, k, v) == [x \in DOMAIN f \cup {k} |-> IF x = k THEN v ELSE f[x]]

Only(f, S) == [x \in S |-> f[x]]

\* push: over the limit, the first key is shifted out, with its bucket.
Push(q, limit, k, v) ==
    LET keys == Append(q.keys, k)
        data == With(q.data, k, v)
    IN  IF Len(keys) <= limit THEN [q EXCEPT !.keys = keys, !.data = data]
        ELSE [q EXCEPT !.keys = Tail(keys),
                       !.data = Only(data, DOMAIN data \ {Head(keys)})]

\* getMinutelyKey, getHourlyKey and getDailyKey make an empty bucket if there
\* is none.
Touch(q, l, t) ==
    IF Key(l, t) \in DOMAIN q.data THEN q ELSE Push(q, Limit[l], Key(l, t), Zero)

Touched(c, t) == [l \in Level |-> Touch(c[l], l, t)]

NoBean == [key |-> 0, saved |-> FALSE, by |-> None]

EmptyQueue == [keys |-> <<>>, data |-> Nowhere, last |-> Zero, bean |-> NoBean]
Empty == [l \in Level |-> EmptyQueue]

\* Mutant: pending is up.
FlatUp(s) == IF s = "pending" THEN "up" ELSE s

\* flatStatus: pending is down.  A beat under maintenance is neither.
Flat(s) == IF s = "pending" THEN "down" ELSE s

CountedOne(q, l, s, t) ==
    LET r == Touch(q, l, t)
        c == [r.data[Key(l, t)] EXCEPT ![Flat(s)] = @ + 1]
    IN  [r EXCEPT !.data[Key(l, t)] = c, !.last = c]

\* update throws at the first level whose bucket was shifted out as soon as it
\* was made: the levels before it have counted.
Broken(c, t) == {l \in Level : Key(l, t) \notin DOMAIN Touched(c, t)[l].data}

Counted(c, s, t) ==
    [l \in Level |->
        IF Broken(c, t) = {} THEN CountedOne(c[l], l, s, t)
        ELSE IF \E m \in Broken(c, t) : m <= l THEN Touched(c, t)[l]
        ELSE [CountedOne(c[l], l, s, t) EXCEPT !.last = c[l].last]]

\* Mutant: a loaded row is added to what was counted meanwhile.
LoadedAdding(q, limit, k, row) ==
    LET c == IF k \in DOMAIN q.data THEN q.data[k] ELSE Zero
    IN  Push(q, limit, k, [f \in DOMAIN row |-> c[f] + row[f]])

Loaded(q, limit, k, row) == Push(q, limit, k, row)

\* The rows of a level that init finds, in the order of their keys.
Found(l, t) == {k \in DOMAIN rows[l] : k > KeepFrom(l, t)}

LoadedAll(q, l, t) ==
    LET upTo[k \in 0 .. now] ==
            IF k = 0 THEN q
            ELSE IF k \in Found(l, t) THEN Loaded(upTo[k - 1], Limit[l], k, rows[l][k])
            ELSE upTo[k - 1]
    IN  upTo[now]

\* getData: what num buckets hold together; if that is nothing, what the last
\* one held.
Total(f, keys) ==
    FoldSet(LAMBDA k, c : [up |-> c.up + f[k].up, down |-> c.down + f[k].down],
            [up |-> 0, down |-> 0], keys \cap DOMAIN f)

Window(l, num) == {Key(l, now) - i * Width[l] : i \in 0 .. num - 1}

\* Mutant: the oldest bucket is left out.
GetDataShort(q, l, num) ==
    LET total == Total(q.data, Window(l, num - 1))
    IN  IF total.up + total.down # 0 THEN total
        ELSE [up |-> q.last.up, down |-> q.last.down]

GetData(q, l, num) ==
    LET total == Total(q.data, Window(l, num))
    IN  IF total.up + total.down # 0 THEN total
        ELSE [up |-> q.last.up, down |-> q.last.down]
-----------------------------------------------------------------------------
(* Calls                                                                   *)

NotFrozen == [l \in Level |-> None]

Rest == [op |-> "none", at |-> "none", obj |-> None, status |-> "up", t |-> 0,
         level |-> 1, frozen |-> NotFrozen, bean |-> None,
         insert |-> FALSE, write |-> Zero, date |-> 0]

Resting == \A u \in User : user[u] = Rest

Others(u) == {v \in User \ {u} : user[v] # Rest}

Unused == Object \ ({listed} \cup {user[u].obj : u \in User})

Done(u) == user' = [user EXCEPT ![u] = Rest]

\* The levels whose bucket a call has still in hand.
InHand(q) == {l \in Level : (q.at = "bean" /\ l <= q.level)
                           \/ (q.at = "store" /\ l < q.level)}

\* The calls, when the calculator o becomes c: a bucket that is pushed out of
\* the way, by others or by loaded rows, stays with the calls that have it.
Keeping(o, c, over) ==
    [v \in User |->
        LET q == user[v] IN
        IF q.obj # o THEN q
        ELSE [q EXCEPT !.frozen = [l \in Level |->
                LET k == Key(l, q.t) IN
                IF /\ l \in InHand(q) /\ @[l] = None
                   /\ k \in over[l] \/ k \notin DOMAIN c[l].data
                THEN calc[o][l].data[k] ELSE @[l]]]]

NoKeys == [l \in Level |-> {}]

Loading(o) == \E u \in User : user[u].obj = o /\ user[u].at = "load"

\* The calculator o is there for the call q of u: a beat is counted, in
\* all three queues, and its stores begin; a reader sums up and is done.
Use(u, o, q) ==
    IF q.op = "read"
    THEN LET c == Touched(calc[o], now) IN
         /\ calc' = [calc EXCEPT ![o] = c]
         /\ user' = [Keeping(o, c, NoKeys) EXCEPT ![u] = Rest]
         /\ UNCHANGED <<beats, hurt>>
    ELSE LET c == Counted(calc[o], q.status, now) IN
         /\ calc' = [calc EXCEPT ![o] = c]
         /\ user' = [Keeping(o, c, NoKeys) EXCEPT ![u] =
                IF Broken(calc[o], now) # {} THEN Rest
                ELSE [q EXCEPT !.at = "bean", !.obj = o, !.t = now, !.level = Day]]
         /\ hurt' = (hurt \/ Loading(o) \/ Broken(calc[o], now) # {})
         /\ beats' = [l \in Level |->
                LET k == Key(l, now)
                    old == IF k \in DOMAIN beats[l] THEN beats[l][k] ELSE Zero
                    f == IF q.status = "pending" THEN "down" ELSE q.status
                IN  With(beats[l], k, [old EXCEPT ![f] = @ + 1])]

\* getUptimeCalculator: the first to ask makes the calculator, lists it, and
\* then loads it; the next finds it in the list, loaded or not.
Begin(u) ==
    \E op \in {"update", "read"}, s \in Statuses :
        /\ user[u] = Rest
        /\ IF op = "update" THEN told < MaxBeats /\ told' = told + 1 /\ UNCHANGED events
           ELSE events < MaxEvents /\ events' = events + 1 /\ UNCHANGED told
        /\ LET q == [Rest EXCEPT !.op = op, !.t = now,
                                 !.status = IF op = "read" THEN @ ELSE s] IN
           IF listed # None THEN Use(u, listed, q) /\ UNCHANGED listed
           ELSE \E o \in Unused :
                  /\ listed' = o
                  /\ calc' = [calc EXCEPT ![o] =
                        [Empty EXCEPT ![1] = Touch(@, 1, now - Width[1] * Limit[1])]]
                  /\ user' = [user EXCEPT ![u] = [q EXCEPT !.at = "load", !.obj = o]]
                  /\ UNCHANGED <<beats, hurt>>
        /\ mixed' = (mixed \/ \E v \in User : user[v].op = "clear")
        /\ UNCHANGED <<now, rows>>

\* init loads level after level; the key of the oldest row is asked for before.
LoadLevel(u) ==
    LET q == user[u]
        o == q.obj
        l == q.level
        n == l + 1
        c == [calc[o] EXCEPT ![l] = LoadedAll(@, l, q.t)]
        d == IF l = Day THEN c
             ELSE [c EXCEPT ![n] = Touch(@, n, q.t - Width[n] * Limit[n])]
    IN
    /\ q.at = "load"
    /\ calc' = [calc EXCEPT ![o] = d]
    /\ user' = [Keeping(o, d, [NoKeys EXCEPT ![l] = Found(l, q.t)]) EXCEPT ![u] =
                  IF l = Day THEN [q EXCEPT !.at = "loaded", !.level = 1]
                  ELSE [q EXCEPT !.level = n]]
    /\ hurt' = (hurt \/ DOMAIN calc[o][l].data # {KeepFrom(l, q.t)})
    /\ UNCHANGED <<now, rows, listed, told, events, beats, mixed>>

\* What is listed after init is what is used, if anything still is.
AfterInit(u) ==
    /\ user[u].at = "loaded"
    /\ IF listed = None THEN Done(u) /\ UNCHANGED <<calc, beats, hurt>>
       ELSE Use(u, listed, user[u])
    /\ UNCHANGED <<now, rows, listed, told, events, mixed>>

\* getDailyStatBean and its like: the bean of the same bucket is kept, else
\* the row is looked for.  Then it takes the counts.
Bean(u) ==
    LET q == user[u]
        l == q.level
        k == Key(l, q.t)
        b == IF calc[q.obj][l].bean.key = k THEN calc[q.obj][l].bean
             ELSE [key |-> k, saved |-> k \in DOMAIN rows[l], by |-> u]
    IN
    /\ q.at = "bean"
    /\ calc' = [calc EXCEPT ![q.obj][l].bean = b]
    /\ user' = [user EXCEPT ![u] = [q EXCEPT
                  !.at = "store", !.bean = b.by, !.insert = ~b.saved,
                  !.write = IF q.frozen[l] # None THEN q.frozen[l]
                            ELSE calc[q.obj][l].data[k]]]
    /\ UNCHANGED <<now, rows, listed, told, events, beats, hurt, mixed>>

\* Days are stored first, minutes last; then old rows are deleted, those of
\* the minutes first.
Stored(u) ==
    LET q == user[u] IN
    user' = [user EXCEPT ![u] = [q EXCEPT
               !.at = IF q.level = 1 THEN "prune" ELSE "bean",
               !.level = IF q.level = 1 THEN 1 ELSE q.level - 1,
               !.bean = None, !.insert = FALSE, !.write = Zero,
               !.frozen[q.level] = None,
               !.date = IF q.level = Day THEN now ELSE q.date]]

\* A new row is inserted, and refused if another has inserted it meanwhile;
\* a row that was found is updated, if it is still there.
StoreRow(u) ==
    LET q == user[u]
        l == q.level
        k == Key(l, q.t)
        b == calc[q.obj][l].bean
        there == k \in DOMAIN rows[l]
    IN
    /\ q.at = "store"
    /\ \/ /\ q.insert /\ there
          /\ Done(u) /\ hurt' = TRUE /\ UNCHANGED <<rows, calc>>
       \/ /\ q.insert /\ ~there
          /\ rows' = [rows EXCEPT ![l] = With(@, k, q.write)]
          /\ calc' = IF b.key = k /\ b.by = q.bean
                     THEN [calc EXCEPT ![q.obj][l].bean.saved = TRUE] ELSE calc
          /\ Stored(u) /\ UNCHANGED hurt
       \/ /\ ~q.insert
          /\ rows' = IF there THEN [rows EXCEPT ![l][k] = q.write] ELSE rows
          /\ hurt' = (hurt \/ (there /\ ~AtMost(rows[l][k], q.write)))
          /\ Stored(u) /\ UNCHANGED calc
    /\ UNCHANGED <<now, listed, told, events, beats, mixed>>

\* Rows that are too old are deleted; to name them, their bucket is asked for.
Prune(u) ==
    LET q == user[u]
        l == q.level
        c == [calc[q.obj] EXCEPT ![l] = Touch(@, l, q.date - Width[l] * Limit[l])]
    IN
    /\ q.at = "prune"
    /\ calc' = [calc EXCEPT ![q.obj] = c]
    /\ rows' = [rows EXCEPT ![l] =
                  Only(@, {k \in DOMAIN @ : k >= KeepFrom(l, q.date)})]
    /\ user' = [Keeping(q.obj, c, NoKeys) EXCEPT ![u] = IF l = Day - 1 THEN Rest ELSE [q EXCEPT !.level = l + 1]]
    /\ UNCHANGED <<now, listed, told, events, beats, hurt, mixed>>

\* clearStatistics: table by table, then the calculator is taken off the list.
BeginClear(u) ==
    /\ user[u] = Rest /\ events < MaxEvents
    /\ events' = events + 1
    /\ user' = [user EXCEPT ![u] = [Rest EXCEPT !.op = "clear", !.at = "clear"]]
    /\ mixed' = (mixed \/ Others(u) # {})
    /\ UNCHANGED <<now, rows, calc, listed, told, beats, hurt>>

ClearTable(u) ==
    LET l == user[u].level IN
    /\ user[u].at = "clear"
    /\ rows' = [rows EXCEPT ![l] = Nowhere]
    /\ IF l = Day THEN /\ listed' = None /\ Done(u)
                         /\ beats' = [m \in Level |-> Nowhere]
                         /\ calc' = [o \in Object |->
                                IF \E v \in User : user[v].obj = o THEN calc[o] ELSE Empty]
       ELSE /\ user' = [user EXCEPT ![u].level = l + 1]
            /\ UNCHANGED <<calc, listed, beats>>
    /\ UNCHANGED <<now, told, events, hurt, mixed>>

\* A query fails, and with it the call.
Fail(u) ==
    /\ user[u].at \notin {"none", "loaded"} /\ events < MaxEvents
    /\ events' = events + 1
    /\ Done(u) /\ hurt' = TRUE
    /\ UNCHANGED <<now, rows, calc, listed, told, beats, mixed>>

Restart ==
    /\ events < MaxEvents /\ events' = events + 1
    /\ listed' = None
    /\ calc' = [o \in Object |-> Empty]
    /\ user' = [u \in User |-> Rest]
    /\ hurt' = (hurt \/ \E u \in User : user[u].op \in {"update", "clear"})
    /\ UNCHANGED <<now, rows, told, beats, mixed>>

\* A call is answered within two minutes.
Tick ==
    /\ now < End /\ \A u \in User : user[u] # Rest /\ user[u].op # "clear" => user[u].t = now
    /\ now' = now + 1
    /\ UNCHANGED <<rows, calc, listed, user, told, events, beats, hurt, mixed>>
-----------------------------------------------------------------------------
Init ==
    /\ now = Start
    /\ rows \in Starts
    /\ calc = [o \in Object |-> Empty]
    /\ listed = None
    /\ user = [u \in User |-> Rest]
    /\ told = 0 /\ events = 0
    /\ beats = rows
    /\ hurt = FALSE /\ mixed = FALSE

Next ==
    \/ \E u \in User : \/ Begin(u) \/ LoadLevel(u) \/ AfterInit(u) \/ Bean(u)
                       \/ StoreRow(u) \/ Prune(u) \/ BeginClear(u) \/ ClearTable(u)
                       \/ Fail(u)
    \/ Restart \/ Tick

Spec == Init /\ [][Next]_vars
-----------------------------------------------------------------------------
(* Properties                                                              *)

\* Once the calls are answered, the three tables hold every beat since the
\* last clear, for as long as each of them keeps its rows - so the day is the
\* sum of its hours, and the hour of its minutes - unless a call counted while
\* the calculator was loading, a store was refused or failed or overtaken, the
\* server stopped during a call, or a call was under way during a clear.
TablesExact ==
    Resting /\ ~hurt /\ ~mixed =>
        \A l \in Level :
            /\ DOMAIN rows[l] \subseteq DOMAIN beats[l]
            /\ \A k \in DOMAIN beats[l] :
                  k >= KeepFrom(l, now) =>
                      k \in DOMAIN rows[l] /\ rows[l][k] = beats[l][k]

\* Whatever fails, is lost or overtaken: no row ever says more than there was,
\* unless a call that was under way during a clear brings back the old counts.
NeverMore ==
    ~mixed => \A l \in Level : \A k \in DOMAIN rows[l] :
                  k \in DOMAIN beats[l] /\ AtMost(rows[l][k], beats[l][k])

\* The window that is sure to be in memory: less than half of what the queues of
\* minutes and hours could hold, for the key of the oldest bucket, made again to
\* delete older rows, takes every other place, and a deletion that comes a minute
\* late one more.
Sure(l) == IF l = Day THEN Limit[l] ELSE (Limit[l] - 1) \div 2

Tells(l, num) ==
    LET total == Total(beats[l], Window(l, num)) IN
    total.up + total.down # 0 => GetData(calc[listed][l], l, num) = total

\* The queues keep to their lengths, and hold counts only of what is in them;
\* and what getData says of that window is what happened in it, whether counted
\* since the start or loaded from the tables.
WindowCounted ==
    /\ \A o \in Object, l \in Level :
          /\ Len(calc[o][l].keys) <= Limit[l]
          /\ DOMAIN calc[o][l].data \subseteq ToSet(calc[o][l].keys)
    /\ listed # None /\ ~Loading(listed) /\ ~hurt /\ ~mixed =>
        \A l \in Level : \A num \in 1 .. Sure(l) : Tells(l, num)

=============================================================================
