---- MODULE HeartbeatFeed ----
(***************************************************************************)
(* What a browser shows of the beats of one monitor.  A beat of the loop   *)
(* is sent to the user's room and then stored (server/model/monitor.js), a *)
(* pushed one is stored and then sent (server/routers/api-router.js).  A   *)
(* login joins the room, and much later reads the newest rows and sends    *)
(* them (server/server.js, server/client.js); a clear deletes the rows and *)
(* sends the room what there is then.  The browser puts a list before the  *)
(* beats it has, or in their place (src/mixins/socket.js).                 *)
(*                                                                         *)
(* A beat is the number of its time.  The connection keeps the order; what *)
(* is on its way when it breaks is lost.                                   *)
(***************************************************************************)
EXTENDS Integers, Sequences, FiniteSets, SequencesExt

CONSTANTS
    ReadLimit,   \* how many rows sendHeartbeatList reads
    Cap,         \* the length at which the browser drops its oldest beat
    MaxBeats,    \* bound on the beats
    MaxTrouble,  \* bound on clears, refused stores and broken connections
    Unsent       \* no list

ASSUME FeedAssumption ==
    /\ ReadLimit \in Nat \ {0} /\ Cap \in Nat /\ ReadLimit < Cap
    /\ MaxBeats \in Nat /\ MaxTrouble \in Nat
    /\ Unsent \notin Seq(1 .. MaxBeats)

VARIABLES
    beatAt,      \* where each beat is
    heartbeats,  \* the table
    inRoom,      \* the socket has joined the room of its user
    login,       \* afterLogin: [at, rows]
    clear,       \* clearHeartbeats: [at, rows]
    wire,        \* events on their way to the browser
    heartbeatList,  \* the browser's, or Unsent
    trouble,
    \* Kept for the property, since the connection began:
    overtaken,   \* a list was sent that misses a beat or tells of a deleted one,
                 \* or beats were dropped before the list of the login came
    crossed      \* a beat was sent after a later one

feedVars == <<beatAt, heartbeats, inRoom, login, clear, wire, heartbeatList,
              trouble, overtaken, crossed>>

Beat == 1 .. MaxBeats

Calm == [at |-> "none", rows |-> <<>>]

\* At first the table holds one beat, and nobody is connected.
FeedInit ==
    /\ beatAt = [b \in Beat |-> IF b = 1 THEN "done" ELSE "none"]
    /\ heartbeats = {1} \cap Beat
    /\ inRoom = FALSE
    /\ login = Calm
    /\ clear = Calm
    /\ wire = <<>>
    /\ heartbeatList = Unsent
    /\ trouble = 0
    /\ overtaken = FALSE
    /\ crossed = FALSE

Troubled == trouble < MaxTrouble /\ trouble' = trouble + 1

\* ORDER BY time DESC LIMIT, reversed.
Newest(table) ==
    LET rows == {b \in table : Cardinality({c \in table : c > b}) < ReadLimit}
    IN  [i \in 1 .. Cardinality(rows) |->
            CHOOSE b \in rows : Cardinality({c \in rows : c <= b}) = i]

\* What has been sent and not been stored yet.
Pending == {b \in Beat : beatAt[b] = "sent"}

\* io.to(user).emit.
Emit(event) == wire' = IF inRoom THEN Append(wire, event) ELSE wire

BeatEvent(b) == [ev |-> "beat", rows |-> <<b>>]
ListEvent(rows, overwrite) == [ev |-> IF overwrite THEN "overwrite" ELSE "list", rows |-> rows]

---------------------------------------------------------------------------
\* A beat gets its time, in the loop or in the push handler.  Two can be under
\* way: of an old object and a new one, or of the loop and a push.
MakeBeat(b, how) ==
    /\ beatAt[b] = "none" /\ \A c \in Beat : c < b => beatAt[c] # "none"
    /\ Cardinality({c \in Beat : beatAt[c] \in {"loop", "push", "sent", "kept"}}) < 2
    /\ beatAt' = [beatAt EXCEPT ![b] = how]
    /\ UNCHANGED <<heartbeats, inRoom, login, clear, wire, heartbeatList,
                   trouble, overtaken, crossed>>

\* The heartbeat event, before the store in the loop and after it in the push
\* handler.
SendBeat(b) ==
    /\ beatAt[b] \in {"loop", "kept"}
    /\ Emit(BeatEvent(b))
    /\ beatAt' = [beatAt EXCEPT ![b] = IF @ = "loop" THEN "sent" ELSE "done"]
    /\ crossed' = (crossed \/ \E c \in Beat : c > b /\ beatAt[c] \in {"sent", "done"})
    /\ overtaken' = (overtaken \/ (beatAt[b] = "kept" /\ b \notin heartbeats))
    /\ UNCHANGED <<heartbeats, inRoom, login, clear, heartbeatList, trouble>>

StoreBeat(b) ==
    /\ beatAt[b] \in {"sent", "push"}
    /\ heartbeats' = heartbeats \cup {b}
    /\ beatAt' = [beatAt EXCEPT ![b] = IF @ = "push" THEN "kept" ELSE "done"]
    /\ UNCHANGED <<inRoom, login, clear, wire, heartbeatList, trouble, overtaken, crossed>>

\* R.store throws: safeBeat goes on to the next beat, the push handler answers
\* with an error.
StoreRefused(b) ==
    /\ beatAt[b] \in {"sent", "push"} /\ Troubled
    /\ beatAt' = [beatAt EXCEPT ![b] = "failed"]
    /\ UNCHANGED <<heartbeats, inRoom, login, clear, wire, heartbeatList,
                   overtaken, crossed>>

---------------------------------------------------------------------------
\* The browser connects and logs in; one that was connected before forgets its
\* beats.  afterLogin joins the room before anything else.
Join ==
    /\ ~inRoom
    /\ inRoom' = TRUE
    /\ heartbeatList' = Unsent
    /\ login' = [Calm EXCEPT !.at = "joined"]
    /\ overtaken' = FALSE /\ crossed' = FALSE
    /\ UNCHANGED <<beatAt, heartbeats, clear, wire, trouble>>

\* sendHeartbeatList of a login: what was sent before the socket was in the
\* room and is stored after this query is never seen.
ReadForLogin ==
    /\ login.at = "joined"
    /\ login' = [at |-> "read", rows |-> Newest(heartbeats)]
    /\ overtaken' = (overtaken \/ \E b \in Pending :
          /\ heartbeatList = Unsent \/ b \notin ToSet(heartbeatList)
          /\ \A i \in DOMAIN wire : wire[i] # BeatEvent(b))
    /\ UNCHANGED <<beatAt, heartbeats, inRoom, clear, wire, heartbeatList,
                   trouble, crossed>>

SendLoginList ==
    /\ login.at = "read"
    /\ login' = Calm
    /\ Emit(ListEvent(login.rows, FALSE))
    /\ overtaken' = (overtaken \/ ~ ToSet(login.rows) \subseteq heartbeats)
    /\ UNCHANGED <<beatAt, heartbeats, inRoom, clear, heartbeatList, trouble, crossed>>

\* The connection breaks; what is shown stays until the next.
Disconnected ==
    /\ inRoom /\ Troubled
    /\ inRoom' = FALSE
    /\ wire' = <<>>
    /\ login' = Calm
    /\ UNCHANGED <<beatAt, heartbeats, clear, heartbeatList, overtaken, crossed>>

---------------------------------------------------------------------------
\* clearHeartbeats, asked for by some browser of the user: the rows are
\* deleted; the monitor is restarted; the list is read, and sent to all.
BeginClear ==
    /\ clear.at = "none" /\ Troubled
    /\ heartbeats' = {}
    /\ clear' = [Calm EXCEPT !.at = "deleted"]
    /\ UNCHANGED <<beatAt, inRoom, login, wire, heartbeatList, overtaken, crossed>>

ReadForClear ==
    /\ clear.at = "deleted"
    /\ clear' = [at |-> "read", rows |-> Newest(heartbeats)]
    /\ UNCHANGED <<beatAt, heartbeats, inRoom, login, wire, heartbeatList,
                   trouble, overtaken, crossed>>

\* What was sent before and is not in the list is gone from the browser.
SendClearList ==
    /\ clear.at = "read"
    /\ clear' = Calm
    /\ Emit(ListEvent(clear.rows, TRUE))
    /\ overtaken' = IF ~inRoom THEN overtaken
                    ELSE \E b \in (heartbeats \cup Pending) \ ToSet(clear.rows) :
                            beatAt[b] # "kept"
    /\ UNCHANGED <<beatAt, heartbeats, inRoom, login, heartbeatList, trouble, crossed>>

---------------------------------------------------------------------------
\* Mutant: a list always takes the place of what is there.
OnHeartbeatListReplacing(rows, overwrite) == heartbeatList' = rows

OnHeartbeatList(rows, overwrite) ==
    heartbeatList' = IF heartbeatList = Unsent \/ overwrite THEN rows
                     ELSE rows \o heartbeatList

ListToCome == login # Calm \/ \E i \in DOMAIN wire : wire[i].ev = "list"

OnHeartbeat(b) ==
    LET list == Append(IF heartbeatList = Unsent THEN <<>> ELSE heartbeatList, b)
        full == Len(list) >= Cap
    IN  /\ heartbeatList' = IF full THEN Tail(list) ELSE list
        /\ overtaken' = (overtaken \/ (full /\ ListToCome))

\* The browser takes the next event.
Receive ==
    /\ wire # <<>>
    /\ LET event == Head(wire) IN
          IF event.ev = "beat" THEN OnHeartbeat(event.rows[1])
          ELSE /\ OnHeartbeatList(event.rows, event.ev = "overwrite")
               /\ UNCHANGED overtaken
    /\ wire' = Tail(wire)
    /\ UNCHANGED <<beatAt, heartbeats, inRoom, login, clear, trouble, crossed>>

FeedNext ==
    \/ \E b \in Beat : \/ \E how \in {"loop", "push"} : MakeBeat(b, how)
                       \/ SendBeat(b) \/ StoreBeat(b) \/ StoreRefused(b)
    \/ Join \/ ReadForLogin \/ SendLoginList \/ Disconnected
    \/ BeginClear \/ ReadForClear \/ SendClearList
    \/ Receive

FeedSpec == FeedInit /\ [][FeedNext]_feedVars

---------------------------------------------------------------------------
FeedRests == /\ login = Calm /\ clear = Calm /\ wire = <<>>
             /\ \A b \in Beat : beatAt[b] \in {"none", "done", "failed"}

\* From the first beat that a browser shows to the last, none that is stored is
\* missing, besides them are only those that could not be stored, and the last
\* is the newest, so that the status shown is the monitor's - whatever was sent
\* between the join and the list of a login, and whatever was cleared; up to a
\* list that was overtaken between its query and its emission, or by as many
\* beats as a browser keeps, or a beat by a later one.  And the list has a
\* bound (server/client.js, sendHeartbeatList; src/mixins/socket.js).
FeedTruthful ==
    /\ heartbeatList # Unsent => Len(heartbeatList) < ReadLimit + Cap
    /\ FeedRests /\ inRoom /\ ~overtaken =>
          LET shown == ToSet(heartbeatList)
              last  == heartbeatList[Len(heartbeatList)]
              Since(b) == \E first \in shown : first <= b
          IN  /\ \A b \in shown \ heartbeats : beatAt[b] = "failed"
              /\ ~crossed /\ heartbeats # {} =>
                    /\ {b \in heartbeats : Since(b)} \subseteq shown
                    /\ beatAt[last] = "failed" \/ \A b \in heartbeats : b <= last
====
