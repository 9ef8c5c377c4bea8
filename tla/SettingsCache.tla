---- MODULE SettingsCache ----
(***************************************************************************)
(* server/settings.js: the table of settings and the object that caches    *)
(* it.  A get is two steps of the database apart from the step that fills  *)
(* the cache; a set, or a setSettings, empties the cache once its stores   *)
(* are done; a timer that the first get starts drops old entries.          *)
(*                                                                         *)
(* Time is counted in ticks, Minute of them to the sixty seconds of the    *)
(* code; entries and calls carry their age instead of a date.  The cleaner *)
(* is never stopped: stopCacheCleaner is part of the shutdown.             *)
(***************************************************************************)
EXTENDS Integers, FiniteSets

CONSTANTS
    Key,        \* names of settings
    Json,       \* values that JSON.parse accepts, null among them
    Raw,        \* the text of a row that it does not accept
    Null,       \* what a get of a setting without a row returns
    Getter,     \* calls of get that can be under way
    Setter,     \* calls of set and setSettings that can be under way
    Minute,     \* ticks in sixty seconds
    Latency,    \* the longest a query of a get takes, in ticks
    MaxSets,    \* bound on the calls of set and setSettings
    None        \* no row, no entry, no call

\* An entry of the cache: its age, and for how long the table has had another
\* value.  A get under way holds what it will become.
CacheEntry == [value : Json, age : Nat, gone : Int]

GetCall == [key : Key, asked : Key, value : Json \cup {Raw, None}, gone : Int,
            age : Nat]

\* A row to store, and a call of set or setSettings with its rows.
SettingType == {"general", "none"}

SettingBean == [key : Key, new : BOOLEAN, value : Json, type : SettingType]

SetCall == [many : BOOLEAN, data : UNION {[keys -> Json] : keys \in SUBSET Key},
            toFind : SUBSET Key, toStore : SUBSET SettingBean, failed : BOOLEAN]

\* None is none of the values it stands for the lack of.
ASSUME SettingsAssumption ==
    /\ Minute \in Nat \ {0} /\ Latency \in Nat /\ MaxSets \in Nat
    /\ Null \in Json /\ Raw \notin Json
    /\ None \notin Nat /\ None \notin CacheEntry /\ None \notin GetCall
    /\ None \notin SetCall

VARIABLES
    settingRow,    \* the table: [value, type], or None
    cacheList,     \* Settings.cacheList: [value, age, gone], or None
    cacheCleaner,  \* ticks to the next run of the cleaner, or None
    cleanerKey,    \* the call of get whose parameter the cleaner assigns
    gets,          \* calls of get
    sets,          \* calls of set and setSettings
    setsBegun,     \* how many of them began
    spoilt         \* keys whose entry outlived a store for a known reason

settingsVars ==
    <<settingRow, cacheList, cacheCleaner, cleanerKey, gets, sets,
      setsBegun, spoilt>>

\* The entry still has the value of the table.
StillStored == -1

SettingsInit ==
    /\ settingRow \in [Key -> {None, [value |-> Raw, type |-> "general"]}]
    /\ cacheList = [k \in Key |-> None]
    /\ cacheCleaner = None
    /\ cleanerKey = None
    /\ gets = [g \in Getter |-> None]
    /\ sets = [s \in Setter |-> None]
    /\ setsBegun = 0
    /\ spoilt = {}

---------------------------------------------------------------------------
\* What a query finds under a key.
CellOf(k) == IF settingRow[k] = None THEN Null ELSE settingRow[k].value

\* get starts the cleaner when none runs; it answers from the cache in the
\* same step, or asks the database.
GetBegin(g, k) ==
    /\ gets[g] = None
    /\ IF cacheCleaner = None
          THEN cacheCleaner' = Minute /\ cleanerKey' = g
          ELSE UNCHANGED <<cacheCleaner, cleanerKey>>
    /\ gets' = IF cacheList[k] # None THEN gets
               ELSE [gets EXCEPT ![g] = [key |-> k, asked |-> k, value |-> None,
                                         gone |-> StillStored, age |-> 0]]
    /\ UNCHANGED <<settingRow, cacheList, sets, spoilt, setsBegun>>

\* The database answers the query of a get.
GetRead(g) ==
    /\ gets[g] # None
    /\ gets[g].value = None
    /\ gets' = [gets EXCEPT ![g].value = CellOf(gets[g].asked)]
    /\ UNCHANGED <<settingRow, cacheList, cacheCleaner, cleanerKey, sets, spoilt, setsBegun>>

\* The rest of get: a value that is JSON goes to the cache under the key that
\* the parameter names by now, and the call ends.
GetFill(g) ==
    LET call == gets[g] IN
    /\ call # None
    /\ call.value # None
    /\ IF call.value \in Json
          THEN /\ cacheList' = [cacheList EXCEPT ![call.key] =
                     [value |-> call.value, age |-> 0, gone |-> call.gone]]
               /\ spoilt' = IF call.gone # StillStored THEN spoilt \cup {call.key}
                            ELSE spoilt \ {call.key}
          ELSE UNCHANGED <<cacheList, spoilt>>
    /\ gets' = [gets EXCEPT ![g] = None]
    /\ cleanerKey' = IF cleanerKey = g THEN None ELSE cleanerKey
    /\ UNCHANGED <<settingRow, cacheCleaner, sets, setsBegun>>

---------------------------------------------------------------------------
\* set names one key and gives it a type, by default none; setSettings, which
\* the server calls for the general settings, names several and leaves rows of
\* another type alone.
SetBegin(s, many, data) ==
    /\ sets[s] = None
    /\ setsBegun < MaxSets
    /\ setsBegun' = setsBegun + 1
    /\ many \/ Cardinality(DOMAIN data) = 1
    /\ sets' = [sets EXCEPT ![s] = [many |-> many, data |-> data,
                                    toFind |-> DOMAIN data, toStore |-> {},
                                    failed |-> FALSE]]
    /\ UNCHANGED <<settingRow, cacheList, cacheCleaner, cleanerKey, gets, spoilt>>

\* R.findOne of the next key, one after the other, and the bean it leaves to
\* store: setSettings does not wait for the store of one key to find the next.
SetFind(s, k) ==
    LET call == sets[s]
        row == settingRow[k]
        bean == [key |-> k, new |-> row = None, value |-> call.data[k],
                 type |-> IF call.many THEN "general" ELSE "none"]
        skipped == call.many /\ row # None /\ row.type # bean.type
    IN /\ call # None
       /\ k \in call.toFind
       /\ sets' = [sets EXCEPT
             ![s].toFind = @ \ {k},
             ![s].toStore = IF skipped THEN @ ELSE @ \cup {bean}]
       /\ UNCHANGED <<settingRow, cacheList, cacheCleaner, cleanerKey, gets, spoilt, setsBegun>>

\* The query of the next key fails: the call finds no more keys and throws, the
\* stores it has begun going on, and the cache is not touched.
SetFindFails(s) ==
    /\ sets[s] # None
    /\ sets[s].toFind # {}
    /\ sets' = [sets EXCEPT ![s].toFind = {}, ![s].failed = TRUE]
    /\ UNCHANGED <<settingRow, cacheList, cacheCleaner, cleanerKey, gets, spoilt, setsBegun>>

\* A copy of the value of a key, as old as it is: whether it is still stored.
Judged(copy, k, at, value) ==
    IF copy = None \/ at # k \/ copy.value = None THEN copy
    ELSE [copy EXCEPT !.gone = IF copy.value = value THEN StillStored
                               ELSE IF @ = StillStored THEN 0 ELSE @]

\* R.store of one bean: a second INSERT of a key fails on its unique index.
StoreDone(s, bean) ==
    /\ sets[s] # None
    /\ bean \in sets[s].toStore
    /\ bean.new => settingRow[bean.key] = None
    /\ settingRow' = [settingRow EXCEPT ![bean.key] =
                        [value |-> bean.value, type |-> bean.type]]
    /\ cacheList' = [k \in Key |-> Judged(cacheList[k], k, bean.key, bean.value)]
    /\ gets' = [g \in Getter |-> IF gets[g] = None THEN None ELSE
                  Judged(gets[g], gets[g].asked, bean.key, bean.value)]
    /\ sets' = [sets EXCEPT ![s].toStore = @ \ {bean}]
    /\ UNCHANGED <<cacheCleaner, cleanerKey, spoilt, setsBegun>>

\* The database refuses a store.  A set ends; Promise.all rejects, the
\* other stores of the call going on, and the cache is not touched.
StoreFails(s, bean) ==
    /\ sets[s] # None
    /\ bean \in sets[s].toStore
    /\ sets' = [sets EXCEPT ![s].toStore = @ \ {bean}, ![s].failed = TRUE]
    /\ UNCHANGED <<settingRow, cacheList, cacheCleaner, cleanerKey, gets, spoilt, setsBegun>>

\* Mutant: a deleteCache that forgets one key only.
DeleteCacheOne(keyList) ==
    \E one \in keyList :
        cacheList' = [k \in Key |-> IF k = one THEN None ELSE cacheList[k]]

\* deleteCache of the keys of the call.
DeleteCache(keyList) ==
    cacheList' = [k \in Key |-> IF k \in keyList THEN None ELSE cacheList[k]]

\* The call ends: it empties the cache unless one of its stores failed.
SetEnd(s) ==
    LET call == sets[s]
        keyList == DOMAIN call.data
    IN /\ call # None
       /\ call.toFind = {}
       /\ call.toStore = {}
       /\ IF call.failed
             THEN UNCHANGED cacheList /\ spoilt' = spoilt \cup keyList
             ELSE DeleteCache(keyList) /\ spoilt' = spoilt \ keyList
       /\ sets' = [sets EXCEPT ![s] = None]
       /\ UNCHANGED <<settingRow, cacheCleaner, cleanerKey, gets, setsBegun>>

---------------------------------------------------------------------------
\* Entries that the cleaner drops.
Expired(k) == cacheList[k] # None /\ cacheList[k].age > Minute

\* The timer of the cleaner.  Its loop assigns the parameter of the get that
\* started it: the last key it names stays there.
CleanerRuns ==
    LET keys == {k \in Key : cacheList[k] # None}
        held == cleanerKey # None /\ keys # {}
    IN /\ cacheCleaner = 0
       /\ cacheCleaner' = Minute
       /\ cacheList' = [k \in Key |-> IF Expired(k) THEN None ELSE cacheList[k]]
       /\ spoilt' = {k \in spoilt : ~ Expired(k)}
       /\ \E k \in IF held THEN keys ELSE Key :
             gets' = IF held THEN [gets EXCEPT ![cleanerKey].key = k] ELSE gets
       /\ UNCHANGED <<settingRow, cleanerKey, sets, setsBegun>>

\* One tick: the cleaner is never late and no query of a get takes longer
\* than Latency.
Older(copy) ==
    IF copy = None THEN None
    ELSE [copy EXCEPT !.age = @ + 1,
                      !.gone = IF @ = StillStored THEN @ ELSE @ + 1]

SettingsTick ==
    /\ cacheCleaner # 0
    /\ \A g \in Getter : gets[g] # None => gets[g].age < Latency
    /\ cacheCleaner # None
    /\ cacheCleaner' = cacheCleaner - 1
    /\ cacheList' = [k \in Key |-> Older(cacheList[k])]
    /\ gets' = [g \in Getter |-> Older(gets[g])]
    /\ UNCHANGED <<settingRow, cleanerKey, sets, spoilt, setsBegun>>

SettingsNext ==
    \/ \E g \in Getter : (\E k \in Key : GetBegin(g, k)) \/ GetRead(g) \/ GetFill(g)
    \/ \E s \in Setter, many \in BOOLEAN, keys \in SUBSET Key \ {{}} :
          \E data \in [keys -> Json] : SetBegin(s, many, data)
    \/ \E s \in Setter : \/ \E k \in Key : SetFind(s, k)
                         \/ sets[s] # None /\ \E bean \in sets[s].toStore :
                               StoreDone(s, bean) \/ StoreFails(s, bean)
                         \/ SetFindFails(s)
                         \/ SetEnd(s)
    \/ CleanerRuns
    \/ SettingsTick

SettingsSpec == SettingsInit /\ [][SettingsNext]_settingsVars

---------------------------------------------------------------------------
\* A value that the table no longer has is answered for two minutes and one
\* query at most; and it is there only because a set has stored and not yet
\* emptied the cache, a get read the table before the store it was overtaken
\* by, or a query or a store of setSettings failed after another of its stores
\* (settings.js 49-57, 81, 119-135).
StaleBriefly ==
    \A k \in Key : cacheList[k] # None =>
        LET gone == cacheList[k].gone IN
        gone # StillStored =>
            /\ gone <= 2 * Minute + Latency
            /\ \/ k \in spoilt
               \/ \E s \in Setter : sets[s] # None /\ k \in DOMAIN sets[s].data
====
