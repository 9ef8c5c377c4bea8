---- MODULE GeoCache ----
(***************************************************************************)
(* server/lib/geo: the two tiers that remember where a target is, and the  *)
(* resolveTargetGeo that every successful beat starts and nobody waits     *)
(* for.  The data of an answer is the date the provider gave it.  Time is  *)
(* counted in ticks of about a day; a call ends within the tick it began   *)
(* in or the next.                                                         *)
(***************************************************************************)
EXTENDS Integers, Sequences

CONSTANTS
    Probed,      \* monitors
    Ip,          \* addresses a name resolves to
    Resolver,    \* calls of resolveTargetGeo that can be under way
    MemoryMax,   \* MEMORY_CACHE_MAX
    StaleTtl,    \* STALE_TTL_MS in ticks
    MaxAge,      \* the age at which cleanup deletes a row
    Zone,        \* how much later a date of the table reads as local time
    Horizon,     \* last tick
    Absent       \* no row, no entry, no call

ASSUME GeoAssumption ==
    /\ MemoryMax \in Nat \ {0}
    /\ StaleTtl \in Nat \ {0} /\ MaxAge \in Nat /\ Zone \in Nat /\ Horizon \in Nat

VARIABLES
    memoryCache,  \* the Map, oldest first: sequence of [key, data, lastUpdated]
    targetGeo,    \* the table: per key [data, lastUpdated], or Absent
    geoNow,       \* ticks since the start
    resolvers,    \* calls of resolveTargetGeo
    geoMetric     \* per monitor, the last metric: [data, at, fallback]

geoVars == <<memoryCache, targetGeo, geoNow, resolvers, geoMetric>>

GeoKey == Probed \X Ip

GeoInit ==
    /\ memoryCache = <<>>
    /\ targetGeo = [k \in GeoKey |-> Absent]
    /\ geoNow = 0
    /\ resolvers = [r \in Resolver |-> Absent]
    /\ geoMetric = [m \in Probed |-> Absent]

---------------------------------------------------------------------------
InMemory(k) == \E i \in DOMAIN memoryCache : memoryCache[i].key = k
EntryOf(k) == memoryCache[CHOOSE i \in DOMAIN memoryCache : memoryCache[i].key = k]

\* Mutant: a row is taken for new, promoted data gets the date of its reading.
SetMemoryNow(k, data, lastUpdated) ==
    LET entry == [key |-> k, data |-> data, lastUpdated |-> geoNow]
        room == IF Len(memoryCache) >= MemoryMax THEN Tail(memoryCache) ELSE memoryCache
    IN memoryCache' = IF InMemory(k)
          THEN [i \in DOMAIN memoryCache |->
                  IF memoryCache[i].key = k THEN entry ELSE memoryCache[i]]
          ELSE Append(room, entry)

\* setMemory: a key keeps its place in the Map, a new one evicts the oldest.
SetMemory(k, data, lastUpdated) ==
    LET entry == [key |-> k, data |-> data, lastUpdated |-> lastUpdated]
        room == IF Len(memoryCache) >= MemoryMax THEN Tail(memoryCache) ELSE memoryCache
    IN memoryCache' = IF InMemory(k)
          THEN [i \in DOMAIN memoryCache |->
                  IF memoryCache[i].key = k THEN entry ELSE memoryCache[i]]
          ELSE Append(room, entry)

IsStale(lastUpdated) == geoNow - lastUpdated > StaleTtl

\* updateGeoMetric.
UpdateGeoMetric(k, data, fallback) ==
    geoMetric' = [geoMetric EXCEPT ![k[1]] =
                    [data |-> data, at |-> geoNow, fallback |-> fallback]]

Ends(r) == resolvers' = [resolvers EXCEPT ![r] = Absent]

---------------------------------------------------------------------------
\* A beat went well, the name resolved to an address: the memory answers, or
\* with what it has the call goes on to the provider, or to the table.
ResolveTargetGeo(r, k) ==
    LET entry == EntryOf(k)
        call == [key |-> k, step |-> "table", began |-> geoNow, cached |-> Absent,
                 found |-> Absent]
    IN /\ resolvers[r] = Absent
       /\ IF InMemory(k) /\ ~ IsStale(entry.lastUpdated)
             THEN UpdateGeoMetric(k, entry.data, FALSE) /\ UNCHANGED resolvers
             ELSE /\ resolvers' = [resolvers EXCEPT ![r] =
                        IF InMemory(k) THEN [call EXCEPT !.step = "lookup",
                                                         !.cached = entry.data]
                        ELSE call]
                  /\ UNCHANGED geoMetric
       /\ UNCHANGED <<memoryCache, targetGeo, geoNow>>

\* The table is read; a read that fails counts as a miss.
ReadTable(r, fails) ==
    /\ resolvers[r] # Absent
    /\ resolvers[r].step = "table"
    /\ resolvers' = [resolvers EXCEPT ![r].step = "read",
          ![r].found = IF fails THEN Absent ELSE targetGeo[resolvers[r].key]]
    /\ UNCHANGED <<memoryCache, targetGeo, geoNow, geoMetric>>

\* The rest of get: a row goes to the memory with its own date, read as a
\* local one; a fresh one is published, a stale one kept for a fallback.
Promote(r) ==
    LET call == resolvers[r]
        row == call.found
        date == row.lastUpdated + Zone
    IN /\ call # Absent
       /\ call.step = "read"
       /\ IF row = Absent THEN UNCHANGED memoryCache
          ELSE SetMemory(call.key, row.data, date)
       /\ IF row # Absent /\ ~ IsStale(date)
             THEN UpdateGeoMetric(call.key, row.data, FALSE) /\ Ends(r)
             ELSE /\ resolvers' = [resolvers EXCEPT ![r].step = "lookup",
                         ![r].cached = IF row = Absent THEN Absent ELSE row.data]
                  /\ UNCHANGED geoMetric
       /\ UNCHANGED <<targetGeo, geoNow>>

\* The provider answers: the memory at once, then the table.
Lookup(r) ==
    /\ resolvers[r] # Absent
    /\ resolvers[r].step = "lookup"
    /\ SetMemory(resolvers[r].key, geoNow, geoNow)
    /\ resolvers' = [resolvers EXCEPT ![r].step = "select", ![r].found = geoNow]
    /\ UNCHANGED <<targetGeo, geoNow, geoMetric>>

\* The provider fails: stale data is better than none.
LookupFails(r) ==
    LET call == resolvers[r] IN
    /\ call # Absent
    /\ call.step = "lookup"
    /\ IF call.cached = Absent THEN UNCHANGED geoMetric
       ELSE UpdateGeoMetric(call.key, call.cached, TRUE)
    /\ Ends(r)
    /\ UNCHANGED <<memoryCache, targetGeo, geoNow>>

\* set looks for a row, to update or insert.
SelectRow(r) ==
    LET call == resolvers[r] IN
    /\ call # Absent
    /\ call.step = "select"
    /\ resolvers' = [resolvers EXCEPT ![r].cached = targetGeo[call.key],
                                      ![r].step = "write"]
    /\ UNCHANGED <<memoryCache, targetGeo, geoNow, geoMetric>>

\* The row is written with the date of the lookup; an INSERT of a row that
\* another call wrote and an UPDATE of one that cleanup deleted change
\* nothing, a write that fails neither.  Then the data is published.
WriteRow(r, fails) ==
    LET call == resolvers[r]
        k == call.key
        lands == (call.cached = Absent) <=> (targetGeo[k] = Absent)
    IN /\ call # Absent
       /\ call.step = "write"
       /\ targetGeo' = IF fails \/ ~ lands THEN targetGeo
             ELSE [targetGeo EXCEPT ![k] = [data |-> call.found,
                                            lastUpdated |-> call.found]]
       /\ UpdateGeoMetric(k, call.found, FALSE)
       /\ Ends(r)
       /\ UNCHANGED <<memoryCache, geoNow>>

---------------------------------------------------------------------------
\* The daily cleanup deletes old rows, in the table only.
Cleanup ==
    /\ targetGeo' = [k \in GeoKey |->
          IF targetGeo[k] # Absent /\ geoNow - targetGeo[k].lastUpdated > MaxAge
          THEN Absent ELSE targetGeo[k]]
    /\ UNCHANGED <<memoryCache, geoNow, resolvers, geoMetric>>

\* The process ends: the table survives, and what the collector has.
GeoRestart ==
    /\ memoryCache' = <<>>
    /\ resolvers' = [r \in Resolver |-> Absent]
    /\ UNCHANGED <<targetGeo, geoNow, geoMetric>>

GeoTick ==
    /\ geoNow < Horizon
    /\ \A r \in Resolver : resolvers[r] # Absent => resolvers[r].began = geoNow
    /\ geoNow' = geoNow + 1
    /\ UNCHANGED <<memoryCache, targetGeo, resolvers, geoMetric>>

GeoNext ==
    \/ \E r \in Resolver : \/ \E k \in GeoKey : ResolveTargetGeo(r, k)
                           \/ \E fails \in BOOLEAN : ReadTable(r, fails) \/ WriteRow(r, fails)
                           \/ Promote(r) \/ Lookup(r) \/ LookupFails(r) \/ SelectRow(r)
    \/ Cleanup \/ GeoRestart \/ GeoTick

GeoSpec == GeoInit /\ [][GeoNext]_geoVars

---------------------------------------------------------------------------
\* What is published of a target is no older than the time to live and what
\* the tables' dates are misread by, however calls, evictions, cleanups and
\* restarts interleave, unless the provider failed; and the memory never
\* outgrows its bound nor holds a key twice (geo-cache.js 60-154,
\* geo-resolver.js 62-89).
AnswersRecent ==
    /\ \A m \in Probed : geoMetric[m] # Absent =>
          \/ geoMetric[m].fallback
          \/ geoMetric[m].at - geoMetric[m].data <= StaleTtl + Zone
    /\ Len(memoryCache) <= MemoryMax
    /\ \A i, j \in DOMAIN memoryCache :
          memoryCache[i].key = memoryCache[j].key => i = j
====
