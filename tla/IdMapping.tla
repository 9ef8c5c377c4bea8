----------------------------- MODULE IdMapping -----------------------------
(***************************************************************************)
(* The bidirectional map that iris-sync keeps for one probe                *)
(* (iris-sync/internal/sync/mapper.go): master id -> probe id, its         *)
(* inverse, and the hash of the configuration the probe was last known to  *)
(* run.  Each Go method holds the mapping's mutex for its whole body, so   *)
(* each one is a single operator here.                                     *)
(*                                                                         *)
(* A Go map is a total function that yields NoId or NoHash for a missing   *)
(* key.  The empty string, which the reconciler stores to force an update, *)
(* and a missing hash are both NoHash: every reader of the cache treats    *)
(* the two alike (reconciler.go:162).                                      *)
(***************************************************************************)

CONSTANTS MasterId,   \* primary keys of the master's monitor table
          ProbeId,    \* primary keys of a probe's monitor table
          Hash,       \* what ComputeHash can return
          NoId,       \* a missing id (sql.NullInt64 not Valid)
          NoHash      \* a missing or emptied hash

ASSUME IdAssumption   == NoId \notin MasterId \cup ProbeId
ASSUME HashAssumption == NoHash \notin Hash

Mapping == [m2p  : [MasterId -> ProbeId \cup {NoId}],
            p2m  : [ProbeId -> MasterId \cup {NoId}],
            hash : [MasterId -> Hash \cup {NoHash}]]

\* persistedMapping: the JSON file holds one direction and the hashes.
File == [m2p  : [MasterId -> ProbeId \cup {NoId}],
         hash : [MasterId -> Hash \cup {NoHash}]]

EmptyFile == [m2p  |-> [m \in MasterId |-> NoId],
              hash |-> [m \in MasterId |-> NoHash]]

NewIDMapping == [m2p  |-> [m \in MasterId |-> NoId],
                 p2m  |-> [p \in ProbeId |-> NoId],
                 hash |-> [m \in MasterId |-> NoHash]]

GetProbeID(map, m) == IF m \in MasterId THEN map.m2p[m] ELSE NoId

\* The old probe id of m leaves the inverse first; only then is the previous
\* owner of p looked up, and it loses both its mapping and its hash.
SetMapping(map, m, p) ==
    LET oldProbe  == map.m2p[m]
        oldMaster == IF p = oldProbe THEN NoId ELSE map.p2m[p]
    IN  [m2p  |-> [x \in MasterId |-> IF x = m THEN p
                                      ELSE IF x = oldMaster THEN NoId
                                      ELSE map.m2p[x]],
         p2m  |-> [q \in ProbeId |-> IF q = p THEN m
                                     ELSE IF q = oldProbe THEN NoId
                                     ELSE map.p2m[q]],
         hash |-> [x \in MasterId |-> IF x = oldMaster THEN NoHash
                                      ELSE map.hash[x]]]

\* Mutant: the inverse keeps the entry.
RemoveHalf(map, m) == [map EXCEPT !.m2p[m] = NoId, !.hash[m] = NoHash]

RemoveByMasterID(map, m) ==
    [m2p  |-> [map.m2p EXCEPT ![m] = NoId],
     p2m  |-> [q \in ProbeId |-> IF q = map.m2p[m] THEN NoId ELSE map.p2m[q]],
     hash |-> [map.hash EXCEPT ![m] = NoHash]]

\* Mutant: the hash is not kept.
SetHashNot(map, m, h) == map

SetHash(map, m, h) == [map EXCEPT !.hash[m] = h]

GetAllMasterIDs(map) == {m \in MasterId : map.m2p[m] # NoId}

SaveToFile(map) == [m2p |-> map.m2p, hash |-> map.hash]

\* The inverse is rebuilt by ranging over the stored direction; were two
\* masters to share a probe id, whichever is visited last would win.
LoadFromFile(file) ==
    [m2p  |-> file.m2p,
     p2m  |-> [p \in ProbeId |->
                 IF \E m \in MasterId : file.m2p[m] = p
                 THEN CHOOSE m \in MasterId : file.m2p[m] = p
                 ELSE NoId],
     hash |-> file.hash]

-----------------------------------------------------------------------------

\* The two directions agree: each is the inverse of the other.
Agree(map) ==
    /\ \A m \in MasterId : map.m2p[m] # NoId => map.p2m[map.m2p[m]] = m
    /\ \A p \in ProbeId : map.p2m[p] # NoId => map.m2p[map.p2m[p]] = p

\* A file from which LoadFromFile rebuilds an inverse.
OneToOne(file) ==
    \A m, n \in MasterId :
        file.m2p[m] # NoId /\ file.m2p[m] = file.m2p[n] => m = n
=============================================================================
