--------------------------- MODULE ServicesProofs ---------------------------
(***************************************************************************)
(* Five services of the server, for any values of their constants: the     *)
(* announcements of a domain that expires (DomainExpiry), the cache of the *)
(* settings (SettingsCache), the gauges of the iris-bgp bridge (BgpBridge),*)
(* the geo cache (GeoCache) and what a browser shows of the beats of a     *)
(* monitor (HeartbeatFeed).                                                *)
(***************************************************************************)
EXTENDS BgpBridge, SettingsCache, DomainExpiry, GeoCache, HeartbeatFeed,
        FiniteSetTheorems, WellFoundedInduction, TLAPS

\* A set of numbers that is not empty has a least one.
LEMMA LeastNat ==
    ASSUME NEW T \in SUBSET Nat, T # {}
    PROVE  \E x \in T : \A y \in T : x <= y
  <1> DEFINE R == StrictSubsetOrdering(Nat)
             S == FiniteSubsetsOf(Nat)
             U == {0 .. n : n \in T}
  <1>1. IsWellFoundedOn(R, S)  BY FS_StrictSubsetOrderingWellFounded
  <1>2. U \subseteq S
    <2> SUFFICES ASSUME NEW n \in T  PROVE 0 .. n \in S
      OBVIOUS
    <2>1. IsFiniteSet(0 .. n)  BY FS_Interval
    <2> QED BY <2>1 DEF FiniteSubsetsOf
  <1>3. \A x, y \in T : y < x => <<0 .. y, 0 .. x>> \in R
    <2> SUFFICES ASSUME NEW x \in T, NEW y \in T, y < x
                 PROVE  <<0 .. y, 0 .. x>> \in R
      OBVIOUS
    <2>1. 0 .. y \subseteq 0 .. x /\ x \in 0 .. x /\ x \notin 0 .. y
      OBVIOUS
    <2>2. 0 .. x \subseteq Nat /\ 0 .. y \subseteq Nat
      OBVIOUS
    <2> QED BY <2>1, <2>2 DEF StrictSubsetOrdering
  <1>4. U # {}  OBVIOUS
  <1> HIDE DEF R, S
  <1>5. PICK u \in U : \A v \in U : ~ (<<v, u>> \in R)
    <2> HIDE DEF U
    <2> QED BY <1>1, <1>2, <1>4, WFMin
  <1>6. PICK x \in T : u = 0 .. x  BY <1>5
  <1>7. \A y \in T : ~ (y < x)  BY <1>3, <1>5, <1>6
  <1>8. \A y \in T : x <= y  BY <1>7
  <1> QED BY <1>8

---------------------------------------------------------------------------
(* Domain expiry: one announcement of a deadline, plus what is excused.    *)

\* A row that says a deadline, or one as close, was announced.
Settled(row, d) == row \in DomainRow /\ row.lastSent # NotSent /\ row.lastSent <= d

\* Calls whose row does not say so; of those, the calls that may still announce
\* the deadline or store a row that does not say so.
Risky(d) == {t \in Sender : senders[t] # NotSent /\ ~ Settled(senders[t].row, d)}

Awaited(d) == {t \in Risky(d) : senders[t].sent # NotSent => senders[t].sent > d}

\* With no such call under way, the row itself decides whether one can begin.
Ready(d) == IF Risky(d) = {} /\ ~ Settled(domainRow, d) THEN 1 ELSE 0

DomainTypes ==
    /\ domainRow \in {NotSent} \cup DomainRow
    /\ registry \in [day : Int, renewed : Nat]
    /\ today \in Int
    /\ checks \in [Watcher -> {"idle", "asking", "known"}]
    /\ senders \in [Sender -> {NotSent} \cup DomainCall]
    /\ announced \in [NotifyDays -> Nat]
    /\ overlaps \in Nat
    /\ outages \in Nat

\* A monitor goes on to the notices only with a row.
KnownHasRow == (\E m \in Watcher : checks[m] = "known") => domainRow \in DomainRow

\* What a call announced, the row it loaded did not say.
AnnouncedNew ==
    \A s \in Sender : senders[s] # NotSent /\ senders[s].sent # NotSent
        /\ senders[s].row.lastSent # NotSent
            => senders[s].row.lastSent > senders[s].sent

\* Each announcement is the first, or is paid by a pair of calls or an outage;
\* so is each that is still possible.
Paid(d) == announced[d] + Cardinality(Awaited(d)) + Ready(d) <= 1 + overlaps + outages

OnceInv ==
    /\ DomainTypes
    /\ KnownHasRow
    /\ AnnouncedNew
    /\ \A d \in NotifyDays : Paid(d)

\* The deadline that is tried next is one the row of the call does not settle.
LEMMA TargetIsOpen ==
    ASSUME NEW call \in DomainCall, NextTarget(call) # NotSent
    PROVE  /\ NextTarget(call) \in NotifyDays
           /\ call.row.lastSent # NotSent => call.row.lastSent > NextTarget(call)
  <1> DEFINE open == {d \in NotifyDays : d > call.tried
                         /\ Announceable(d, call.daysRemaining, call.row.lastSent)}
             least == CHOOSE d \in open : \A e \in open : d <= e
  <1>1. open # {} /\ NextTarget(call) = least  BY DEF NextTarget
  <1>2. open \in SUBSET Nat  BY DomainAssumption
  <1>3. \A d \in open : d \in NotifyDays
            /\ (call.row.lastSent # NotSent => call.row.lastSent > d)
    BY DEF Announceable
  <1> HIDE DEF open
  <1>4. least \in open  BY <1>1, <1>2, LeastNat
  <1> QED BY <1>1, <1>3, <1>4

\* The sets of calls are finite, so they can be counted.
LEMMA CallsAreFinite ==
    ASSUME NEW d \in NotifyDays
    PROVE  /\ Risky(d) \subseteq Sender
           /\ IsFiniteSet(Risky(d)) /\ IsFiniteSet(Awaited(d))
           /\ Cardinality(Awaited(d)) \in Nat
  <1>1. Risky(d) \in SUBSET Sender  BY DEF Risky
  <1>2. IsFiniteSet(Risky(d))  BY <1>1, DomainAssumption, FS_Subset
  <1>3. Awaited(d) \in SUBSET Risky(d)  BY DEF Awaited
  <1>4. IsFiniteSet(Awaited(d))  BY <1>2, <1>3, FS_Subset
  <1> QED BY <1>1, <1>2, <1>4, FS_CardinalityType

LEMMA OnceBegins == DomainInit => OnceInv
  <1> SUFFICES ASSUME DomainInit  PROVE OnceInv
    OBVIOUS
  <1> USE DEF DomainInit
  <1>1. DomainTypes  BY DomainAssumption DEF DomainTypes
  <1>2. KnownHasRow /\ AnnouncedNew  BY DEF KnownHasRow, AnnouncedNew
  <1>3. \A d \in NotifyDays : Paid(d)
    <2> SUFFICES ASSUME NEW d \in NotifyDays  PROVE Paid(d)
      OBVIOUS
    <2>1. Awaited(d) = {}  BY DEF Awaited, Risky
    <2>2. Cardinality(Awaited(d)) = 0  BY <2>1, FS_EmptySet
    <2> QED BY <2>2 DEF Paid, Ready
  <1> QED BY <1>1, <1>2, <1>3 DEF OnceInv

\* A step that leaves the calls and the row alone changes nothing of the count.
LEMMA CallsUntouched ==
    ASSUME \A d \in NotifyDays : Paid(d),
           UNCHANGED <<domainRow, senders, announced, overlaps>>,
           outages \in Nat, outages' \in Nat, outages <= outages',
           overlaps \in Nat, announced \in [NotifyDays -> Nat]
    PROVE  \A d \in NotifyDays : Paid(d)'
  <1> SUFFICES ASSUME NEW d \in NotifyDays  PROVE Paid(d)'
    OBVIOUS
  <1>1. Risky(d)' = Risky(d) /\ Awaited(d)' = Awaited(d) /\ Ready(d)' = Ready(d)
    BY DEF Risky, Awaited, Ready
  <1>2. Cardinality(Awaited(d)) \in Nat  BY CallsAreFinite
  <1>3. Ready(d) \in {0, 1}  BY DEF Ready
  <1>4. Cardinality(Awaited(d)') = Cardinality(Awaited(d))  BY <1>1
  <1> QED BY <1>1, <1>2, <1>3, <1>4 DEF Paid

\* A call that begins finds the row as it is: it is the first that may announce
\* a deadline, or one of a pair under way together.
LEMMA BeginKeepsOnce ==
    ASSUME OnceInv, NEW m \in Watcher, NEW s \in Sender, SendNotifications(m, s)
    PROVE  OnceInv'
  <1> DEFINE call == [row |-> domainRow, daysRemaining |-> DaysRemaining(domainRow),
                      tried |-> 0, sent |-> NotSent]
             active == {t \in Sender : senders[t] # NotSent}
  <1> USE DEF OnceInv, DomainTypes
  <1>1. /\ checks[m] = "known" /\ senders[s] = NotSent
        /\ checks' = [checks EXCEPT ![m] = "idle"]
        /\ UNCHANGED <<domainRow, registry, today, announced, outages>>
        /\ \/ UNCHANGED <<senders, overlaps>>
           \/ /\ senders' = [senders EXCEPT ![s] = call]
              /\ overlaps' = overlaps + Cardinality(active)
    BY DEF SendNotifications
  <1>2. domainRow \in DomainRow  BY <1>1 DEF KnownHasRow
  <1>3. call \in DomainCall
    <2>1. DaysRemaining(domainRow) \in Int  BY <1>2 DEF DaysRemaining, DomainRow
    <2> QED BY <1>2, <2>1 DEF DomainCall
  <1>4. call.row = domainRow /\ call.sent = NotSent /\ call # NotSent
    BY <1>3, DomainAssumption
  <1> HIDE DEF call
  <1>5. IsFiniteSet(active) /\ Cardinality(active) \in Nat
    BY DomainAssumption, FS_Subset, FS_CardinalityType
  <1>6. CASE UNCHANGED <<senders, overlaps>>
    <2>1. \A d \in NotifyDays : Paid(d)'  BY <1>1, <1>6, CallsUntouched
    <2>2. DomainTypes'  BY <1>1, <1>6
    <2> QED BY <1>1, <1>2, <1>6, <2>1, <2>2 DEF KnownHasRow, AnnouncedNew
  <1>7. CASE /\ senders' = [senders EXCEPT ![s] = call]
             /\ overlaps' = overlaps + Cardinality(active)
    <2>1. DomainTypes'
      <3>1. overlaps' \in Nat  BY <1>5, <1>7
      <3>2. senders' \in [Sender -> {NotSent} \cup DomainCall]  BY <1>3, <1>7
      <3> QED BY <1>1, <3>1, <3>2
    <2>2. KnownHasRow' /\ AnnouncedNew'
      <3>1. senders'[s].sent = NotSent
            /\ \A t \in Sender \ {s} : senders'[t] = senders[t]  BY <1>4, <1>7
      <3> QED BY <1>1, <1>2, <3>1 DEF KnownHasRow, AnnouncedNew
    <2>3. ASSUME NEW d \in NotifyDays  PROVE Paid(d)'
      <3>1. /\ senders'[s] = call
            /\ \A t \in Sender \ {s} : senders'[t] = senders[t]  BY <1>7
      <3>2. s \notin Risky(d) /\ s \notin Awaited(d)  BY <1>1 DEF Risky, Awaited
      <3>3. IsFiniteSet(Awaited(d)) /\ Cardinality(Awaited(d)) \in Nat
            /\ Risky(d) \subseteq Sender
        BY CallsAreFinite
      <3>4. Paid(d) /\ announced[d] \in Nat  OBVIOUS
      <3>5. CASE Settled(domainRow, d)
        <4>1. Risky(d)' = Risky(d)  BY <1>4, <3>1, <3>2, <3>5 DEF Risky
        <4>2. Awaited(d)' = Awaited(d)  BY <3>1, <3>2, <3>3, <4>1 DEF Awaited
        <4>3. Ready(d)' = 0 /\ Ready(d) = 0  BY <1>1, <3>5 DEF Ready
        <4>4. Cardinality(Awaited(d)') = Cardinality(Awaited(d))  BY <4>2
        <4> QED BY <1>1, <1>5, <1>7, <3>3, <3>4, <4>3, <4>4 DEF Paid
      <3>6. CASE ~ Settled(domainRow, d)
        <4>1. Risky(d)' = Risky(d) \cup {s}  BY <1>4, <3>1, <3>2, <3>6 DEF Risky
        <4>2. Awaited(d)' = Awaited(d) \cup {s}
          BY <1>4, <3>1, <3>2, <3>3, <4>1 DEF Awaited
        <4>3. Ready(d)' = 0  BY <4>1 DEF Ready
        <4>4. Cardinality(Awaited(d)') = Cardinality(Awaited(d)) + 1
          BY <3>2, <3>3, <4>2, FS_AddElement
        <4>5. CASE Risky(d) = {}
          <5>1. Ready(d) = 1  BY <3>6, <4>5 DEF Ready
          <5> QED BY <1>1, <1>5, <1>7, <3>3, <3>4, <4>3, <4>4, <5>1 DEF Paid
        <4>6. CASE Risky(d) # {}
          <5>1. active # {}  BY <4>6 DEF Risky
          <5>2. Cardinality(active) # 0  BY <1>5, <5>1, FS_EmptySet
          <5>3. Ready(d) = 0  BY <4>6 DEF Ready
          <5> QED BY <1>1, <1>5, <1>7, <3>3, <3>4, <4>3, <4>4, <5>2, <5>3 DEF Paid
        <4> QED BY <4>5, <4>6
      <3> QED BY <3>5, <3>6
    <2> QED BY <2>1, <2>2, <2>3
  <1> QED BY <1>1, <1>6, <1>7

\* An announcement uses up the call that makes it.
LEMMA SendKeepsOnce ==
    ASSUME OnceInv, NEW s \in Sender, NEW accepted \in BOOLEAN,
           SendTarget(s, accepted)
    PROVE  OnceInv'
  <1> DEFINE call == senders[s]
             target == NextTarget(call)
             sent == IF accepted THEN target ELSE NotSent
             told == [call EXCEPT !.tried = target, !.sent = sent]
  <1> USE DEF OnceInv, DomainTypes
  <1>1. /\ call # NotSent /\ call.sent = NotSent /\ target # NotSent
        /\ call \in DomainCall
        /\ announced' = IF accepted THEN [announced EXCEPT ![target] = @ + 1]
                        ELSE announced
        /\ UNCHANGED <<domainRow, registry, today, checks, overlaps, outages>>
    BY DEF SendTarget
  <1>2. target \in NotifyDays /\ target \in Nat
        /\ (call.row.lastSent # NotSent => call.row.lastSent > target)
    BY <1>1, TargetIsOpen, DomainAssumption
  <1>3. senders' = [senders EXCEPT ![s] = told]  BY <1>1 DEF SendTarget, DomainCall
  <1>4. told \in DomainCall /\ told.row = call.row /\ told.sent = sent /\ told # NotSent
    <2>1. told \in DomainCall /\ told.row = call.row /\ told.sent = sent
      BY <1>1, <1>2 DEF DomainCall
    <2> QED BY <2>1, DomainAssumption
  <1>5. sent = target \/ sent = NotSent  OBVIOUS
  <1> HIDE DEF told
  <1>6. /\ senders'[s] = told
        /\ \A t \in Sender \ {s} : senders'[t] = senders[t]  BY <1>3
  <1>7. DomainTypes'
    <2>1. announced' \in [NotifyDays -> Nat]  BY <1>1, <1>2
    <2>2. senders' \in [Sender -> {NotSent} \cup DomainCall]  BY <1>3, <1>4
    <2> QED BY <1>1, <2>1, <2>2
  <1>8. KnownHasRow'  BY <1>1 DEF KnownHasRow
  <1>9. AnnouncedNew'
    <2> SUFFICES ASSUME NEW t \in Sender, senders'[t] # NotSent,
                        senders'[t].sent # NotSent, senders'[t].row.lastSent # NotSent
                 PROVE  senders'[t].row.lastSent > senders'[t].sent
      BY DEF AnnouncedNew
    <2>1. CASE t = s  BY <1>2, <1>4, <1>5, <1>6, <2>1
    <2>2. CASE t # s  BY <1>6, <2>2 DEF AnnouncedNew
    <2> QED BY <2>1, <2>2
  <1>10. ASSUME NEW d \in NotifyDays  PROVE Paid(d)'
    <2>1. Risky(d)' = Risky(d)  BY <1>1, <1>4, <1>6 DEF Risky
    <2>2. Ready(d)' = Ready(d) /\ Ready(d) \in {0, 1}  BY <1>1, <2>1 DEF Ready
    <2>3. IsFiniteSet(Awaited(d)) /\ Cardinality(Awaited(d)) \in Nat
          /\ Risky(d) \subseteq Sender
      BY CallsAreFinite
    <2>4. Paid(d) /\ announced[d] \in Nat /\ d \in Nat  BY DomainAssumption
    <2>5. CASE accepted /\ target <= d /\ s \in Risky(d)
      <3>1. s \in Awaited(d)  BY <1>1, <2>5 DEF Awaited
      <3>2. Awaited(d)' = Awaited(d) \ {s}
        BY <1>1, <1>2, <1>4, <1>6, <2>1, <2>3, <2>4, <2>5 DEF Awaited
      <3>3. Cardinality(Awaited(d)') = Cardinality(Awaited(d)) - 1
        BY <2>3, <3>1, <3>2, FS_RemoveElement
      <3>4. announced'[d] <= announced[d] + 1  BY <1>1, <2>4, <2>5
      <3>5. announced'[d] \in Nat  BY <1>7
      <3> QED BY <1>1, <2>2, <2>3, <2>4, <3>3, <3>4, <3>5 DEF Paid
    <2>6. CASE ~ (accepted /\ target <= d /\ s \in Risky(d))
      <3>1. Awaited(d)' = Awaited(d)
        BY <1>1, <1>2, <1>4, <1>6, <2>1, <2>3, <2>4, <2>6 DEF Awaited
      <3>2. announced'[d] = announced[d]
        <4>1. CASE ~ accepted \/ target # d  BY <1>1, <1>2, <4>1
        <4>2. CASE accepted /\ target = d
          <5>1. ~ Settled(call.row, d)  BY <1>1, <1>2, <2>4, <4>2, DomainAssumption DEF Settled, DomainCall, DomainRow
          <5>2. s \in Risky(d)  BY <1>1, <5>1 DEF Risky
          <5> QED BY <2>4, <2>6, <4>2, <5>2
        <4> QED BY <4>1, <4>2
      <3>3. Cardinality(Awaited(d)') = Cardinality(Awaited(d))  BY <3>1
      <3> QED BY <1>1, <2>2, <2>3, <2>4, <3>2, <3>3 DEF Paid
    <2> QED BY <2>5, <2>6
  <1> QED BY <1>7, <1>8, <1>9, <1>10

\* A call that ends no longer counts; what it has not announced another may.
LEMMA CallGone ==
    ASSUME OnceInv, NEW s \in Sender, senders[s] # NotSent,
           senders' = [senders EXCEPT ![s] = NotSent],
           NEW d \in NotifyDays
    PROVE  /\ Risky(d)' = Risky(d) \ {s} /\ Awaited(d)' = Awaited(d) \ {s}
           /\ s \in Awaited(d) => Cardinality(Awaited(d)') = Cardinality(Awaited(d)) - 1
           /\ s \notin Awaited(d) => Cardinality(Awaited(d)') = Cardinality(Awaited(d))
           /\ Cardinality(Awaited(d)) \in Nat /\ Cardinality(Awaited(d)') \in Nat
           /\ Ready(d) \in {0, 1} /\ Ready(d)' \in {0, 1}
           /\ announced[d] \in Nat /\ overlaps \in Nat /\ outages \in Nat /\ d \in Nat
  <1>1. /\ senders'[s] = NotSent
        /\ \A t \in Sender \ {s} : senders'[t] = senders[t]  BY DEF OnceInv, DomainTypes
  <1>2. /\ Risky(d) \subseteq Sender
        /\ IsFiniteSet(Awaited(d)) /\ Cardinality(Awaited(d)) \in Nat
    BY CallsAreFinite
  <1>3. Risky(d)' = Risky(d) \ {s}  BY <1>1 DEF Risky
  <1>4. Awaited(d)' = Awaited(d) \ {s}  BY <1>1, <1>2, <1>3 DEF Awaited
  <1>5. /\ s \in Awaited(d) => Cardinality(Awaited(d)') = Cardinality(Awaited(d)) - 1
        /\ s \notin Awaited(d) => Cardinality(Awaited(d)') = Cardinality(Awaited(d))
    BY <1>2, <1>4, FS_RemoveElement
  <1>6. IsFiniteSet(Awaited(d)')  BY <1>2, <1>4, FS_RemoveElement
  <1>7. Cardinality(Awaited(d)') \in Nat  BY <1>6, FS_CardinalityType
  <1>8. Ready(d) \in {0, 1} /\ Ready(d)' \in {0, 1}  BY DEF Ready
  <1>9. announced[d] \in Nat /\ overlaps \in Nat /\ outages \in Nat /\ d \in Nat
    BY DomainAssumption DEF OnceInv, DomainTypes
  <1> QED BY <1>2, <1>3, <1>4, <1>5, <1>7, <1>8, <1>9

\* The row that is stored says the deadline was announced, whatever the table
\* said in between; a store that is lost leaves it to be announced once more.
LEMMA StoreKeepsOnce ==
    ASSUME OnceInv, NEW s \in Sender, StoreSent(s)
    PROVE  OnceInv'
  <1> DEFINE call == senders[s]
             row == [call.row EXCEPT !.lastSent = call.sent]
  <1> USE DEF OnceInv, DomainTypes
  <1>1. /\ call # NotSent /\ call.sent # NotSent
        /\ call \in DomainCall
        /\ \/ domainRow' = row /\ outages' = outages
           \/ outages' = outages + 1 /\ domainRow' = domainRow
        /\ senders' = [senders EXCEPT ![s] = NotSent]
        /\ UNCHANGED <<registry, today, checks, announced, overlaps>>
    BY DEF StoreSent, StoreLost
  <1>2. /\ row \in DomainRow /\ row.lastSent = call.sent
        /\ call.sent \in NotifyDays /\ call.sent \in Nat
        /\ call.row \in DomainRow
    BY <1>1, DomainAssumption DEF DomainCall, DomainRow
  <1> HIDE DEF row
  <1>3. DomainTypes'
    <2>1. outages' \in Nat  BY <1>1
    <2>2. senders' \in [Sender -> {NotSent} \cup DomainCall]  BY <1>1
    <2> QED BY <1>1, <1>2, <2>1, <2>2
  <1>4. KnownHasRow'  BY <1>1, <1>2 DEF KnownHasRow
  <1>5. AnnouncedNew'  BY <1>1 DEF AnnouncedNew
  <1>6. ASSUME NEW d \in NotifyDays  PROVE Paid(d)'
    <2>1. /\ Risky(d)' = Risky(d) \ {s} /\ Awaited(d)' = Awaited(d) \ {s}
          /\ s \in Awaited(d) => Cardinality(Awaited(d)') = Cardinality(Awaited(d)) - 1
          /\ s \notin Awaited(d) => Cardinality(Awaited(d)') = Cardinality(Awaited(d))
          /\ Cardinality(Awaited(d)) \in Nat /\ Cardinality(Awaited(d)') \in Nat
          /\ Ready(d) \in {0, 1} /\ Ready(d)' \in {0, 1}
          /\ announced[d] \in Nat /\ overlaps \in Nat /\ outages \in Nat /\ d \in Nat
      BY <1>1, CallGone
    <2>2. Cardinality(Awaited(d)') <= Cardinality(Awaited(d))  BY <2>1
    <2>3. Paid(d)  OBVIOUS
    <2>4. CASE outages' = outages + 1  BY <1>1, <2>1, <2>2, <2>3, <2>4 DEF Paid
    <2>5. CASE domainRow' = row /\ outages' = outages
      <3>1. CASE call.sent <= d
        <4>1. Settled(domainRow', d)  BY <1>1, <1>2, <2>5, <3>1 DEF Settled
        <4>2. Ready(d)' = 0  BY <4>1 DEF Ready
        <4> QED BY <1>1, <2>1, <2>2, <2>3, <2>5, <4>2 DEF Paid
      <3>2. CASE call.sent > d
        <4>1. call.row.lastSent # NotSent => call.row.lastSent > call.sent
          BY <1>1 DEF AnnouncedNew
        <4>2. ~ Settled(call.row, d)
          BY <1>2, <2>1, <3>2, <4>1, DomainAssumption DEF Settled, DomainRow
        <4>3. s \in Awaited(d)  BY <1>1, <3>2, <4>2 DEF Awaited, Risky
        <4>4. Ready(d) = 0  BY <4>3 DEF Ready, Awaited
        <4> QED BY <1>1, <2>1, <2>3, <2>5, <4>3, <4>4 DEF Paid
      <3> QED BY <1>2, <2>1, <3>1, <3>2
    <2> QED BY <1>1, <2>4, <2>5
  <1> QED BY <1>3, <1>4, <1>5, <1>6

LEMMA EndKeepsOnce ==
    ASSUME OnceInv, NEW s \in Sender, SendEnds(s)
    PROVE  OnceInv'
  <1> USE DEF OnceInv, DomainTypes
  <1>1. /\ senders[s] # NotSent /\ senders[s].sent = NotSent
        /\ senders' = [senders EXCEPT ![s] = NotSent]
        /\ UNCHANGED <<domainRow, registry, today, checks, announced, overlaps, outages>>
    BY DEF SendEnds
  <1>2. DomainTypes' /\ KnownHasRow' /\ AnnouncedNew'
    <2>1. senders' \in [Sender -> {NotSent} \cup DomainCall]  BY <1>1
    <2>2. AnnouncedNew'  BY <1>1 DEF AnnouncedNew
    <2> QED BY <1>1, <2>1, <2>2 DEF KnownHasRow
  <1>3. ASSUME NEW d \in NotifyDays  PROVE Paid(d)'
    <2>1. /\ Risky(d)' = Risky(d) \ {s} /\ Awaited(d)' = Awaited(d) \ {s}
          /\ s \in Awaited(d) => Cardinality(Awaited(d)') = Cardinality(Awaited(d)) - 1
          /\ s \notin Awaited(d) => Cardinality(Awaited(d)') = Cardinality(Awaited(d))
          /\ Cardinality(Awaited(d)) \in Nat /\ Cardinality(Awaited(d)') \in Nat
          /\ Ready(d) \in {0, 1} /\ Ready(d)' \in {0, 1}
          /\ announced[d] \in Nat /\ overlaps \in Nat /\ outages \in Nat /\ d \in Nat
      BY <1>1, CallGone
    <2>2. Paid(d)  OBVIOUS
    <2>3. CASE s \in Risky(d)
      <3>1. s \in Awaited(d)  BY <1>1, <2>3 DEF Awaited
      <3>2. Ready(d) = 0  BY <2>3 DEF Ready
      <3> QED BY <1>1, <2>1, <2>2, <3>1, <3>2 DEF Paid
    <2>4. CASE s \notin Risky(d)
      <3>1. s \notin Awaited(d)  BY <2>4 DEF Awaited
      <3>2. Ready(d)' = Ready(d)  BY <1>1, <2>1, <2>4 DEF Ready
      <3> QED BY <1>1, <2>1, <2>2, <3>1, <3>2 DEF Paid
    <2> QED BY <2>3, <2>4
  <1> QED BY <1>2, <1>3

\* The check of a beat stores a row without a deadline, or nothing.
LEMMA CheckKeepsOnce ==
    ASSUME OnceInv, NEW m \in Watcher,
           \/ CheckExpiry(m)
           \/ \E answers \in BOOLEAN : RegistryAnswers(m, answers)
           \/ NobodyToNotify(m)
    PROVE  OnceInv'
  <1> USE DEF OnceInv, DomainTypes
  <1> DEFINE Checks ==
               /\ UNCHANGED <<registry, today, senders, announced, overlaps>>
               /\ outages' \in Nat /\ outages <= outages'
               /\ checks' \in [Watcher -> {"idle", "asking", "known"}]
               /\ \/ domainRow' = domainRow
                  \/ /\ domainRow = NotSent /\ domainRow' \in DomainRow
                     /\ domainRow'.lastSent = NotSent
  <1>1. Checks
    <2>1. CASE CheckExpiry(m)  BY <2>1 DEF CheckExpiry
    <2>2. ASSUME NEW answers \in BOOLEAN, RegistryAnswers(m, answers)
          PROVE  Checks
      <3>1. CASE /\ domainRow = NotSent
                 /\ domainRow' = [expiry |-> IF answers THEN registry.day ELSE NoDate,
                                  lastSent |-> NotSent]
                 /\ checks' = [checks EXCEPT ![m] = IF answers THEN "known" ELSE "idle"]
                 /\ UNCHANGED outages
        <4>1. domainRow' \in DomainRow /\ domainRow'.lastSent = NotSent
          BY <3>1 DEF DomainRow, NoDate
        <4>2. checks' \in [Watcher -> {"idle", "asking", "known"}]  BY <3>1
        <4> QED BY <2>2, <3>1, <4>1, <4>2 DEF RegistryAnswers
      <3>2. CASE /\ IF domainRow = NotSent THEN StoreLost ELSE UNCHANGED outages
                 /\ checks' = [checks EXCEPT ![m] = "idle"]
                 /\ UNCHANGED domainRow
        BY <2>2, <3>2 DEF RegistryAnswers, StoreLost
      <3> QED BY <2>2, <3>1, <3>2 DEF RegistryAnswers
    <2>3. CASE NobodyToNotify(m)  BY <2>3 DEF NobodyToNotify
    <2> QED BY <2>1, <2>2, <2>3
  <1>2. DomainTypes'  BY <1>1
  <1>3. KnownHasRow'
    <2>1. CASE CheckExpiry(m)
      BY <2>1 DEF CheckExpiry, CheckedRecently, KnownHasRow
    <2>2. ASSUME NEW answers \in BOOLEAN, RegistryAnswers(m, answers)
          PROVE  KnownHasRow'
      <3> DEFINE row == [expiry |-> IF answers THEN registry.day ELSE NoDate,
                         lastSent |-> NotSent]
      <3>1. row \in DomainRow  BY DEF DomainRow, NoDate
      <3> HIDE DEF row
      <3>2. CASE domainRow' = row  BY <3>1, <3>2 DEF KnownHasRow
      <3>3. CASE domainRow' = domainRow /\ checks' = [checks EXCEPT ![m] = "idle"]
        BY <3>3 DEF KnownHasRow
      <3> QED BY <2>2, <3>2, <3>3 DEF RegistryAnswers, row
    <2>3. CASE NobodyToNotify(m)  BY <2>3 DEF NobodyToNotify, KnownHasRow
    <2> QED BY <2>1, <2>2, <2>3
  <1>4. AnnouncedNew'  BY <1>1 DEF AnnouncedNew
  <1>5. \A d \in NotifyDays : Paid(d)'
    <2>1. CASE domainRow' = domainRow  BY <1>1, <2>1, CallsUntouched
    <2>2. CASE /\ domainRow = NotSent /\ domainRow' \in DomainRow
               /\ domainRow'.lastSent = NotSent
      <3> SUFFICES ASSUME NEW d \in NotifyDays  PROVE Paid(d)'
        OBVIOUS
      <3>1. ~ Settled(domainRow, d) /\ ~ Settled(domainRow', d)
        BY <2>2, DomainAssumption DEF Settled
      <3>2. Risky(d)' = Risky(d) /\ Awaited(d)' = Awaited(d)
        BY <1>1 DEF Risky, Awaited
      <3>3. Ready(d)' = Ready(d) /\ Ready(d) \in {0, 1}  BY <3>1, <3>2 DEF Ready
      <3>4. Cardinality(Awaited(d)') = Cardinality(Awaited(d))  BY <3>2
      <3>5. Cardinality(Awaited(d)) \in Nat  BY CallsAreFinite
      <3>6. Paid(d)  OBVIOUS
      <3> QED BY <1>1, <3>3, <3>4, <3>5, <3>6 DEF Paid
    <2> QED BY <1>1, <2>1, <2>2
  <1> QED BY <1>2, <1>3, <1>4, <1>5

\* A restart leaves no call under way: a message whose store it cut off is paid
\* by the outage, and a call that had announced nothing gives its place to the
\* one that can begin.
LEMMA RestartKeepsOnce ==
    ASSUME OnceInv, ServerRestarts
    PROVE  OnceInv'
  <1> USE DEF OnceInv, DomainTypes
  <1> DEFINE cut == \E s \in Sender : senders[s] # NotSent /\ senders[s].sent # NotSent
  <1>1. /\ cut => outages' = outages + 1
        /\ ~cut => outages' = outages
        /\ checks' = [m \in Watcher |-> "idle"]
        /\ senders' = [s \in Sender |-> NotSent]
        /\ UNCHANGED <<domainRow, registry, today, announced, overlaps>>
    BY DEF ServerRestarts, StoreLost
  <1>2. DomainTypes' /\ KnownHasRow' /\ AnnouncedNew'
    <2>1. outages' \in Nat  BY <1>1
    <2>2. KnownHasRow' /\ AnnouncedNew'  BY <1>1 DEF KnownHasRow, AnnouncedNew
    <2> QED BY <1>1, <2>1, <2>2
  <1>3. ASSUME NEW d \in NotifyDays  PROVE Paid(d)'
    <2>1. Awaited(d)' = {} /\ Risky(d)' = {}  BY <1>1 DEF Awaited, Risky
    <2>2. Cardinality(Awaited(d)') = 0  BY <2>1, FS_EmptySet
    <2>3. /\ Ready(d) \in {0, 1} /\ Ready(d)' \in {0, 1}
          /\ Cardinality(Awaited(d)) \in Nat
          /\ announced[d] \in Nat /\ overlaps \in Nat /\ outages \in Nat
      BY CallsAreFinite DEF Ready
    <2>4. Paid(d)  OBVIOUS
    <2>5. CASE cut  BY <1>1, <2>2, <2>3, <2>4, <2>5 DEF Paid
    <2>6. CASE ~cut /\ Risky(d) = {}
      <3>1. Ready(d)' = Ready(d)  BY <1>1, <2>1, <2>6 DEF Ready
      <3> QED BY <1>1, <2>2, <2>3, <2>4, <2>6, <3>1 DEF Paid
    <2>7. CASE ~cut /\ Risky(d) # {}
      <3>1. Awaited(d) # {}  BY <2>7 DEF Awaited, Risky
      <3>2. Cardinality(Awaited(d)) # 0  BY <3>1, CallsAreFinite, FS_EmptySet
      <3> QED BY <1>1, <2>2, <2>3, <2>4, <2>7, <3>2 DEF Paid
    <2> QED BY <2>5, <2>6, <2>7
  <1> QED BY <1>2, <1>3

LEMMA OnceKeeps == OnceInv /\ [DomainNext]_domainVars => OnceInv'
  <1> SUFFICES ASSUME OnceInv, [DomainNext]_domainVars  PROVE OnceInv'
    OBVIOUS
  <1>1. ASSUME NEW m \in Watcher,
               \/ CheckExpiry(m)
               \/ \E answers \in BOOLEAN : RegistryAnswers(m, answers)
               \/ NobodyToNotify(m)
        PROVE  OnceInv'
    BY <1>1, CheckKeepsOnce
  <1>2. ASSUME NEW m \in Watcher, NEW s \in Sender, SendNotifications(m, s)
        PROVE  OnceInv'
    BY <1>2, BeginKeepsOnce
  <1>3. ASSUME NEW s \in Sender, NEW accepted \in BOOLEAN, SendTarget(s, accepted)
        PROVE  OnceInv'
    BY <1>3, SendKeepsOnce
  <1>4. ASSUME NEW s \in Sender, StoreSent(s)  PROVE OnceInv'
    BY <1>4, StoreKeepsOnce
  <1>5. ASSUME NEW s \in Sender, SendEnds(s)  PROVE OnceInv'
    BY <1>5, EndKeepsOnce
  <1>7. CASE ServerRestarts  BY <1>7, RestartKeepsOnce
  <1>6. CASE Renew \/ NextDay \/ UNCHANGED domainVars
    <2>1. /\ UNCHANGED <<domainRow, checks, senders, announced, overlaps, outages>>
          /\ registry' \in [day : Int, renewed : Nat] /\ today' \in Int
      BY <1>6, DomainAssumption DEF Renew, NextDay, domainVars, OnceInv, DomainTypes
    <2>2. \A d \in NotifyDays : Paid(d)'
      BY <2>1, CallsUntouched DEF OnceInv, DomainTypes
    <2> QED BY <2>1, <2>2 DEF OnceInv, DomainTypes, KnownHasRow, AnnouncedNew
  <1> QED BY <1>1, <1>2, <1>3, <1>4, <1>5, <1>6, <1>7 DEF DomainNext

\* Whatever the watchers, the deadlines and the number of calls that can be under
\* way: a deadline is announced once, and once more at most for each pair of
\* calls of sendNotifications under way together and each message whose store
\* was refused or cut off by a restart (domain_expiry.js 258-297).
THEOREM DeadlinesOnce == DomainSpec => []DeadlineOnce
  <1>1. OnceInv => DeadlineOnce
    <2> SUFFICES ASSUME OnceInv, NEW d \in NotifyDays
                 PROVE  announced[d] <= 1 + overlaps + outages
      BY DEF DeadlineOnce
    <2>1. Cardinality(Awaited(d)) \in Nat  BY CallsAreFinite
    <2>2. Ready(d) \in {0, 1}  BY DEF Ready
    <2> QED BY <2>1, <2>2 DEF OnceInv, DomainTypes, Paid
  <1> QED BY <1>1, OnceBegins, OnceKeeps, PTL DEF DomainSpec

---------------------------------------------------------------------------
(* The settings cache: for how long and why an entry is stale.             *)

SettingsTypes ==
    /\ settingRow \in [Key -> {None} \cup [value : Json \cup {Raw}, type : SettingType]]
    /\ cacheList \in [Key -> {None} \cup CacheEntry]
    /\ cacheCleaner \in {None} \cup 0 .. Minute
    /\ cleanerKey \in {None} \cup Getter
    /\ gets \in [Getter -> {None} \cup GetCall]
    /\ sets \in [Setter -> {None} \cup SetCall]

\* Between two runs of the cleaner no entry grows older than two of its periods,
\* and its value was current within the latency of a query before it was cached.
EntriesAge ==
    \A k \in Key : cacheList[k] # None =>
        /\ cacheCleaner # None
        /\ cacheList[k].age <= 2 * Minute - cacheCleaner
        /\ cacheList[k].gone <= cacheList[k].age + Latency

\* The cleaner runs from the first get on, and a get ends within the latency.
GetsAge ==
    \A g \in Getter : gets[g] # None =>
        /\ cacheCleaner # None
        /\ gets[g].age <= Latency
        /\ gets[g].gone <= gets[g].age

\* The get whose parameter the cleaner assigns is under way.
CleanerHolds == cleanerKey # None => gets[cleanerKey] # None

\* A call of set finds and stores only the keys it was given.
SetsNameKeys ==
    \A s \in Setter : sets[s] # None =>
        /\ sets[s].toFind \subseteq DOMAIN sets[s].data
        /\ \A bean \in sets[s].toStore : bean.key \in DOMAIN sets[s].data

\* What is stale is excused.
Excused(k) ==
    \/ k \in spoilt
    \/ \E s \in Setter : sets[s] # None /\ k \in DOMAIN sets[s].data

StaleExcused ==
    \A k \in Key : cacheList[k] # None /\ cacheList[k].gone # StillStored => Excused(k)

StaleInv ==
    /\ SettingsTypes
    /\ EntriesAge
    /\ GetsAge
    /\ CleanerHolds
    /\ SetsNameKeys
    /\ StaleExcused

LEMMA StaleBegins == SettingsInit => StaleInv
  <1> SUFFICES ASSUME SettingsInit  PROVE StaleInv
    OBVIOUS
  <1> USE DEF SettingsInit
  <1>1. SettingsTypes
    <2>1. [value |-> Raw, type |-> "general"] \in [value : Json \cup {Raw}, type : SettingType]
      BY DEF SettingType
    <2> QED BY <2>1, SettingsAssumption DEF SettingsTypes
  <1>2. EntriesAge /\ GetsAge /\ CleanerHolds /\ SetsNameKeys /\ StaleExcused
    BY DEF EntriesAge, GetsAge, CleanerHolds, SetsNameKeys, StaleExcused
  <1> QED BY <1>1, <1>2 DEF StaleInv

\* A get that the cache answers, or that asks the database.
LEMMA GetBeginKeeps ==
    ASSUME StaleInv, NEW g \in Getter, NEW k \in Key, GetBegin(g, k)
    PROVE  StaleInv'
  <1> DEFINE call == [key |-> k, asked |-> k, value |-> None, gone |-> StillStored,
                      age |-> 0]
  <1> USE DEF StaleInv, SettingsTypes
  <1>1. /\ gets[g] = None
        /\ \/ cacheCleaner = None /\ cacheCleaner' = Minute /\ cleanerKey' = g
           \/ cacheCleaner # None /\ UNCHANGED <<cacheCleaner, cleanerKey>>
        /\ gets' = IF cacheList[k] # None THEN gets ELSE [gets EXCEPT ![g] = call]
        /\ UNCHANGED <<settingRow, cacheList, sets, spoilt, setsBegun>>
    BY DEF GetBegin
  <1>2. /\ call \in GetCall /\ call # None
        /\ call.age = 0 /\ call.gone <= 0
    <2>1. call \in GetCall  BY DEF GetCall, StillStored
    <2> QED BY <2>1, SettingsAssumption DEF StillStored
  <1> HIDE DEF call
  <1>3. Minute \in Nat /\ Minute # None /\ Latency \in Nat  BY SettingsAssumption
  <1>4. cacheCleaner' # None  BY <1>1, <1>3
  <1>5. SettingsTypes'
    <2>1. cacheCleaner' \in {None} \cup 0 .. Minute /\ cleanerKey' \in {None} \cup Getter
      BY <1>1, <1>3
    <2>2. gets' \in [Getter -> {None} \cup GetCall]  BY <1>1, <1>2
    <2> QED BY <1>1, <2>1, <2>2
  <1>6. EntriesAge'
    <2>1. (\E j \in Key : cacheList[j] # None) => UNCHANGED cacheCleaner
      BY <1>1 DEF EntriesAge
    <2> QED BY <1>1, <2>1 DEF EntriesAge
  <1>7. GetsAge'
    <2> SUFFICES ASSUME NEW h \in Getter, gets'[h] # None
                 PROVE  gets'[h].age <= Latency /\ gets'[h].gone <= gets'[h].age
      BY <1>4 DEF GetsAge
    <2>1. CASE h = g /\ cacheList[k] = None
      <3>1. gets'[h] = call  BY <1>1, <2>1
      <3> QED BY <1>2, <1>3, <3>1
    <2>2. CASE ~ (h = g /\ cacheList[k] = None)
      <3>1. gets'[h] = gets[h]  BY <1>1, <2>2
      <3> QED BY <3>1 DEF GetsAge
    <2> QED BY <2>1, <2>2
  <1>8. CleanerHolds'
    <2>1. CASE cacheCleaner = None
      <3>1. cacheList[k] = None  BY <2>1 DEF EntriesAge
      <3>2. cleanerKey' = g /\ gets'[g] = call  BY <1>1, <2>1, <3>1
      <3> QED BY <1>2, <3>2 DEF CleanerHolds
    <2>2. CASE cacheCleaner # None
      <3>1. \A h \in Getter : gets[h] # None => gets'[h] # None  BY <1>1, <1>2
      <3> QED BY <1>1, <2>2, <3>1 DEF CleanerHolds
    <2> QED BY <2>1, <2>2
  <1>9. SetsNameKeys' /\ StaleExcused'
    BY <1>1 DEF SetsNameKeys, StaleExcused, Excused
  <1> QED BY <1>5, <1>6, <1>7, <1>8, <1>9

LEMMA GetReadKeeps ==
    ASSUME StaleInv, NEW g \in Getter, GetRead(g)
    PROVE  StaleInv'
  <1> DEFINE call == gets[g]
             read == [call EXCEPT !.value = CellOf(call.asked)]
  <1> USE DEF StaleInv, SettingsTypes
  <1>1. /\ call # None /\ call \in GetCall
        /\ UNCHANGED <<settingRow, cacheList, cacheCleaner, cleanerKey, sets, spoilt,
                       setsBegun>>
    BY DEF GetRead
  <1>2. gets' = [gets EXCEPT ![g] = read]  BY <1>1 DEF GetRead, GetCall
  <1>3. /\ read \in GetCall /\ read # None
        /\ read.age = call.age /\ read.gone = call.gone
    <2>1. CellOf(call.asked) \in Json \cup {Raw}
      <3>1. call.asked \in Key  BY <1>1 DEF GetCall
      <3> QED BY <3>1, SettingsAssumption DEF CellOf
    <2>2. read \in GetCall /\ read.age = call.age /\ read.gone = call.gone
      BY <1>1, <2>1 DEF GetCall
    <2> QED BY <2>2, SettingsAssumption
  <1> HIDE DEF read
  <1>4. /\ gets'[g] = read
        /\ \A h \in Getter \ {g} : gets'[h] = gets[h]  BY <1>2
  <1>5. SettingsTypes'  BY <1>1, <1>2, <1>3
  <1>6. GetsAge'  BY <1>1, <1>3, <1>4 DEF GetsAge
  <1>7. CleanerHolds'  BY <1>1, <1>3, <1>4 DEF CleanerHolds
  <1>8. EntriesAge' /\ SetsNameKeys' /\ StaleExcused'
    BY <1>1 DEF EntriesAge, SetsNameKeys, StaleExcused, Excused
  <1> QED BY <1>5, <1>6, <1>7, <1>8

\* The value that fills the cache is as old as its query, and if a store has
\* overtaken the query the key is marked.
LEMMA GetFillKeeps ==
    ASSUME StaleInv, NEW g \in Getter, GetFill(g)
    PROVE  StaleInv'
  <1> DEFINE call == gets[g]
             entry == [value |-> call.value, age |-> 0, gone |-> call.gone]
  <1> USE DEF StaleInv, SettingsTypes
  <1>1. /\ call # None /\ call \in GetCall
        /\ gets' = [gets EXCEPT ![g] = None]
        /\ cleanerKey' = IF cleanerKey = g THEN None ELSE cleanerKey
        /\ UNCHANGED <<settingRow, cacheCleaner, sets, setsBegun>>
        /\ \/ UNCHANGED <<cacheList, spoilt>>
           \/ /\ call.value \in Json
              /\ cacheList' = [cacheList EXCEPT ![call.key] = entry]
              /\ spoilt' = IF call.gone # StillStored THEN spoilt \cup {call.key}
                           ELSE spoilt \ {call.key}
    BY DEF GetFill
  <1>2. /\ call.key \in Key /\ call.gone \in Int /\ call.age \in Nat
        /\ call.gone <= call.age /\ call.age <= Latency /\ cacheCleaner # None
        /\ cacheCleaner \in 0 .. Minute /\ Minute \in Nat /\ Latency \in Nat
    BY <1>1, SettingsAssumption DEF GetCall, GetsAge
  <1>3. /\ entry.age = 0 /\ entry.gone = call.gone
        /\ call.value \in Json => entry \in CacheEntry
    BY <1>2 DEF CacheEntry
  <1> HIDE DEF entry
  <1>4. SettingsTypes'  BY <1>1, <1>2, <1>3
  <1>5. GetsAge'  BY <1>1 DEF GetsAge
  <1>6. CleanerHolds'  BY <1>1 DEF CleanerHolds
  <1>7. SetsNameKeys'  BY <1>1 DEF SetsNameKeys
  <1>8. EntriesAge' /\ StaleExcused'
    <2>1. CASE UNCHANGED <<cacheList, spoilt>>
      BY <1>1, <2>1 DEF EntriesAge, StaleExcused, Excused
    <2>2. CASE /\ cacheList' = [cacheList EXCEPT ![call.key] = entry]
               /\ spoilt' = IF call.gone # StillStored THEN spoilt \cup {call.key}
                            ELSE spoilt \ {call.key}
      <3>1. /\ cacheList'[call.key] = entry
            /\ \A k \in Key \ {call.key} : cacheList'[k] = cacheList[k]  BY <1>2, <2>2
      <3>2. entry.age <= 2 * Minute - cacheCleaner /\ entry.gone <= entry.age + Latency
        BY <1>2, <1>3
      <3>3. EntriesAge'  BY <1>1, <1>2, <3>1, <3>2 DEF EntriesAge
      <3>4. StaleExcused'
        <4> SUFFICES ASSUME NEW k \in Key, cacheList'[k] # None,
                            cacheList'[k].gone # StillStored
                     PROVE  Excused(k)'
          BY DEF StaleExcused
        <4>1. CASE k = call.key  BY <1>3, <2>2, <3>1, <4>1 DEF Excused
        <4>2. CASE k # call.key
          BY <1>1, <2>2, <3>1, <4>2 DEF Excused, StaleExcused
        <4> QED BY <4>1, <4>2
      <3> QED BY <3>3, <3>4
    <2> QED BY <1>1, <2>1, <2>2
  <1> QED BY <1>4, <1>5, <1>6, <1>7, <1>8

\* A call of set that goes on with the data it has disturbs nothing else.
LEMMA CallKeeps ==
    ASSUME StaleInv, NEW s \in Setter, NEW call \in SetCall,
           sets' = [sets EXCEPT ![s] = call],
           sets[s] # None => call.data = sets[s].data,
           call.toFind \subseteq DOMAIN call.data,
           \A bean \in call.toStore : bean.key \in DOMAIN call.data,
           UNCHANGED <<settingRow, cacheList, cacheCleaner, cleanerKey, gets, spoilt>>
    PROVE  StaleInv'
  <1> USE DEF StaleInv, SettingsTypes
  <1>1. SettingsTypes'  OBVIOUS
  <1>2. EntriesAge' /\ GetsAge' /\ CleanerHolds'
    BY DEF EntriesAge, GetsAge, CleanerHolds
  <1>3. /\ sets'[s] = call /\ call # None
        /\ \A t \in Setter \ {s} : sets'[t] = sets[t]
    BY SettingsAssumption
  <1>4. SetsNameKeys'  BY <1>3 DEF SetsNameKeys
  <1>5. StaleExcused'
    <2> SUFFICES ASSUME NEW k \in Key, Excused(k)  PROVE Excused(k)'
      BY DEF StaleExcused
    <2>1. CASE k \in spoilt  BY <2>1 DEF Excused
    <2>2. ASSUME NEW t \in Setter, sets[t] # None, k \in DOMAIN sets[t].data
          PROVE  sets'[t] # None /\ k \in DOMAIN sets'[t].data
      BY <1>3, <2>2
    <2> QED BY <2>1, <2>2 DEF Excused
  <1> QED BY <1>1, <1>2, <1>4, <1>5

LEMMA SetBeginKeeps ==
    ASSUME StaleInv, NEW s \in Setter, NEW many \in BOOLEAN,
           NEW keys \in SUBSET Key, NEW data \in [keys -> Json],
           SetBegin(s, many, data)
    PROVE  StaleInv'
  <1> DEFINE call == [many |-> many, data |-> data, toFind |-> DOMAIN data,
                      toStore |-> {}, failed |-> FALSE]
  <1>1. /\ sets[s] = None
        /\ sets' = [sets EXCEPT ![s] = call]
        /\ UNCHANGED <<settingRow, cacheList, cacheCleaner, cleanerKey, gets, spoilt>>
    BY DEF SetBegin
  <1>2. call \in SetCall
    <2>1. data \in UNION {[some -> Json] : some \in SUBSET Key}  OBVIOUS
    <2>2. DOMAIN data = keys  OBVIOUS
    <2> QED BY <2>1, <2>2 DEF SetCall
  <1>3. call.data = data /\ call.toFind = DOMAIN data /\ call.toStore = {}  OBVIOUS
  <1> HIDE DEF call
  <1>4. call.toFind \subseteq DOMAIN call.data
        /\ \A bean \in call.toStore : bean.key \in DOMAIN call.data  BY <1>3
  <1> QED BY <1>1, <1>2, <1>4, CallKeeps

\* What a call that is under way looks like.
LEMMA CallOf ==
    ASSUME StaleInv, NEW s \in Setter, sets[s] # None
    PROVE  /\ sets[s] \in SetCall
           /\ sets[s].data \in [DOMAIN sets[s].data -> Json]
           /\ DOMAIN sets[s].data \subseteq Key
           /\ sets[s].toFind \subseteq DOMAIN sets[s].data
           /\ sets[s].toStore \subseteq SettingBean
           /\ \A bean \in sets[s].toStore : bean.key \in DOMAIN sets[s].data
  <1>1. sets[s] \in SetCall  BY DEF StaleInv, SettingsTypes
  <1>2. /\ sets[s].data \in UNION {[keys -> Json] : keys \in SUBSET Key}
        /\ sets[s].toStore \subseteq SettingBean
    BY <1>1 DEF SetCall
  <1>3. PICK keys \in SUBSET Key : sets[s].data \in [keys -> Json]  BY <1>2
  <1>4. DOMAIN sets[s].data = keys  BY <1>3
  <1> QED BY <1>1, <1>2, <1>3, <1>4 DEF StaleInv, SetsNameKeys

LEMMA SetFindKeeps ==
    ASSUME StaleInv, NEW s \in Setter, NEW k \in Key, SetFind(s, k)
    PROVE  StaleInv'
  <1> DEFINE call == sets[s]
             isNew == settingRow[k] = None
             type == IF call.many THEN "general" ELSE "none"
             bean == [key |-> k, new |-> isNew, value |-> call.data[k], type |-> type]
             skipped == call.many /\ settingRow[k] # None /\ settingRow[k].type # type
             toFind == call.toFind \ {k}
             toStore == IF skipped THEN call.toStore ELSE call.toStore \cup {bean}
             found == [call EXCEPT !.toFind = toFind, !.toStore = toStore]
  <1>1. /\ call # None /\ k \in call.toFind
        /\ UNCHANGED <<settingRow, cacheList, cacheCleaner, cleanerKey, gets, spoilt>>
    BY DEF SetFind
  <1>2. /\ call \in SetCall
        /\ call.data \in [DOMAIN call.data -> Json]
        /\ DOMAIN call.data \subseteq Key
        /\ call.toFind \subseteq DOMAIN call.data
        /\ call.toStore \subseteq SettingBean
        /\ \A one \in call.toStore : one.key \in DOMAIN call.data
    BY <1>1, CallOf
  <1>3. sets' = [sets EXCEPT ![s] = found]  BY <1>1, <1>2 DEF SetFind, SetCall
  <1>4. bean \in SettingBean /\ bean.key = k
    <2>1. isNew \in BOOLEAN /\ type \in SettingType  BY DEF SettingType
    <2>2. call.data[k] \in Json  BY <1>1, <1>2
    <2> HIDE DEF isNew, type
    <2> QED BY <2>1, <2>2 DEF SettingBean
  <1> HIDE DEF bean, skipped
  <1>5. /\ toFind \subseteq Key /\ toFind \subseteq DOMAIN call.data
        /\ toStore \subseteq SettingBean
        /\ \A one \in toStore : one.key \in DOMAIN call.data
    BY <1>1, <1>2, <1>4
  <1> HIDE DEF toFind, toStore
  <1>6. found \in SetCall /\ found.data = call.data
        /\ found.toFind = toFind /\ found.toStore = toStore
    BY <1>2, <1>5 DEF SetCall
  <1> HIDE DEF found
  <1> QED BY <1>1, <1>3, <1>5, <1>6, CallKeeps

LEMMA StoreFailsKeeps ==
    ASSUME StaleInv, NEW s \in Setter, sets[s] # None, NEW bean \in sets[s].toStore,
           StoreFails(s, bean)
    PROVE  StaleInv'
  <1> DEFINE call == sets[s]
             toStore == call.toStore \ {bean}
             left == [call EXCEPT !.toStore = toStore, !.failed = TRUE]
  <1>1. UNCHANGED <<settingRow, cacheList, cacheCleaner, cleanerKey, gets, spoilt>>
    BY DEF StoreFails
  <1>2. /\ call \in SetCall
        /\ call.toFind \subseteq DOMAIN call.data
        /\ call.toStore \subseteq SettingBean
        /\ \A one \in call.toStore : one.key \in DOMAIN call.data
    BY CallOf
  <1>3. sets' = [sets EXCEPT ![s] = left]  BY <1>2 DEF StoreFails, SetCall
  <1>4. /\ toStore \subseteq SettingBean
        /\ \A one \in toStore : one.key \in DOMAIN call.data  BY <1>2
  <1> HIDE DEF toStore
  <1>5. left \in SetCall /\ left.data = call.data
        /\ left.toFind = call.toFind /\ left.toStore = toStore
    BY <1>2, <1>4 DEF SetCall
  <1> HIDE DEF left
  <1> QED BY <1>1, <1>2, <1>3, <1>4, <1>5, CallKeeps

\* A call whose query fails goes on with the stores it has begun.
LEMMA SetFindFailsKeeps ==
    ASSUME StaleInv, NEW s \in Setter, SetFindFails(s)
    PROVE  StaleInv'
  <1> DEFINE call == sets[s]
             left == [call EXCEPT !.toFind = {}, !.failed = TRUE]
  <1>1. /\ call # None
        /\ UNCHANGED <<settingRow, cacheList, cacheCleaner, cleanerKey, gets, spoilt>>
    BY DEF SetFindFails
  <1>2. /\ call \in SetCall
        /\ call.toStore \subseteq SettingBean
        /\ \A one \in call.toStore : one.key \in DOMAIN call.data
    BY <1>1, CallOf
  <1>3. sets' = [sets EXCEPT ![s] = left]  BY <1>2 DEF SetFindFails, SetCall
  <1>4. left \in SetCall /\ left.data = call.data
        /\ left.toFind = {} /\ left.toStore = call.toStore
    BY <1>2 DEF SetCall
  <1> HIDE DEF left
  <1>5. left.toFind \subseteq DOMAIN left.data  BY <1>4
  <1> QED BY <1>1, <1>2, <1>3, <1>4, <1>5, CallKeeps

\* A store changes for how long a copy has been stale, and only under its key.
LEMMA JudgedIs ==
    ASSUME NEW copy, copy \in CacheEntry \/ copy \in GetCall,
           NEW k, NEW at, NEW value
    PROVE  LET judged == Judged(copy, k, at, value)
           IN /\ copy \in CacheEntry => judged \in CacheEntry
              /\ copy \in GetCall => judged \in GetCall
              /\ judged # None
              /\ judged.age = copy.age
              /\ judged.gone = copy.gone \/ judged.gone \in {StillStored, 0}
              /\ at # k => judged = copy
  <1> DEFINE gone == IF copy.value = value THEN StillStored
                     ELSE IF copy.gone = StillStored THEN 0 ELSE copy.gone
             changed == [copy EXCEPT !.gone = gone]
             judged == Judged(copy, k, at, value)
  <1>1. judged = copy \/ (judged = changed /\ at = k)
    <2>1. CASE copy = None \/ at # k \/ copy.value = None  BY <2>1 DEF Judged
    <2>2. CASE ~ (copy = None \/ at # k \/ copy.value = None)
      <3>1. judged = changed  BY <2>2, Zenon DEF Judged
      <3> QED BY <2>2, <3>1
    <2> QED BY <2>1, <2>2
  <1>2. copy.gone \in Int /\ gone \in Int
        /\ (gone = copy.gone \/ gone \in {StillStored, 0})
    BY DEF CacheEntry, GetCall, StillStored
  <1> HIDE DEF gone
  <1>6. copy \in CacheEntry => /\ changed \in CacheEntry
                               /\ changed.age = copy.age /\ changed.gone = gone
    BY <1>2 DEF CacheEntry
  <1>7. copy \in GetCall => /\ changed \in GetCall
                            /\ changed.age = copy.age /\ changed.gone = gone
    BY <1>2 DEF GetCall
  <1> HIDE DEF changed, judged
  <1>4. judged # None  BY <1>1, <1>6, <1>7, SettingsAssumption
  <1> QED BY <1>1, <1>2, <1>6, <1>7, <1>4 DEF judged

\* The entries of the key that is stored may be stale now: the call that stored
\* it is still under way.
LEMMA StoreDoneKeeps ==
    ASSUME StaleInv, NEW s \in Setter, sets[s] # None, NEW bean \in sets[s].toStore,
           StoreDone(s, bean)
    PROVE  StaleInv'
  <1> DEFINE call == sets[s]
             toStore == call.toStore \ {bean}
             left == [call EXCEPT !.toStore = toStore]
  <1> USE DEF StaleInv, SettingsTypes
  <1>1. /\ settingRow' = [settingRow EXCEPT ![bean.key] =
                            [value |-> bean.value, type |-> bean.type]]
        /\ cacheList' = [k \in Key |-> Judged(cacheList[k], k, bean.key, bean.value)]
        /\ gets' = [g \in Getter |-> IF gets[g] = None THEN None ELSE
                      Judged(gets[g], gets[g].asked, bean.key, bean.value)]
        /\ UNCHANGED <<cacheCleaner, cleanerKey, spoilt>>
    BY DEF StoreDone
  <1>2. /\ call \in SetCall
        /\ call.toFind \subseteq DOMAIN call.data
        /\ call.toStore \subseteq SettingBean
        /\ \A one \in call.toStore : one.key \in DOMAIN call.data
    BY CallOf
  <1>3. sets' = [sets EXCEPT ![s] = left]  BY <1>2 DEF StoreDone, SetCall
  <1>4. /\ toStore \subseteq SettingBean
        /\ \A one \in toStore : one.key \in DOMAIN call.data  BY <1>2
  <1> HIDE DEF toStore
  <1>5. /\ left \in SetCall /\ left.data = call.data
        /\ left.toFind = call.toFind /\ left.toStore = toStore
    BY <1>2, <1>4 DEF SetCall
  <1>6. left # None  BY <1>5, SettingsAssumption
  <1> HIDE DEF left
  <1>7. /\ sets'[s] = left /\ \A t \in Setter \ {s} : sets'[t] = sets[t]  BY <1>3
  <1>8. /\ bean.key \in Key /\ bean.key \in DOMAIN call.data
        /\ bean.value \in Json /\ bean.type \in SettingType
    BY <1>2 DEF SettingBean
  <1>9. \A k \in Key :
           /\ cacheList[k] = None => cacheList'[k] = None
           /\ cacheList[k] # None =>
                 /\ cacheList'[k] \in CacheEntry
                 /\ cacheList'[k].age = cacheList[k].age
                 /\ \/ cacheList'[k].gone = cacheList[k].gone
                    \/ cacheList'[k].gone \in {StillStored, 0}
                 /\ k # bean.key => cacheList'[k] = cacheList[k]
    <2> SUFFICES ASSUME NEW k \in Key
                 PROVE  /\ cacheList[k] = None => cacheList'[k] = None
                        /\ cacheList[k] # None =>
                              /\ cacheList'[k] \in CacheEntry
                              /\ cacheList'[k].age = cacheList[k].age
                              /\ \/ cacheList'[k].gone = cacheList[k].gone
                                 \/ cacheList'[k].gone \in {StillStored, 0}
                              /\ k # bean.key => cacheList'[k] = cacheList[k]
      OBVIOUS
    <2>1. cacheList'[k] = Judged(cacheList[k], k, bean.key, bean.value)  BY <1>1
    <2>2. CASE cacheList[k] = None  BY <2>1, <2>2 DEF Judged
    <2>3. CASE cacheList[k] # None
      <3>1. cacheList[k] \in CacheEntry  BY <2>3
      <3> QED BY <2>1, <2>3, <3>1, JudgedIs
    <2> QED BY <2>2, <2>3
  <1>10. \A g \in Getter :
           /\ gets[g] = None => gets'[g] = None
           /\ gets[g] # None =>
                 /\ gets'[g] \in GetCall /\ gets'[g] # None
                 /\ gets'[g].age = gets[g].age
                 /\ \/ gets'[g].gone = gets[g].gone
                    \/ gets'[g].gone \in {StillStored, 0}
    BY <1>1, JudgedIs
  <1>11. SettingsTypes'
    <2>1. settingRow' \in [Key -> {None} \cup [value : Json \cup {Raw}, type : SettingType]]
      BY <1>1, <1>8
    <2>2. cacheList' \in [Key -> {None} \cup CacheEntry]  BY <1>1, <1>9
    <2>3. gets' \in [Getter -> {None} \cup GetCall]  BY <1>1, <1>10
    <2> QED BY <1>1, <1>3, <1>5, <2>1, <2>2, <2>3
  <1>12. EntriesAge'
    <2> SUFFICES ASSUME NEW k \in Key, cacheList'[k] # None
                 PROVE  /\ cacheCleaner # None
                        /\ cacheList'[k].age <= 2 * Minute - cacheCleaner
                        /\ cacheList'[k].gone <= cacheList'[k].age + Latency
      BY <1>1 DEF EntriesAge
    <2>1. cacheList[k] # None /\ cacheList[k] \in CacheEntry  BY <1>9
    <2>2. cacheList[k].age \in Nat /\ Latency \in Nat  BY <2>1, SettingsAssumption DEF CacheEntry
    <2> QED BY <1>9, <2>1, <2>2 DEF EntriesAge, StillStored
  <1>13. GetsAge'
    <2> SUFFICES ASSUME NEW g \in Getter, gets'[g] # None
                 PROVE  /\ cacheCleaner # None
                        /\ gets'[g].age <= Latency
                        /\ gets'[g].gone <= gets'[g].age
      BY <1>1 DEF GetsAge
    <2>1. gets[g] # None /\ gets[g].age \in Nat  BY <1>10 DEF GetCall
    <2> QED BY <1>10, <2>1 DEF GetsAge, StillStored
  <1>14. CleanerHolds'  BY <1>1, <1>10 DEF CleanerHolds
  <1>15. SetsNameKeys'  BY <1>2, <1>4, <1>5, <1>7 DEF SetsNameKeys
  <1>16. StaleExcused'
    <2> SUFFICES ASSUME NEW k \in Key, cacheList'[k] # None,
                        cacheList'[k].gone # StillStored
                 PROVE  Excused(k)'
      BY DEF StaleExcused
    <2>1. CASE k = bean.key  BY <1>5, <1>6, <1>7, <1>8, <2>1 DEF Excused
    <2>2. CASE k # bean.key
      <3>1. Excused(k)  BY <1>9, <2>2 DEF StaleExcused
      <3>2. CASE k \in spoilt  BY <1>1, <3>2 DEF Excused
      <3>3. ASSUME NEW t \in Setter, sets[t] # None, k \in DOMAIN sets[t].data
            PROVE  sets'[t] # None /\ k \in DOMAIN sets'[t].data
        BY <1>5, <1>6, <1>7, <3>3
      <3> QED BY <3>1, <3>2, <3>3 DEF Excused
    <2> QED BY <2>1, <2>2
  <1> QED BY <1>11, <1>12, <1>13, <1>14, <1>15, <1>16

\* A call that ends takes its entries with it, or leaves their keys marked.
LEMMA SetEndKeeps ==
    ASSUME StaleInv, NEW s \in Setter, SetEnd(s)
    PROVE  StaleInv'
  <1> DEFINE call == sets[s]
             keyList == DOMAIN call.data
  <1> USE DEF StaleInv, SettingsTypes
  <1>1. /\ call # None
        /\ \/ UNCHANGED cacheList /\ spoilt' = spoilt \cup keyList
           \/ /\ cacheList' = [k \in Key |-> IF k \in keyList THEN None ELSE cacheList[k]]
              /\ spoilt' = spoilt \ keyList
        /\ sets' = [sets EXCEPT ![s] = None]
        /\ UNCHANGED <<settingRow, cacheCleaner, cleanerKey, gets>>
    BY DEF SetEnd, DeleteCache
  <1>2. \A k \in Key : cacheList'[k] # None => cacheList'[k] = cacheList[k]
    BY <1>1
  <1>3. SettingsTypes'
    <2>1. cacheList' \in [Key -> {None} \cup CacheEntry]  BY <1>1
    <2> QED BY <1>1, <2>1
  <1>4. EntriesAge' /\ GetsAge' /\ CleanerHolds'
    BY <1>1, <1>2 DEF EntriesAge, GetsAge, CleanerHolds
  <1>5. SetsNameKeys'  BY <1>1 DEF SetsNameKeys
  <1>6. StaleExcused'
    <2> SUFFICES ASSUME NEW k \in Key, cacheList'[k] # None,
                        cacheList'[k].gone # StillStored
                 PROVE  Excused(k)'
      BY DEF StaleExcused
    <2>1. Excused(k)  BY <1>2 DEF StaleExcused
    <2>2. CASE k \in keyList  BY <1>1, <2>2 DEF Excused
    <2>3. CASE k \notin keyList
      <3>1. CASE k \in spoilt  BY <1>1, <2>3, <3>1 DEF Excused
      <3>2. ASSUME NEW t \in Setter, sets[t] # None, k \in DOMAIN sets[t].data
            PROVE  sets'[t] # None /\ k \in DOMAIN sets'[t].data
        BY <1>1, <2>3, <3>2
      <3> QED BY <2>1, <3>1, <3>2 DEF Excused
    <2> QED BY <2>2, <2>3
  <1> QED BY <1>3, <1>4, <1>5, <1>6

\* The cleaner leaves entries of one period at most, and starts the next.
LEMMA CleanerKeeps ==
    ASSUME StaleInv, CleanerRuns
    PROVE  StaleInv'
  <1> USE DEF StaleInv, SettingsTypes
  <1>1. /\ cacheCleaner = 0 /\ cacheCleaner' = Minute
        /\ cacheList' = [k \in Key |-> IF Expired(k) THEN None ELSE cacheList[k]]
        /\ spoilt' = {k \in spoilt : ~ Expired(k)}
        /\ UNCHANGED <<settingRow, cleanerKey, sets>>
    BY DEF CleanerRuns
  <1>2. Minute \in Nat /\ Minute # None /\ Latency \in Nat  BY SettingsAssumption
  <1>3. \/ gets' = gets
        \/ /\ cleanerKey # None
           /\ \E k \in Key : gets' = [gets EXCEPT ![cleanerKey] = [gets[cleanerKey] EXCEPT !.key = k]]
    BY DEF CleanerRuns
  <1>4. \A k \in Key : cacheList'[k] # None =>
           /\ cacheList'[k] = cacheList[k] /\ cacheList[k].age <= Minute
           /\ cacheList[k].age \in Nat /\ ~ Expired(k)
    <2> SUFFICES ASSUME NEW k \in Key, cacheList'[k] # None
                 PROVE  /\ cacheList'[k] = cacheList[k] /\ cacheList[k].age <= Minute
                        /\ cacheList[k].age \in Nat /\ ~ Expired(k)
      OBVIOUS
    <2>1. ~ Expired(k) /\ cacheList'[k] = cacheList[k]  BY <1>1
    <2>2. cacheList[k] \in CacheEntry  BY <2>1
    <2> QED BY <1>2, <2>1, <2>2 DEF Expired, CacheEntry
  <1> DEFINE Kept ==
               \A g \in Getter :
                  /\ gets[g] = None <=> gets'[g] = None
                  /\ gets'[g] \in {None} \cup GetCall
                  /\ gets'[g] # None => /\ gets'[g].age = gets[g].age
                                        /\ gets'[g].gone = gets[g].gone
  <1>5. Kept
    <2>1. CASE gets' = gets  BY <2>1
    <2>2. ASSUME NEW k \in Key, cleanerKey # None,
                 gets' = [gets EXCEPT ![cleanerKey] = [gets[cleanerKey] EXCEPT !.key = k]]
          PROVE  Kept
      <3> DEFINE moved == [gets[cleanerKey] EXCEPT !.key = k]
      <3>1. cleanerKey \in Getter /\ gets[cleanerKey] # None /\ gets[cleanerKey] \in GetCall
        BY <2>2 DEF CleanerHolds
      <3>2. /\ moved \in GetCall /\ moved.age = gets[cleanerKey].age
            /\ moved.gone = gets[cleanerKey].gone
        BY <3>1 DEF GetCall
      <3>3. moved # None  BY <3>2, SettingsAssumption
      <3> HIDE DEF moved
      <3>4. /\ gets'[cleanerKey] = moved
            /\ \A g \in Getter \ {cleanerKey} : gets'[g] = gets[g]
        BY <2>2, <3>1 DEF moved
      <3> QED BY <3>1, <3>2, <3>3, <3>4
    <2> QED BY <1>3, <2>1, <2>2
  <1>6. SettingsTypes'
    <2>1. cacheList' \in [Key -> {None} \cup CacheEntry]  BY <1>1
    <2>2. gets' \in [Getter -> {None} \cup GetCall]
      <3>1. gets' = [g \in Getter |-> gets'[g]]  BY <1>3
      <3> QED BY <1>5, <3>1
    <2> QED BY <1>1, <1>2, <2>1, <2>2
  <1>7. EntriesAge'
    <2>1. \A k \in Key : cacheList'[k] # None => cacheList[k].age <= 2 * Minute - Minute
      BY <1>2, <1>4
    <2> QED BY <1>1, <1>2, <1>4, <2>1 DEF EntriesAge
  <1>8. GetsAge' /\ CleanerHolds'
    <2>1. GetsAge'  BY <1>1, <1>2, <1>5 DEF GetsAge
    <2>2. CleanerHolds'  BY <1>1, <1>5 DEF CleanerHolds
    <2> QED BY <2>1, <2>2
  <1>9. SetsNameKeys'  BY <1>1 DEF SetsNameKeys
  <1>10. StaleExcused'  BY <1>1, <1>4 DEF StaleExcused, Excused
  <1> QED BY <1>6, <1>7, <1>8, <1>9, <1>10

\* What a tick makes of a copy.
LEMMA OlderIs ==
    ASSUME NEW copy, copy \in CacheEntry \/ copy \in GetCall
    PROVE  LET older == Older(copy)
           IN /\ copy \in CacheEntry => older \in CacheEntry
              /\ copy \in GetCall => older \in GetCall
              /\ older # None
              /\ copy.age \in Nat /\ copy.gone \in Int
              /\ older.age = copy.age + 1
              /\ older.gone = IF copy.gone = StillStored THEN StillStored
                              ELSE copy.gone + 1
  <1> DEFINE gone == IF copy.gone = StillStored THEN copy.gone ELSE copy.gone + 1
             age == copy.age + 1
             aged == [copy EXCEPT !.age = age, !.gone = gone]
  <1>1. copy # None  BY SettingsAssumption
  <1>2. Older(copy) = aged  BY <1>1 DEF Older, CacheEntry, GetCall
  <1>3. copy.age \in Nat /\ copy.gone \in Int /\ gone \in Int /\ age \in Nat
    BY DEF CacheEntry, GetCall
  <1> HIDE DEF gone, age
  <1>6. copy \in CacheEntry => /\ aged \in CacheEntry
                               /\ aged.age = age /\ aged.gone = gone
    BY <1>3 DEF CacheEntry
  <1>7. copy \in GetCall => /\ aged \in GetCall
                            /\ aged.age = age /\ aged.gone = gone
    BY <1>3 DEF GetCall
  <1> HIDE DEF aged
  <1>5. aged # None  BY <1>6, <1>7, SettingsAssumption
  <1> QED BY <1>2, <1>3, <1>6, <1>7, <1>5 DEF gone, age

LEMMA TickKeeps ==
    ASSUME StaleInv, SettingsTick
    PROVE  StaleInv'
  <1> USE DEF StaleInv, SettingsTypes
  <1>1. /\ cacheCleaner # 0 /\ cacheCleaner # None
        /\ \A g \in Getter : gets[g] # None => gets[g].age < Latency
        /\ cacheCleaner' = cacheCleaner - 1
        /\ cacheList' = [k \in Key |-> Older(cacheList[k])]
        /\ gets' = [g \in Getter |-> Older(gets[g])]
        /\ UNCHANGED <<settingRow, cleanerKey, sets, spoilt>>
    BY DEF SettingsTick
  <1>2. /\ Minute \in Nat /\ Latency \in Nat /\ cacheCleaner \in 1 .. Minute
        /\ cacheCleaner' \in 0 .. Minute /\ cacheCleaner' # None
    BY <1>1, SettingsAssumption
  <1>3. \A k \in Key :
           /\ cacheList[k] = None => cacheList'[k] = None
           /\ cacheList[k] # None =>
                 /\ cacheList'[k] \in CacheEntry
                 /\ cacheList[k].age \in Nat /\ cacheList[k].gone \in Int
                 /\ cacheList'[k].age = cacheList[k].age + 1
                 /\ cacheList'[k].gone = IF cacheList[k].gone = StillStored
                                         THEN StillStored ELSE cacheList[k].gone + 1
    BY <1>1, OlderIs DEF Older
  <1>4. \A g \in Getter :
           /\ gets[g] = None => gets'[g] = None
           /\ gets[g] # None =>
                 /\ gets'[g] \in GetCall /\ gets'[g] # None
                 /\ gets[g].age \in Nat /\ gets[g].gone \in Int
                 /\ gets'[g].age = gets[g].age + 1
                 /\ gets'[g].gone = IF gets[g].gone = StillStored
                                    THEN StillStored ELSE gets[g].gone + 1
    BY <1>1, OlderIs DEF Older
  <1>5. SettingsTypes'
    <2>1. cacheList' \in [Key -> {None} \cup CacheEntry]  BY <1>1, <1>3
    <2>2. gets' \in [Getter -> {None} \cup GetCall]  BY <1>1, <1>4
    <2> QED BY <1>1, <1>2, <2>1, <2>2
  <1>6. EntriesAge'
    <2> SUFFICES ASSUME NEW k \in Key, cacheList'[k] # None
                 PROVE  /\ cacheList'[k].age <= 2 * Minute - cacheCleaner'
                        /\ cacheList'[k].gone <= cacheList'[k].age + Latency
      BY <1>2 DEF EntriesAge
    <2>1. cacheList[k] # None  BY <1>3
    <2> QED BY <1>1, <1>2, <1>3, <2>1 DEF EntriesAge, StillStored
  <1>7. GetsAge'
    <2> SUFFICES ASSUME NEW g \in Getter, gets'[g] # None
                 PROVE  gets'[g].age <= Latency /\ gets'[g].gone <= gets'[g].age
      BY <1>2 DEF GetsAge
    <2>1. gets[g] # None  BY <1>4
    <2> QED BY <1>1, <1>2, <1>4, <2>1 DEF GetsAge, StillStored
  <1>8. CleanerHolds'  BY <1>1, <1>4 DEF CleanerHolds
  <1>9. SetsNameKeys'  BY <1>1 DEF SetsNameKeys
  <1>10. StaleExcused'
    <2> SUFFICES ASSUME NEW k \in Key, cacheList'[k] # None,
                        cacheList'[k].gone # StillStored
                 PROVE  Excused(k)'
      BY DEF StaleExcused
    <2>1. Excused(k)  BY <1>3 DEF StaleExcused
    <2> QED BY <1>1, <2>1 DEF Excused
  <1> QED BY <1>5, <1>6, <1>7, <1>8, <1>9, <1>10

LEMMA StaleKeeps == StaleInv /\ [SettingsNext]_settingsVars => StaleInv'
  <1> SUFFICES ASSUME StaleInv, [SettingsNext]_settingsVars  PROVE StaleInv'
    OBVIOUS
  <1>1. ASSUME NEW g \in Getter, NEW k \in Key, GetBegin(g, k)  PROVE StaleInv'
    BY <1>1, GetBeginKeeps
  <1>2. ASSUME NEW g \in Getter, GetRead(g)  PROVE StaleInv'
    BY <1>2, GetReadKeeps
  <1>3. ASSUME NEW g \in Getter, GetFill(g)  PROVE StaleInv'
    BY <1>3, GetFillKeeps
  <1>4. ASSUME NEW s \in Setter, NEW many \in BOOLEAN, NEW keys \in SUBSET Key,
               NEW data \in [keys -> Json], SetBegin(s, many, data)
        PROVE  StaleInv'
    BY <1>4, SetBeginKeeps
  <1>5. ASSUME NEW s \in Setter, NEW k \in Key, SetFind(s, k)  PROVE StaleInv'
    BY <1>5, SetFindKeeps
  <1>6. ASSUME NEW s \in Setter, sets[s] # None, NEW bean \in sets[s].toStore,
               StoreDone(s, bean) \/ StoreFails(s, bean)
        PROVE  StaleInv'
    BY <1>6, StoreDoneKeeps, StoreFailsKeeps
  <1>7. ASSUME NEW s \in Setter, SetEnd(s) \/ SetFindFails(s)  PROVE StaleInv'
    BY <1>7, SetEndKeeps, SetFindFailsKeeps
  <1>8. CASE CleanerRuns  BY <1>8, CleanerKeeps
  <1>9. CASE SettingsTick  BY <1>9, TickKeeps
  <1>10. CASE UNCHANGED settingsVars
    BY <1>10 DEF settingsVars, StaleInv, SettingsTypes, EntriesAge, GetsAge,
       CleanerHolds, SetsNameKeys, StaleExcused, Excused
  <1> QED BY <1>1, <1>2, <1>3, <1>4, <1>5, <1>6, <1>7, <1>8, <1>9, <1>10 DEF SettingsNext

\* Whatever the settings, the calls under way, the period of the cleaner and the
\* latency of a query: an entry of the cache is stale for two periods and one
\* query at most, and only under a key that a set is storing, a set that failed
\* left behind or a slow get overwrote (settings.js 49-57, 81, 119-135).
THEOREM StaleEntriesAreBrief == SettingsSpec => []StaleBriefly
  <1>1. StaleInv => StaleBriefly
    <2> SUFFICES ASSUME StaleInv, NEW k \in Key, cacheList[k] # None,
                        cacheList[k].gone # StillStored
                 PROVE  cacheList[k].gone <= 2 * Minute + Latency /\ Excused(k)
      BY DEF StaleBriefly, Excused
    <2>1. /\ cacheList[k] \in CacheEntry /\ cacheCleaner \in 0 .. Minute
          /\ cacheList[k].age <= 2 * Minute - cacheCleaner
          /\ cacheList[k].gone <= cacheList[k].age + Latency
      BY DEF StaleInv, SettingsTypes, EntriesAge
    <2>2. cacheList[k].age \in Nat /\ cacheList[k].gone \in Int
          /\ Minute \in Nat /\ Latency \in Nat
      BY <2>1, SettingsAssumption DEF CacheEntry
    <2>3. Excused(k)  BY DEF StaleInv, StaleExcused
    <2> QED BY <2>1, <2>2, <2>3
  <1> QED BY <1>1, StaleBegins, StaleKeeps, PTL DEF SettingsSpec

---------------------------------------------------------------------------
(* The gauges of the bridge: none stays down when the alerts stop.          *)

Gauge == {Unseen, 0, 1}

Timer == [key : AlertKey, left : 0 .. HalfHour]

GaugesOK ==
    /\ alertState \in [AlertKey -> Gauge]
    /\ prefixHealth \in [Prefix -> Gauge]
    /\ timers \subseteq Timer

\* What is active has a timer, and what is unhealthy an alert that is active.
Timed == \A k \in AlertKey : alertState[k] = 1 => \E timer \in timers : timer.key = k

Reasons == \A p \in Prefix : prefixHealth[p] = 0 =>
              \E t \in AlertType : alertState[<<t, p>>] = 1

BridgeInv == GaugesOK /\ Timed /\ Reasons

LEMMA BridgeBegins == BridgeInit => BridgeInv
  BY BridgeAssumption DEF BridgeInit, BridgeInv, GaugesOK, Timed, Reasons, Gauge,
     AlertKey

LEMMA AlertKeeps ==
    ASSUME BridgeInv, NEW k \in AlertKey, ProcessAlert(k)
    PROVE  BridgeInv'
  <1> DEFINE timer == [key |-> k, left |-> HalfHour]
  <1> USE DEF BridgeInv, ProcessAlert
  <1>1. timer \in Timer /\ timer.key = k  BY BridgeAssumption DEF Timer
  <1>2. PICK t \in AlertType, p \in Prefix : k = <<t, p>>  BY DEF AlertKey
  <1> HIDE DEF timer
  <1>3. timers' = timers \cup {timer}  BY DEF timer
  <1>4. GaugesOK'
    BY <1>1, <1>2, <1>3 DEF GaugesOK, Gauge
  <1>5. Timed'  BY <1>1, <1>3 DEF Timed, GaugesOK
  <1>6. Reasons'
    <2> SUFFICES ASSUME NEW x \in Prefix, prefixHealth'[x] = 0
                 PROVE  \E y \in AlertType : alertState'[<<y, x>>] = 1
      BY DEF Reasons
    <2>1. CASE x = p  BY <1>2, <2>1 DEF GaugesOK
    <2>2. CASE x # p
      <3>1. prefixHealth[x] = 0  BY <1>2, <2>2 DEF GaugesOK
      <3>2. PICK y \in AlertType : alertState[<<y, x>>] = 1  BY <3>1 DEF Reasons
      <3>3. <<y, x>> \in AlertKey /\ <<y, x>> # k  BY <1>2, <2>2 DEF AlertKey
      <3> QED BY <3>2, <3>3 DEF GaugesOK
    <2> QED BY <2>1, <2>2
  <1> QED BY <1>4, <1>5, <1>6

\* The timer that is gone leaves nothing active that only it could end, and its
\* prefix is healthy.
LEMMA ResolveKeeps ==
    ASSUME BridgeInv, NEW timer \in timers, AutoResolve(timer)
    PROVE  BridgeInv'
  <1> DEFINE k == timer.key
  <1> USE DEF BridgeInv, AutoResolve
  <1>1. k \in AlertKey  BY DEF GaugesOK, Timer
  <1>2. PICK t \in AlertType, p \in Prefix : k = <<t, p>>  BY <1>1 DEF AlertKey
  <1>3. timers' = timers \ {timer}  OBVIOUS
  <1>4. CASE alertState[k] = 1
    <2>1. /\ alertState' = [alertState EXCEPT ![k] = 0]
          /\ prefixHealth' = [prefixHealth EXCEPT ![p] = 1]
      BY <1>2, <1>4
    <2>2. GaugesOK'  BY <1>1, <1>3, <2>1 DEF GaugesOK, Gauge
    <2>3. Timed'
      <3> SUFFICES ASSUME NEW x \in AlertKey, alertState'[x] = 1
                   PROVE  \E other \in timers' : other.key = x
        BY DEF Timed
      <3>1. x # k /\ alertState[x] = 1  BY <1>1, <2>1 DEF GaugesOK
      <3>2. PICK other \in timers : other.key = x  BY <3>1 DEF Timed
      <3> QED BY <1>3, <3>1, <3>2
    <2>4. Reasons'
      <3> SUFFICES ASSUME NEW x \in Prefix, prefixHealth'[x] = 0
                   PROVE  \E y \in AlertType : alertState'[<<y, x>>] = 1
        BY DEF Reasons
      <3>1. x # p /\ prefixHealth[x] = 0  BY <2>1 DEF GaugesOK
      <3>2. PICK y \in AlertType : alertState[<<y, x>>] = 1  BY <3>1 DEF Reasons
      <3>3. <<y, x>> \in AlertKey /\ <<y, x>> # k  BY <1>2, <3>1 DEF AlertKey
      <3> QED BY <2>1, <3>2, <3>3 DEF GaugesOK
    <2> QED BY <2>2, <2>3, <2>4
  <1>5. CASE alertState[k] # 1
    <2>1. UNCHANGED <<alertState, prefixHealth>>  BY <1>5
    <2>2. GaugesOK' /\ Reasons'  BY <1>3, <2>1 DEF GaugesOK, Reasons
    <2>3. Timed'  BY <1>3, <1>5, <2>1 DEF Timed
    <2> QED BY <2>2, <2>3
  <1> QED BY <1>4, <1>5

LEMMA BridgeTickKeeps == ASSUME BridgeInv, BridgeTick PROVE BridgeInv'
  <1> DEFINE Sooner(timer) == [timer EXCEPT !.left = @ - 1]
  <1> USE DEF BridgeInv, BridgeTick
  <1>1. \A timer \in timers : Sooner(timer) \in Timer /\ Sooner(timer).key = timer.key
    BY BridgeAssumption DEF GaugesOK, Timer
  <1>2. timers' = {Sooner(timer) : timer \in timers}  OBVIOUS
  <1> HIDE DEF Sooner
  <1>3. GaugesOK'  BY <1>1, <1>2 DEF GaugesOK
  <1>4. Timed'  BY <1>1, <1>2 DEF Timed
  <1> QED BY <1>3, <1>4 DEF Reasons

LEMMA BridgeKeeps == BridgeInv /\ [BridgeNext]_bridgeVars => BridgeInv'
  <1> SUFFICES ASSUME BridgeInv, [BridgeNext]_bridgeVars PROVE BridgeInv'  OBVIOUS
  <1>1. ASSUME NEW k \in AlertKey, ProcessAlert(k) PROVE BridgeInv'
    BY <1>1, AlertKeeps
  <1>2. ASSUME NEW timer \in timers, AutoResolve(timer) PROVE BridgeInv'
    BY <1>2, ResolveKeeps
  <1>3. CASE StartPoll
    BY <1>3 DEF StartPoll, BridgeInv, GaugesOK, Timed, Reasons
  <1>4. ASSUME NEW healthy, CheckAlerterHealth(healthy) PROVE BridgeInv'
    BY <1>4 DEF CheckAlerterHealth, BridgeInv, GaugesOK, Timed, Reasons
  <1>5. CASE BridgeTick  BY <1>5, BridgeTickKeeps
  <1>6. CASE UNCHANGED bridgeVars
    BY <1>6 DEF bridgeVars, BridgeInv, GaugesOK, Timed, Reasons
  <1> QED BY <1>1, <1>2, <1>3, <1>4, <1>5, <1>6 DEF BridgeNext

LEMMA BridgeInvSays == BridgeInv => UnhealthyForAReason
  <1> SUFFICES ASSUME BridgeInv PROVE UnhealthyForAReason  OBVIOUS
  <1>1. \A timer \in timers : timer.left <= HalfHour
    BY BridgeAssumption DEF BridgeInv, GaugesOK, Timer
  <1>2. ASSUME NEW k \in AlertKey, alertState[k] = 1
        PROVE  \E timer \in timers : timer.key = k /\ timer.left <= HalfHour
    <2>1. PICK timer \in timers : timer.key = k  BY <1>2 DEF BridgeInv, Timed
    <2> QED BY <1>1, <2>1
  <1>3. Reasons  BY DEF BridgeInv
  <1> QED BY <1>2, <1>3 DEF Reasons, UnhealthyForAReason

\* A prefix is reported unhealthy only while an alert about it is active, which
\* a timer will end (bridge/index.js 178-202), whatever the alerts.
THEOREM AlertsEnd == BridgeSpec => []UnhealthyForAReason
  <1>1. BridgeSpec => []BridgeInv  BY BridgeBegins, BridgeKeeps, PTL DEF BridgeSpec
  <1> QED BY <1>1, BridgeInvSays, PTL

-----------------------------------------------------------------------------
(* The geo cache, for any monitors, addresses, calls and sizes of the      *)
(* memory, and however long the server runs.                                *)

Entry == [key : GeoKey, data : Int, lastUpdated : Int]

Dated == [data : Int, lastUpdated : Int]

Cell == {Absent} \cup Int \cup Dated

Call == [key : GeoKey, step : {"table", "read", "lookup", "select", "write"},
         began : Nat, cached : Cell, found : Cell]

\* The memory holds each key once, and dates that are late by Zone at most.
MemoryOK ==
    /\ memoryCache \in Seq(Entry)
    /\ Len(memoryCache) <= MemoryMax
    /\ \A i, j \in DOMAIN memoryCache :
          memoryCache[i].key = memoryCache[j].key => i = j
    /\ \A i \in DOMAIN memoryCache :
          memoryCache[i].lastUpdated <= memoryCache[i].data + Zone

\* The table has true dates.
RowOK(row) == row = Absent \/ (row \in Dated /\ row.lastUpdated = row.data)

TableOK == /\ targetGeo \in [GeoKey -> {Absent} \cup Dated]
           /\ \A k \in GeoKey : RowOK(targetGeo[k])

\* A call ends a tick after its beginning, and what it found is no older.
CallOK(call, t) ==
    /\ call \in Call
    /\ call.began <= t /\ t <= call.began + 1
    /\ call.step = "read" => RowOK(call.found)
    /\ call.step \in {"select", "write"} =>
          call.found \in Int /\ call.began <= call.found

CallsOK ==
    /\ DOMAIN resolvers = Resolver /\ resolvers = [r \in Resolver |-> resolvers[r]]
    /\ \A r \in Resolver : resolvers[r] # Absent => CallOK(resolvers[r], geoNow)

Recent(metric) ==
    metric # Absent => \/ metric.fallback
                       \/ metric.at - metric.data <= StaleTtl + Zone

MetricsOK ==
    /\ DOMAIN geoMetric = Probed /\ geoMetric = [m \in Probed |-> geoMetric[m]]
    /\ \A m \in Probed : Recent(geoMetric[m])

GeoInv == geoNow \in Nat /\ MemoryOK /\ TableOK /\ CallsOK /\ MetricsOK
-----------------------------------------------------------------------------
(* What the steps are made of                                              *)

\* An entry that is new or replaces one of its key.
LEMMA MemoryKept ==
    ASSUME MemoryOK, NEW k \in GeoKey, NEW data \in Int, NEW date \in Int,
           date <= data + Zone, SetMemory(k, data, date)
    PROVE  MemoryOK'
  <1> DEFINE entry == [key |-> k, data |-> data, lastUpdated |-> date]
             room == IF Len(memoryCache) >= MemoryMax THEN Tail(memoryCache)
                     ELSE memoryCache
  <1>1. entry \in Entry /\ entry.key = k /\ entry.lastUpdated <= entry.data + Zone
    BY DEF Entry
  <1>2. memoryCache' =
          IF InMemory(k)
          THEN [i \in DOMAIN memoryCache |->
                  IF memoryCache[i].key = k THEN entry ELSE memoryCache[i]]
          ELSE Append(room, entry)
    BY DEF SetMemory
  <1> HIDE DEF entry
  <1>3. MemoryMax \in Nat \ {0}  BY GeoAssumption
  <1>4. CASE InMemory(k)
    <2>1. DOMAIN memoryCache = 1 .. Len(memoryCache) /\ Len(memoryCache) \in Nat
      BY DEF MemoryOK
    <2>2. memoryCache' \in [1 .. Len(memoryCache) -> Entry]
      BY <1>1, <1>2, <1>4, <2>1 DEF MemoryOK
    <2>3. memoryCache' \in Seq(Entry) /\ Len(memoryCache') = Len(memoryCache)
          /\ DOMAIN memoryCache' = DOMAIN memoryCache
      BY <2>1, <2>2
    <2>4. \A i \in DOMAIN memoryCache :
            /\ memoryCache'[i].key = memoryCache[i].key
            /\ memoryCache'[i] \in {entry, memoryCache[i]}
      BY <1>1, <1>2, <1>4
    <2> QED BY <1>1, <2>3, <2>4 DEF MemoryOK
  <1>5. CASE ~InMemory(k)
    <2>1. /\ room \in Seq(Entry) /\ Len(room) < MemoryMax /\ Len(room) \in Nat
          /\ \A i, j \in 1 .. Len(room) : room[i].key = room[j].key => i = j
          /\ \A i \in 1 .. Len(room) : /\ room[i].key # k
                                       /\ room[i].lastUpdated <= room[i].data + Zone
      <3>1. CASE Len(memoryCache) >= MemoryMax
        <4>1. memoryCache # <<>>  BY <1>3, <3>1 DEF MemoryOK
        <4>2. /\ room \in Seq(Entry) /\ Len(room) = Len(memoryCache) - 1
              /\ \A i \in 1 .. Len(room) : room[i] = memoryCache[i + 1]
          BY <3>1, <4>1 DEF MemoryOK
        <4>3. \A i \in 1 .. Len(room) : i + 1 \in DOMAIN memoryCache
          BY <4>2 DEF MemoryOK
        <4> HIDE DEF room
        <4>4. \A i, j \in 1 .. Len(room) : room[i].key = room[j].key => i = j
          <5> TAKE i, j \in 1 .. Len(room)
          <5>1. /\ room[i] = memoryCache[i + 1] /\ room[j] = memoryCache[j + 1]
                /\ i + 1 \in DOMAIN memoryCache /\ j + 1 \in DOMAIN memoryCache
            BY <4>2, <4>3
          <5> DEFINE x == i + 1
                     y == j + 1
          <5> HIDE DEF x, y
          <5>2. memoryCache[x].key = memoryCache[y].key
                /\ x \in DOMAIN memoryCache /\ y \in DOMAIN memoryCache => x = y
            BY DEF MemoryOK
          <5>3. room[i].key = room[j].key => x = y  BY <5>1, <5>2 DEF x, y
          <5> QED BY <5>3 DEF x, y
        <4>5. Len(room) \in Nat /\ Len(room) < MemoryMax
          BY <1>3, <4>2 DEF MemoryOK
        <4>6. \A i \in 1 .. Len(room) : /\ room[i].key # k
                                        /\ room[i].lastUpdated <= room[i].data + Zone
          BY <1>5, <4>2, <4>3 DEF MemoryOK, InMemory
        <4> QED BY <4>2, <4>4, <4>5, <4>6
      <3>2. CASE ~(Len(memoryCache) >= MemoryMax)
        BY <1>3, <1>5, <3>2 DEF MemoryOK, InMemory
      <3> QED BY <3>1, <3>2
    <2> HIDE DEF room
    <2>2. memoryCache' = Append(room, entry)  BY <1>2, <1>5
    <2>3. /\ memoryCache' \in Seq(Entry) /\ Len(memoryCache') = Len(room) + 1
          /\ DOMAIN memoryCache' = 1 .. Len(room) + 1
          /\ \A i \in 1 .. Len(room) : memoryCache'[i] = room[i]
          /\ memoryCache'[Len(room) + 1] = entry
      BY <1>1, <2>1, <2>2
    <2>4. Len(memoryCache') <= MemoryMax  BY <1>3, <2>1, <2>3
    <2>5. \A i \in DOMAIN memoryCache' : i \in 1 .. Len(room) \/ i = Len(room) + 1
      BY <2>1, <2>3
    <2> QED BY <1>1, <2>1, <2>3, <2>4, <2>5 DEF MemoryOK
  <1> QED BY <1>4, <1>5

LEMMA MetricKept ==
    ASSUME MetricsOK, NEW k \in GeoKey, NEW data, NEW fallback \in BOOLEAN,
           fallback \/ geoNow - data <= StaleTtl + Zone,
           UpdateGeoMetric(k, data, fallback)
    PROVE  MetricsOK'
  <1> DEFINE metric == [data |-> data, at |-> geoNow, fallback |-> fallback]
  <1>1. Recent(metric)  BY DEF Recent
  <1>2. geoMetric' = [geoMetric EXCEPT ![k[1]] = metric]  BY DEF UpdateGeoMetric
  <1> HIDE DEF metric
  <1> QED BY <1>1, <1>2 DEF MetricsOK, Recent

\* A call that is over, or goes on as another.
LEMMA CallKept ==
    ASSUME CallsOK, UNCHANGED geoNow, NEW r \in Resolver, NEW call,
           call # Absent => CallOK(call, geoNow),
           resolvers' = [resolvers EXCEPT ![r] = call]
    PROVE  CallsOK'
  BY DEF CallsOK

\* What is in memory.
LEMMA EntryFound ==
    ASSUME MemoryOK, NEW k, InMemory(k)
    PROVE  /\ EntryOf(k).data \in Int /\ EntryOf(k).lastUpdated \in Int
           /\ EntryOf(k).lastUpdated <= EntryOf(k).data + Zone
  <1>1. PICK i \in DOMAIN memoryCache : EntryOf(k) = memoryCache[i]
    BY DEF InMemory, EntryOf
  <1>2. memoryCache[i] \in Entry  BY DEF MemoryOK
  <1> QED BY <1>1, <1>2 DEF MemoryOK, Entry

LEMMA AbsentIsCell == Absent \in Cell /\ Int \subseteq Cell
  BY DEF Cell

LEMMA RowIsCell == ASSUME NEW row, RowOK(row) PROVE row \in Cell
  BY DEF RowOK, Cell
-----------------------------------------------------------------------------
(* The steps                                                               *)

LEMMA InitOK == GeoInit => GeoInv
  <1> SUFFICES ASSUME GeoInit PROVE GeoInv  OBVIOUS
  <1> USE GeoAssumption DEF GeoInit
  <1>1. MemoryOK  BY DEF MemoryOK
  <1>2. TableOK  BY DEF TableOK, RowOK
  <1>3. CallsOK /\ MetricsOK  BY DEF CallsOK, MetricsOK, Recent
  <1> QED BY <1>1, <1>2, <1>3 DEF GeoInv

LEMMA ResolveOK ==
    ASSUME GeoInv, NEW r \in Resolver, NEW k \in GeoKey, ResolveTargetGeo(r, k)
    PROVE  GeoInv'
  <1> DEFINE call == [key |-> k, step |-> "table", began |-> geoNow,
                      cached |-> Absent, found |-> Absent]
             known == [call EXCEPT !.step = "lookup", !.cached = EntryOf(k).data]
  <1>1. MemoryOK' /\ TableOK' /\ geoNow' \in Nat /\ UNCHANGED geoNow
    BY DEF GeoInv, ResolveTargetGeo, MemoryOK, TableOK
  <1>5. call \in Call  BY AbsentIsCell DEF GeoInv, Call
  <1>2. CASE InMemory(k) /\ ~ IsStale(EntryOf(k).lastUpdated)
    <2>1. UpdateGeoMetric(k, EntryOf(k).data, FALSE) /\ UNCHANGED resolvers
      BY <1>2 DEF ResolveTargetGeo
    <2>2. geoNow - EntryOf(k).data <= StaleTtl + Zone
      BY <1>2, EntryFound, GeoAssumption DEF IsStale, GeoInv
    <2>3. MetricsOK'  BY <2>1, <2>2, MetricKept DEF GeoInv
    <2>4. CallsOK'  BY <1>1, <2>1 DEF GeoInv, CallsOK
    <2> QED BY <1>1, <2>3, <2>4 DEF GeoInv
  <1>3. CASE InMemory(k) /\ IsStale(EntryOf(k).lastUpdated)
    <2>1. UNCHANGED geoMetric  BY <1>3 DEF ResolveTargetGeo
    <2>2. resolvers' = [resolvers EXCEPT ![r] = known]
      BY <1>3 DEF ResolveTargetGeo
    <2>6. EntryOf(k).data \in Cell  BY <1>3, EntryFound, AbsentIsCell DEF GeoInv
    <2>7. CallOK(call, geoNow)  BY <1>5 DEF GeoInv, CallOK
    <2> HIDE DEF call
    <2>3. CallOK(known, geoNow)  BY <1>5, <2>6, <2>7 DEF CallOK, Call
    <2> HIDE DEF known
    <2>4. CallsOK'  BY <1>1, <2>2, <2>3, CallKept DEF GeoInv
    <2>5. MetricsOK'  BY <2>1 DEF GeoInv, MetricsOK
    <2> QED BY <1>1, <2>4, <2>5 DEF GeoInv
  <1>4. CASE ~ InMemory(k)
    <2>1. resolvers' = [resolvers EXCEPT ![r] = call] /\ UNCHANGED geoMetric
      BY <1>4 DEF ResolveTargetGeo
    <2>2. CallOK(call, geoNow)
      BY AbsentIsCell DEF GeoInv, CallOK, Call
    <2> HIDE DEF call
    <2>3. CallsOK'  BY <1>1, <2>1, <2>2, CallKept DEF GeoInv
    <2>4. MetricsOK'  BY <2>1 DEF GeoInv, MetricsOK
    <2> QED BY <1>1, <2>3, <2>4 DEF GeoInv
  <1> QED BY <1>2, <1>3, <1>4

\* The record of a call that goes on.
LEMMA CallFields ==
    ASSUME NEW call, NEW t \in Nat, CallOK(call, t),
           NEW step \in {"table", "read", "lookup", "select", "write"},
           NEW cached \in Cell, NEW found \in Cell,
           step = "read" => RowOK(found),
           step \in {"select", "write"} => found \in Int /\ call.began <= found
    PROVE  CallOK([call EXCEPT !.step = step, !.cached = cached, !.found = found], t)
  BY DEF CallOK, Call

LEMMA ReadTableOK ==
    ASSUME GeoInv, NEW r \in Resolver, NEW fails \in BOOLEAN, ReadTable(r, fails)
    PROVE  GeoInv'
  <1> DEFINE call == resolvers[r]
             found == IF fails THEN Absent ELSE targetGeo[call.key]
             next == [call EXCEPT !.step = "read", !.cached = call.cached, !.found = found]
  <1>1. CallOK(call, geoNow) /\ call \in Call
    BY DEF GeoInv, CallsOK, ReadTable, CallOK
  <1>2. call.key \in GeoKey /\ call.cached \in Cell  BY <1>1 DEF Call
  <1>3. RowOK(found)  BY <1>2 DEF GeoInv, TableOK, RowOK
  <1>4. CallOK(next, geoNow)
    BY <1>1, <1>2, <1>3, RowIsCell, CallFields DEF GeoInv
  <1>5. resolvers' = [resolvers EXCEPT ![r] = next]
    <2>1. next = [call EXCEPT !.step = "read", !.found = found]
      BY <1>1 DEF Call
    <2> QED BY <2>1 DEF ReadTable
  <1> HIDE DEF next
  <1>6. CallsOK'  BY <1>4, <1>5, CallKept DEF GeoInv, ReadTable
  <1> QED BY <1>6 DEF GeoInv, ReadTable, MemoryOK, TableOK, MetricsOK

LEMMA PromoteOK ==
    ASSUME GeoInv, NEW r \in Resolver, Promote(r)
    PROVE  GeoInv'
  <1> DEFINE call == resolvers[r]
             row == call.found
             date == row.lastUpdated + Zone
             cached == IF row = Absent THEN Absent ELSE row.data
             next == [call EXCEPT !.step = "lookup", !.cached = cached, !.found = row]
  <1>1. CallOK(call, geoNow) /\ call \in Call
    BY DEF GeoInv, CallsOK, Promote, CallOK
  <1>2. call.key \in GeoKey /\ row \in Cell  BY <1>1 DEF Call
  <1>3. RowOK(row)  BY <1>1 DEF CallOK, Promote
  <1>4. row # Absent => row.data \in Int /\ date \in Int /\ date <= row.data + Zone
    BY <1>3, GeoAssumption DEF RowOK, Dated
  <1>5. MemoryOK'
    <2>1. CASE row = Absent
      BY <2>1 DEF Promote, GeoInv, MemoryOK
    <2>2. CASE row # Absent
      <3>1. SetMemory(call.key, row.data, date)  BY <2>2 DEF Promote
      <3> QED BY <1>2, <1>4, <2>2, <3>1, MemoryKept DEF GeoInv
    <2> QED BY <2>1, <2>2
  <1>6. CASE row # Absent /\ ~ IsStale(date)
    <2>1. UpdateGeoMetric(call.key, row.data, FALSE) /\ Ends(r)
      BY <1>6 DEF Promote
    <2>2. geoNow - row.data <= StaleTtl + Zone
      BY <1>4, <1>6, GeoAssumption DEF IsStale, GeoInv
    <2>3. MetricsOK'  BY <1>2, <2>1, <2>2, MetricKept DEF GeoInv
    <2>4. CallsOK'
      BY <2>1, CallKept DEF GeoInv, Ends, Promote
    <2> QED BY <1>5, <2>3, <2>4 DEF GeoInv, Promote, TableOK
  <1>7. CASE ~(row # Absent /\ ~ IsStale(date))
    <2>1. cached \in Cell  BY <1>4 DEF Cell
    <2>2. CallOK(next, geoNow)
      BY <1>1, <1>2, <2>1, CallFields DEF GeoInv
    <2>3. next = [call EXCEPT !.step = "lookup", !.cached = cached]
      BY <1>1 DEF Call
    <2>4. resolvers' = [resolvers EXCEPT ![r] = next] /\ UNCHANGED geoMetric
      BY <1>7, <2>3 DEF Promote
    <2> HIDE DEF next
    <2>5. CallsOK'  BY <2>2, <2>4, CallKept DEF GeoInv, Promote
    <2>6. MetricsOK'  BY <2>4 DEF GeoInv, MetricsOK
    <2> QED BY <1>5, <2>5, <2>6 DEF GeoInv, Promote, TableOK
  <1> QED BY <1>6, <1>7

LEMMA LookupOK ==
    ASSUME GeoInv, NEW r \in Resolver, Lookup(r)
    PROVE  GeoInv'
  <1> DEFINE call == resolvers[r]
             next == [call EXCEPT !.step = "select", !.cached = call.cached, !.found = geoNow]
  <1>1. CallOK(call, geoNow) /\ call \in Call
    BY DEF GeoInv, CallsOK, Lookup, CallOK
  <1>2. call.key \in GeoKey /\ call.cached \in Cell  BY <1>1 DEF Call
  <1>3. geoNow \in Nat /\ geoNow \in Int /\ geoNow <= geoNow + Zone
        /\ geoNow \in Cell
    BY GeoAssumption DEF GeoInv, Cell
  <1>4. MemoryOK'
    BY <1>2, <1>3, MemoryKept DEF GeoInv, Lookup
  <1>5. CallOK(next, geoNow)
    <2>1. call.began <= geoNow  BY <1>1 DEF CallOK
    <2> QED BY <1>1, <1>2, <1>3, <2>1, CallFields
  <1>6. next = [call EXCEPT !.step = "select", !.found = geoNow]
    BY <1>1 DEF Call
  <1>7. resolvers' = [resolvers EXCEPT ![r] = next]
    BY <1>6 DEF Lookup
  <1> HIDE DEF next
  <1>8. CallsOK'  BY <1>5, <1>7, CallKept DEF GeoInv, Lookup
  <1> QED BY <1>4, <1>8 DEF GeoInv, Lookup, TableOK, MetricsOK

LEMMA LookupFailsOK ==
    ASSUME GeoInv, NEW r \in Resolver, LookupFails(r)
    PROVE  GeoInv'
  <1>1. resolvers[r].key \in GeoKey
    BY DEF GeoInv, CallsOK, CallOK, Call, LookupFails
  <1>2. MetricsOK'
    <2>1. CASE resolvers[r].cached = Absent
      BY <2>1 DEF LookupFails, GeoInv, MetricsOK
    <2>2. CASE resolvers[r].cached # Absent
      BY <1>1, <2>2, MetricKept DEF LookupFails, GeoInv
    <2> QED BY <2>1, <2>2
  <1>3. CallsOK'  BY CallKept DEF GeoInv, LookupFails, Ends
  <1> QED BY <1>2, <1>3 DEF GeoInv, LookupFails, MemoryOK, TableOK

LEMMA SelectRowOK ==
    ASSUME GeoInv, NEW r \in Resolver, SelectRow(r)
    PROVE  GeoInv'
  <1> DEFINE call == resolvers[r]
             next == [call EXCEPT !.step = "write", !.cached = targetGeo[call.key],
                                  !.found = call.found]
  <1>1. CallOK(call, geoNow) /\ call \in Call
    BY DEF GeoInv, CallsOK, SelectRow, CallOK
  <1>2. call.key \in GeoKey /\ call.found \in Cell  BY <1>1 DEF Call
  <1>3. targetGeo[call.key] \in Cell  BY <1>2, RowIsCell DEF GeoInv, TableOK
  <1>4. CallOK(next, geoNow)
    <2>1. call.found \in Int /\ call.began <= call.found
      BY <1>1 DEF CallOK, SelectRow
    <2> QED BY <1>1, <1>2, <1>3, <2>1, CallFields DEF GeoInv
  <1>5. next = [call EXCEPT !.cached = targetGeo[call.key], !.step = "write"]
    BY <1>1 DEF Call
  <1>6. resolvers' = [resolvers EXCEPT ![r] = next]
    BY <1>5 DEF SelectRow
  <1> HIDE DEF next
  <1>7. CallsOK'  BY <1>4, <1>6, CallKept DEF GeoInv, SelectRow
  <1> QED BY <1>7 DEF GeoInv, SelectRow, MemoryOK, TableOK, MetricsOK

LEMMA WriteRowOK ==
    ASSUME GeoInv, NEW r \in Resolver, NEW fails \in BOOLEAN, WriteRow(r, fails)
    PROVE  GeoInv'
  <1> DEFINE call == resolvers[r]
             row == [data |-> call.found, lastUpdated |-> call.found]
  <1>1. CallOK(call, geoNow) /\ call \in Call /\ call.step = "write"
    BY DEF GeoInv, CallsOK, WriteRow, CallOK
  <1>2. /\ call.key \in GeoKey /\ call.found \in Int /\ call.began \in Nat
        /\ call.began <= call.found /\ geoNow <= call.began + 1
    BY <1>1 DEF CallOK, Call
  <1>3. row \in Dated /\ RowOK(row)  BY <1>2 DEF RowOK, Dated
  <1>4. targetGeo' = targetGeo \/ targetGeo' = [targetGeo EXCEPT ![call.key] = row]
    BY DEF WriteRow
  <1> HIDE DEF row
  <1>5. TableOK'  BY <1>2, <1>3, <1>4 DEF GeoInv, TableOK
  <1>6. geoNow - call.found <= StaleTtl + Zone
    BY <1>2, GeoAssumption DEF GeoInv
  <1>7. MetricsOK'  BY <1>2, <1>6, MetricKept DEF GeoInv, WriteRow
  <1>8. CallsOK'  BY CallKept DEF GeoInv, WriteRow, Ends
  <1> QED BY <1>5, <1>7, <1>8 DEF GeoInv, WriteRow, MemoryOK

LEMMA CleanupOK == ASSUME GeoInv, Cleanup PROVE GeoInv'
  <1>1. TableOK'  BY DEF GeoInv, Cleanup, TableOK, RowOK
  <1> QED BY <1>1 DEF GeoInv, Cleanup, MemoryOK, CallsOK, MetricsOK

LEMMA GeoRestartOK == ASSUME GeoInv, GeoRestart PROVE GeoInv'
  <1>1. MemoryOK'  BY GeoAssumption DEF GeoRestart, MemoryOK
  <1>2. CallsOK'  BY DEF GeoRestart, CallsOK
  <1> QED BY <1>1, <1>2 DEF GeoInv, GeoRestart, TableOK, MetricsOK

LEMMA GeoTickOK == ASSUME GeoInv, GeoTick PROVE GeoInv'
  <1>1. ASSUME NEW r \in Resolver, resolvers[r] # Absent
        PROVE  CallOK(resolvers[r], geoNow + 1)
    <2>1. CallOK(resolvers[r], geoNow) /\ resolvers[r].began = geoNow
      BY <1>1 DEF GeoInv, CallsOK, GeoTick
    <2> QED BY <2>1 DEF CallOK, GeoInv
  <1>2. CallsOK'  BY <1>1 DEF GeoInv, GeoTick, CallsOK
  <1> QED BY <1>2 DEF GeoInv, GeoTick, MemoryOK, TableOK, MetricsOK

LEMMA NextOK == GeoInv /\ [GeoNext]_geoVars => GeoInv'
  <1> SUFFICES ASSUME GeoInv, [GeoNext]_geoVars PROVE GeoInv'  OBVIOUS
  <1>1. ASSUME NEW r \in Resolver, NEW k \in GeoKey, ResolveTargetGeo(r, k)
        PROVE  GeoInv'
    BY <1>1, ResolveOK
  <1>2. ASSUME NEW r \in Resolver, NEW fails \in BOOLEAN,
               ReadTable(r, fails) \/ WriteRow(r, fails)
        PROVE  GeoInv'
    BY <1>2, ReadTableOK, WriteRowOK
  <1>3. ASSUME NEW r \in Resolver,
               Promote(r) \/ Lookup(r) \/ LookupFails(r) \/ SelectRow(r)
        PROVE  GeoInv'
    BY <1>3, PromoteOK, LookupOK, LookupFailsOK, SelectRowOK
  <1>4. CASE Cleanup \/ GeoRestart \/ GeoTick
    BY <1>4, CleanupOK, GeoRestartOK, GeoTickOK
  <1>5. CASE UNCHANGED geoVars
    BY <1>5 DEF geoVars, GeoInv, MemoryOK, TableOK, CallsOK, MetricsOK
  <1> QED BY <1>1, <1>2, <1>3, <1>4, <1>5 DEF GeoNext

\* What is published of a target is recent, however the calls, evictions,
\* cleanups and restarts interleave (geo-cache.js 60-154, geo-resolver.js
\* 62-89), whatever the sizes and times.
THEOREM AlwaysRecent == GeoSpec => []AnswersRecent
  <1>1. GeoSpec => []GeoInv  BY InitOK, NextOK, PTL DEF GeoSpec
  <1>2. GeoInv => AnswersRecent
    BY DEF GeoInv, MemoryOK, MetricsOK, Recent, AnswersRecent
  <1> QED BY <1>1, <1>2, PTL

---------------------------------------------------------------------------
(* How a browser's list comes about                                        *)

\* What is shown and what is on its way, by its place: 0 in the browser, and the
\* events after it.
At(l, w, p) == IF p = 0 THEN l ELSE w[p].rows

Place(w) == 0 .. Len(w)

Has(l, w, p, b) == \E k \in DOMAIN At(l, w, p) : At(l, w, p)[k] = b

\* No list comes after it and takes its place.
Fresh(w, p) == \A q \in DOMAIN w : q > p => w[q].ev # "overwrite"

\* A list of a login goes before all there is, when it comes.
ListAt(w, p) == p \in DOMAIN w /\ w[p].ev = "list"

Lives(w, p) == p \in Place(w) /\ Fresh(w, p) /\ ~ListAt(w, p)

\* h is after the j-th at p.
After(l, w, p, j, h) ==
    \/ \E k \in DOMAIN At(l, w, p) : k > j /\ At(l, w, p)[k] = h
    \/ \E q \in Place(w) : q > p /\ Lives(w, q) /\ Has(l, w, q, h)

\* Of the beats of A, whatever is later than one that is shown comes after it.
InOrder(l, w, A) ==
    \A p \in Place(w) : Lives(w, p) =>
        \A j \in DOMAIN At(l, w, p), h \in A :
            h > At(l, w, p)[j] => After(l, w, p, j, h)

Seen(l, w, b) == \E p \in Place(w) : Lives(w, p) /\ Has(l, w, p, b)

\* With the list R, no beat of A is missing from its first one on.
Covers(l, w, A, R) ==
    \A b \in A : \/ \E i \in DOMAIN R : R[i] = b
                 \/ Seen(l, w, b)
                 \/ DOMAIN R # {} /\ \A i \in DOMAIN R : b < R[i]

\* Something is shown.
Something(l, w) == \E b : Seen(l, w, b)

\* Nothing of S was in the browser when a list took its place.
NoneLost(l, w, S) ==
    \A p \in Place(w), b \in S : Has(l, w, p, b) => Fresh(w, p)

\* All that is shown is of G.
Only(l, w, G) ==
    \A p \in Place(w) : \A b : Fresh(w, p) /\ Has(l, w, p, b) => b \in G

Shown == IF heartbeatList = Unsent THEN <<>> ELSE heartbeatList

\* Beats that a browser should show: those that have been sent and are stored or
\* about to be.
Alive == {b \in Beat : beatAt[b] = "sent" \/ (b \in heartbeats /\ beatAt[b] # "kept")}

Good == {b \in Beat : b \in heartbeats \/ beatAt[b] \in {"sent", "failed"}}

Rising(rows) ==
    /\ Len(rows) <= ReadLimit
    /\ \A i, j \in DOMAIN rows : i < j => rows[i] < rows[j]

Event == [ev : {"beat", "list", "overwrite"}, rows : Seq(Beat)]

FeedTypes ==
    /\ beatAt \in [Beat -> {"none", "loop", "push", "sent", "kept", "done", "failed"}]
    /\ heartbeats \in SUBSET Beat /\ inRoom \in BOOLEAN
    /\ overtaken \in BOOLEAN /\ crossed \in BOOLEAN
    /\ login \in [at : {"none", "joined", "read"}, rows : Seq(Beat)]
    /\ clear \in [at : {"none", "deleted", "read"}, rows : Seq(Beat)]
    /\ wire \in Seq(Event)
    /\ heartbeatList \in Seq(Beat) \cup {Unsent}

\* Lists are in order; what is stored or on its way has been made; the list of a
\* login comes once.
FeedLists ==
    /\ login.at # "read" => login.rows = <<>>
    /\ clear.at # "read" => clear.rows = <<>>
    /\ Rising(login.rows) /\ Rising(clear.rows)
    /\ \A i \in DOMAIN clear.rows : clear.rows[i] \in heartbeats
    /\ \A p \in DOMAIN wire : IF wire[p].ev = "beat" THEN Len(wire[p].rows) = 1
                              ELSE Rising(wire[p].rows)

Made(b) == beatAt[b] \in {"sent", "kept", "done", "failed"}

FeedMade ==
    /\ \A b \in heartbeats : beatAt[b] \in {"kept", "done"}
    /\ \A i \in DOMAIN login.rows : Made(login.rows[i])
    /\ \A p \in Place(wire), b \in Beat : Has(Shown, wire, p, b) => Made(b)

ToCome == login.at # "none" \/ \E p \in DOMAIN wire : wire[p].ev = "list"

FeedOnce ==
    /\ ~inRoom => wire = <<>> /\ login.at = "none"
    /\ inRoom => ToCome \/ heartbeatList # Unsent
    /\ login.at # "none" => \A p \in DOMAIN wire : wire[p].ev # "list"
    /\ \A p, q \in DOMAIN wire : wire[p].ev = "list" /\ wire[q].ev = "list" => p = q
    /\ Len(Shown) < ReadLimit + Cap
    /\ ToCome => Len(Shown) < Cap

FeedTrue ==
    /\ ~crossed => InOrder(Shown, wire, Alive)
    /\ login.at = "read" => Covers(Shown, wire, Alive, login.rows)
    /\ \A p \in DOMAIN wire : wire[p].ev = "list" /\ Fresh(wire, p) =>
            Covers(Shown, wire, Alive, wire[p].rows)
    /\ login.at = "none" /\ (\A p \in DOMAIN wire : wire[p].ev = "list" => ~Fresh(wire, p))
            /\ Alive # {} => Something(Shown, wire)
    /\ NoneLost(Shown, wire, Pending)
    /\ clear.at = "none" => Only(Shown, wire, Good)

FeedInv == /\ FeedTypes /\ FeedLists /\ FeedMade /\ FeedOnce
           /\ inRoom /\ ~overtaken => FeedTrue

LEMMA RowsAre ==
    ASSUME NEW s \in Seq(Beat)
    PROVE  /\ DOMAIN s = 1 .. Len(s) /\ Len(s) \in Nat /\ DOMAIN s \subseteq Nat
           /\ \A i \in DOMAIN s : s[i] \in Beat /\ s[i] \in Int
  <1>1. /\ DOMAIN s = 1 .. Len(s) /\ Len(s) \in Nat
        /\ \A i \in 1 .. Len(s) : s[i] \in Beat
    OBVIOUS
  <1>2. \A b \in Beat : b \in Int  BY FeedAssumption DEF Beat
  <1>3. \A i \in 1 .. Len(s) : i \in Nat  BY <1>1
  <1> QED BY <1>1, <1>2, <1>3

Sends(v, w, e) == v = Append(w, e)

\* A step of the wire: an event is sent.
LEMMA SentPlaces ==
    ASSUME NEW w \in Seq(Event), NEW e \in Event, NEW v, Sends(v, w, e)
    PROVE  /\ v \in Seq(Event) /\ Len(v) = Len(w) + 1 /\ v[Len(w) + 1] = e
           /\ \A p \in Place(w) :
                /\ p \in Place(v) /\ p # Len(v) /\ p < Len(v)
                /\ \A l : At(l, v, p) = At(l, w, p)
                /\ (ListAt(v, p) <=> ListAt(w, p))
                /\ e.ev # "overwrite" => (Fresh(v, p) <=> Fresh(w, p))
                /\ e.ev # "overwrite" => (Lives(v, p) <=> Lives(w, p))
                /\ e.ev = "overwrite" => ~Fresh(v, p)
           /\ \A p \in Place(v) : p = Len(v) \/ (p \in Place(w) /\ p < Len(v))
           /\ Len(v) \in Place(v) /\ (\A l : At(l, v, Len(v)) = e.rows) /\ Fresh(v, Len(v))
           /\ (Lives(v, Len(v)) <=> e.ev # "list")
  <1>1. /\ v \in Seq(Event) /\ Len(v) = Len(w) + 1 /\ v[Len(w) + 1] = e
        /\ DOMAIN w = 1 .. Len(w) /\ DOMAIN v = 1 .. Len(w) + 1 /\ Len(w) \in Nat
        /\ \A p \in 1 .. Len(w) : v[p] = w[p]
    BY DEF Sends
  <1>2. ASSUME NEW p \in Place(w)
        PROVE  /\ p \in Place(v) /\ p # Len(v) /\ p < Len(v)
               /\ \A l : At(l, v, p) = At(l, w, p)
               /\ (ListAt(v, p) <=> ListAt(w, p))
               /\ e.ev # "overwrite" => (Fresh(v, p) <=> Fresh(w, p))
               /\ e.ev = "overwrite" => ~Fresh(v, p)
    <2>1. p \in Place(v) /\ p # Len(v) /\ p < Len(v) /\ (p # 0 => p \in 1 .. Len(w))
      BY <1>1 DEF Place
    <2>2. (\A l : At(l, v, p) = At(l, w, p)) /\ (ListAt(v, p) <=> ListAt(w, p))
      BY <1>1, <2>1 DEF At, ListAt
    <2>3. e.ev # "overwrite" => (Fresh(v, p) <=> Fresh(w, p))
      BY <1>1, <2>1 DEF Fresh
    <2>4. e.ev = "overwrite" => ~Fresh(v, p)
      BY <1>1, <2>1 DEF Fresh, Place
    <2> QED BY <2>1, <2>2, <2>3, <2>4
  <1>3. \A p \in Place(w) : e.ev # "overwrite" => (Lives(v, p) <=> Lives(w, p))
    BY <1>2 DEF Lives
  <1>4. \A p \in Place(v) : p = Len(v) \/ (p \in Place(w) /\ p < Len(v))
    BY <1>1 DEF Place
  <1>5. /\ Len(v) \in Place(v) /\ (\A l : At(l, v, Len(v)) = e.rows) /\ Fresh(v, Len(v))
        /\ (ListAt(v, Len(v)) <=> e.ev = "list")
    BY <1>1 DEF Place, At, Fresh, ListAt
  <1>6. Lives(v, Len(v)) <=> e.ev # "list"  BY <1>5 DEF Lives
  <1> QED BY <1>1, <1>2, <1>3, <1>4, <1>5, <1>6

Takes(v, w) == w # <<>> /\ v = Tail(w)

\* An event is taken: what is behind it moves up.
LEMMA TakenPlaces ==
    ASSUME NEW w \in Seq(Event), NEW v, Takes(v, w)
    PROVE  /\ v \in Seq(Event) /\ Len(v) = Len(w) - 1 /\ 1 \in Place(w) /\ 0 \in Place(v)
           /\ w[1] \in Event /\ Head(w) = w[1]
           /\ \A p \in Place(v) : p # 0 =>
                /\ p + 1 \in Place(w)
                /\ \A l, m : At(m, v, p) = At(l, w, p + 1)
                /\ (ListAt(v, p) <=> ListAt(w, p + 1))
                /\ (Lives(v, p) <=> Lives(w, p + 1))
           /\ \A p \in Place(v) : Fresh(v, p) <=> Fresh(w, p + 1)
           /\ \A p \in Place(w) : p > 1 => p - 1 \in Place(v) /\ p - 1 # 0 /\ (p - 1) + 1 = p
           /\ (Lives(v, 0) <=> Fresh(w, 1))
           /\ (Fresh(w, 0) <=> Fresh(w, 1) /\ w[1].ev # "overwrite")
           /\ (Lives(w, 0) <=> Fresh(w, 0))
           /\ (Lives(w, 1) <=> Fresh(w, 1) /\ w[1].ev # "list")
           /\ (ListAt(w, 1) <=> w[1].ev = "list")
  <1>1. /\ Len(w) \in Nat /\ Len(w) > 0 /\ DOMAIN w = 1 .. Len(w) /\ w[1] \in Event
        /\ Head(w) = w[1] /\ v \in Seq(Event) /\ Len(v) = Len(w) - 1
        /\ DOMAIN v = 1 .. Len(w) - 1 /\ \A p \in 1 .. Len(w) - 1 : v[p] = w[p + 1]
    BY DEF Takes
  <1>2. 1 \in Place(w) /\ 0 \in Place(v) /\ 0 \in Place(w)  BY <1>1 DEF Place
  <1>3. ASSUME NEW p \in Place(v) PROVE Fresh(v, p) <=> Fresh(w, p + 1)
    <2>1. p \in Nat  BY DEF Place
    <2>2. ASSUME Fresh(v, p), NEW q \in DOMAIN w, q > p + 1 PROVE w[q].ev # "overwrite"
      <3>1. q - 1 \in DOMAIN v /\ q - 1 > p /\ v[q - 1] = w[(q - 1) + 1] /\ (q - 1) + 1 = q
        BY <1>1, <2>1, <2>2
      <3> QED BY <2>2, <3>1 DEF Fresh
    <2>3. ASSUME Fresh(w, p + 1), NEW q \in DOMAIN v, q > p PROVE v[q].ev # "overwrite"
      <3>1. q + 1 \in DOMAIN w /\ q + 1 > p + 1 /\ v[q] = w[q + 1]
        BY <1>1, <2>1, <2>3
      <3> QED BY <2>3, <3>1 DEF Fresh
    <2> QED BY <2>2, <2>3 DEF Fresh
  <1>4. ASSUME NEW p \in Place(v), p # 0
        PROVE  /\ p + 1 \in Place(w) /\ \A l, m : At(m, v, p) = At(l, w, p + 1)
               /\ (ListAt(v, p) <=> ListAt(w, p + 1))
    <2>1. p \in 1 .. Len(w) - 1 /\ p + 1 \in 1 .. Len(w) /\ p + 1 # 0
      BY <1>1, <1>4 DEF Place
    <2>2. v[p] = w[p + 1]  BY <1>1, <2>1
    <2> QED BY <1>1, <1>4, <2>1, <2>2 DEF Place, At, ListAt
  <1>5. \A p \in Place(v) : p # 0 => (Lives(v, p) <=> Lives(w, p + 1))
    BY <1>3, <1>4 DEF Lives
  <1>6. \A p \in Place(w) : p > 1 => p - 1 \in Place(v) /\ p - 1 # 0 /\ (p - 1) + 1 = p
    BY <1>1 DEF Place
  <1>7. Fresh(w, 0) <=> Fresh(w, 1) /\ w[1].ev # "overwrite"
    <2>1. \A q \in DOMAIN w : q > 0 <=> q = 1 \/ q > 1  BY <1>1
    <2>2. 1 \in DOMAIN w  BY <1>1
    <2> QED BY <2>1, <2>2 DEF Fresh
  <1>8. (ListAt(w, 1) <=> w[1].ev = "list") /\ ~ListAt(v, 0) /\ ~ListAt(w, 0)
    BY <1>1 DEF ListAt
  <1>9. Lives(v, 0) <=> Fresh(w, 1)
    <2>1. 0 + 1 = 1  OBVIOUS
    <2> QED BY <1>2, <1>3, <1>8, <2>1 DEF Lives
  <1>10. (Lives(w, 0) <=> Fresh(w, 0)) /\ (Lives(w, 1) <=> Fresh(w, 1) /\ w[1].ev # "list")
    BY <1>2, <1>8 DEF Lives
  <1> QED BY <1>1, <1>2, <1>3, <1>4, <1>5, <1>6, <1>7, <1>8, <1>9, <1>10

\* What was after a beat still is.
LEMMA SentAfter ==
    ASSUME NEW l, NEW w \in Seq(Event), NEW e \in Event, NEW v, Sends(v, w, e),
           e.ev # "overwrite",
           NEW p \in Place(w), NEW j, NEW h, After(l, w, p, j, h)
    PROVE  After(l, v, p, j, h)
  <1>1. /\ At(l, v, p) = At(l, w, p)
        /\ \A q \in Place(w) : /\ q \in Place(v) /\ At(l, v, q) = At(l, w, q)
                               /\ Lives(v, q) <=> Lives(w, q)
    BY SentPlaces
  <1> QED BY <1>1 DEF After, Has

LEMMA SentSeen ==
    ASSUME NEW l, NEW w \in Seq(Event), NEW e \in Event, NEW v, Sends(v, w, e),
           e.ev # "overwrite",
           NEW b, Seen(l, w, b)
    PROVE  Seen(l, v, b)
  <1>1. \A q \in Place(w) : /\ q \in Place(v) /\ At(l, v, q) = At(l, w, q)
                            /\ Lives(v, q) <=> Lives(w, q)
    BY SentPlaces
  <1> QED BY <1>1 DEF Seen, Has

Joined(A, x, B) == B \in SUBSET (A \cup {x})

LEMMA BeatSent ==
    ASSUME NEW l, NEW w \in Seq(Event), NEW e \in Event, NEW v, Sends(v, w, e),
           e.ev = "beat",
           NEW x \in Beat, DOMAIN e.rows = {1}, e.rows[1] = x, NEW A, NEW B,
           Joined(A, x, B)
    PROVE  /\ InOrder(l, w, A) /\ (\A h \in B : ~(h > x)) => InOrder(l, v, B)
           /\ Seen(l, v, x)
  <1>1. /\ Len(v) \in Place(v) /\ At(l, v, Len(v)) = e.rows /\ Lives(v, Len(v))
        /\ \A p \in Place(v) : p = Len(v) \/ (p \in Place(w) /\ p < Len(v))
        /\ \A p \in Place(w) : At(l, v, p) = At(l, w, p) /\ (Lives(v, p) <=> Lives(w, p))
    <2>1. e.ev # "list" /\ e.ev # "overwrite"  OBVIOUS
    <2>2. /\ Len(v) \in Place(v) /\ At(l, v, Len(v)) = e.rows /\ Lives(v, Len(v))
      BY <2>1, SentPlaces
    <2>3. \A p \in Place(v) : p = Len(v) \/ (p \in Place(w) /\ p < Len(v))
      BY SentPlaces
    <2>4. \A p \in Place(w) : At(l, v, p) = At(l, w, p) /\ (Lives(v, p) <=> Lives(w, p))
      BY <2>1, SentPlaces
    <2> QED BY <2>2, <2>3, <2>4
  <1>2. Has(l, v, Len(v), x)  BY <1>1 DEF Has
  <1>3. Seen(l, v, x)
    BY <1>1, <1>2 DEF Seen
  <1>5. ASSUME InOrder(l, w, A), \A h \in B : ~(h > x) PROVE InOrder(l, v, B)
    <2> SUFFICES ASSUME NEW p \in Place(v), Lives(v, p), NEW j \in DOMAIN At(l, v, p),
                        NEW h \in B, h > At(l, v, p)[j]
                 PROVE  After(l, v, p, j, h)
      BY DEF InOrder
    <2>1. CASE p = Len(v)
      <3>1. At(l, v, p)[j] = x  BY <1>1, <2>1
      <3> QED BY <1>5, <3>1
    <2>2. CASE p # Len(v)
      <3>1. p \in Place(w) /\ p < Len(v)  BY <1>1, <2>2
      <3>2. CASE h = x
        BY <1>1, <1>2, <3>1, <3>2 DEF After
      <3>3. CASE h # x
        <4>1. h \in A /\ Lives(w, p) /\ j \in DOMAIN At(l, w, p) /\ h > At(l, w, p)[j]
          BY <1>1, <3>1, <3>3 DEF Joined
        <4>2. After(l, w, p, j, h)  BY <1>5, <3>1, <4>1 DEF InOrder
        <4> QED BY <3>1, <4>2, SentAfter
      <3> QED BY <3>2, <3>3
    <2> QED BY <2>1, <2>2
  <1> QED BY <1>3, <1>5

LEMMA BeatCovers ==
    ASSUME NEW l, NEW w \in Seq(Event), NEW e \in Event, NEW v, Sends(v, w, e),
           e.ev = "beat",
           NEW x \in Beat, DOMAIN e.rows = {1}, e.rows[1] = x, NEW A, NEW B,
           Joined(A, x, B), NEW R, Covers(l, w, A, R)
    PROVE  Covers(l, v, B, R)
  <1>1. Seen(l, v, x)  BY BeatSent
  <1>2. \A b : Seen(l, w, b) => Seen(l, v, b)
    <2>1. e.ev # "overwrite"  OBVIOUS
    <2> QED BY <2>1, SentSeen
  <1> QED BY <1>1, <1>2 DEF Covers, Joined

Holds(rows, A) == \A b \in A : \E i \in DOMAIN rows : rows[i] = b

\* A list that takes the place of all others holds all of A.
LEMMA OverwriteSent ==
    ASSUME NEW l, NEW w \in Seq(Event), NEW e \in Event, NEW v, Sends(v, w, e),
           e.ev = "overwrite",
           Rising(e.rows), NEW A, Holds(e.rows, A)
    PROVE  /\ InOrder(l, v, A)
           /\ \A b \in A : Seen(l, v, b)
           /\ \A p \in Place(v) : Fresh(v, p) => p = Len(v)
           /\ At(l, v, Len(v)) = e.rows
  <1> DEFINE z == Len(v)
  <1>1. /\ z \in Place(v) /\ At(l, v, z) = e.rows /\ Lives(v, z)
        /\ \A p \in Place(v) : Fresh(v, p) => p = z
    BY SentPlaces
  <1>2. /\ DOMAIN e.rows \subseteq Nat
        /\ \A i \in DOMAIN e.rows : e.rows[i] \in Int
    BY RowsAre DEF Event
  <1> HIDE DEF z
  <1>3. ASSUME NEW h \in A PROVE Has(l, v, z, h)
    BY <1>1, <1>3 DEF Has, Holds
  <1>4. \A b \in A : Seen(l, v, b)  BY <1>1, <1>3 DEF Seen
  <1>5. InOrder(l, v, A)
    <2> SUFFICES ASSUME NEW p \in Place(v), Lives(v, p), NEW j \in DOMAIN At(l, v, p),
                        NEW h \in A, h > At(l, v, p)[j]
                 PROVE  After(l, v, p, j, h)
      BY DEF InOrder
    <2>1. p = z  BY <1>1 DEF Lives
    <2>2. PICK k \in DOMAIN e.rows : e.rows[k] = h  BY DEF Holds
    <2>3. j \in DOMAIN e.rows /\ h > e.rows[j]  BY <1>1, <2>1
    <2>4. j \in Nat /\ k \in Nat /\ e.rows[j] \in Int /\ e.rows[k] \in Int
      BY <1>2, <2>3
    <2>5. k > j  BY <2>2, <2>3, <2>4 DEF Rising
    <2> QED BY <1>1, <2>1, <2>2, <2>5 DEF After
  <1> QED BY <1>1, <1>4, <1>5 DEF z

\* A list of a login changes nothing until it is taken.
LEMMA ListSent ==
    ASSUME NEW l, NEW w \in Seq(Event), NEW e \in Event, NEW v, Sends(v, w, e),
           e.ev = "list", NEW A
    PROVE  /\ InOrder(l, w, A) => InOrder(l, v, A)
           /\ \A R : Covers(l, w, A, R) => Covers(l, v, A, R)
           /\ \A b : Seen(l, w, b) => Seen(l, v, b)
  <1>1. \A b : Seen(l, w, b) => Seen(l, v, b)  BY SentSeen
  <1>2. /\ ~Lives(v, Len(v)) /\ \A p \in Place(v) : p = Len(v) \/ p \in Place(w)
        /\ \A p \in Place(w) : At(l, v, p) = At(l, w, p) /\ (Lives(v, p) <=> Lives(w, p))
    BY SentPlaces
  <1>3. ASSUME InOrder(l, w, A) PROVE InOrder(l, v, A)
    <2> SUFFICES ASSUME NEW p \in Place(v), Lives(v, p), NEW j \in DOMAIN At(l, v, p),
                        NEW h \in A, h > At(l, v, p)[j]
                 PROVE  After(l, v, p, j, h)
      BY DEF InOrder
    <2>1. p \in Place(w)  BY <1>2
    <2>2. Lives(w, p) /\ j \in DOMAIN At(l, w, p) /\ h > At(l, w, p)[j]
      BY <1>2, <2>1
    <2>3. After(l, w, p, j, h)  BY <1>3, <2>1, <2>2 DEF InOrder
    <2> QED BY <2>1, <2>3, SentAfter
  <1>4. \A R : Covers(l, w, A, R) => Covers(l, v, A, R)
    BY <1>1 DEF Covers
  <1> QED BY <1>1, <1>3, <1>4

\* What becomes of the list of a browser that takes an event.
Merges(m, l, ev, rows) ==
    /\ ev = "beat" => m = Append(l, rows[1])
    /\ ev = "overwrite" => m = rows
    /\ ev = "list" => m = rows \o l

LEMMA MergedRows ==
    ASSUME NEW l \in Seq(Beat), NEW ev \in {"beat", "list", "overwrite"},
           NEW rows \in Seq(Beat), ev = "beat" => Len(rows) = 1,
           NEW m, Merges(m, l, ev, rows)
    PROVE  /\ m \in Seq(Beat)
           /\ \A k \in DOMAIN m : \/ \E i \in DOMAIN rows : m[k] = rows[i]
                                  \/ ev # "overwrite" /\ \E i \in DOMAIN l : m[k] = l[i]
           /\ \A i \in DOMAIN rows : \E k \in DOMAIN m : m[k] = rows[i]
           /\ ev # "overwrite" => \A i \in DOMAIN l : \E k \in DOMAIN m : m[k] = l[i]
  <1>1. /\ DOMAIN l = 1 .. Len(l) /\ Len(l) \in Nat
        /\ DOMAIN rows = 1 .. Len(rows) /\ Len(rows) \in Nat
    OBVIOUS
  <1>2. CASE ev = "beat"
    <2>1. /\ m \in Seq(Beat) /\ DOMAIN m = 1 .. Len(l) + 1 /\ m[Len(l) + 1] = rows[1]
          /\ \A i \in 1 .. Len(l) : m[i] = l[i]
      <3>1. rows[1] \in Beat  BY <1>1, <1>2
      <3> QED BY <1>1, <1>2, <3>1 DEF Merges
    <2>2. DOMAIN rows = {1}  BY <1>1, <1>2
    <2>3. \A k \in DOMAIN m : k \in DOMAIN l \/ k = Len(l) + 1  BY <1>1, <2>1
    <2>4. Len(l) + 1 \in DOMAIN m /\ \A i \in DOMAIN l : i \in DOMAIN m /\ m[i] = l[i]
      BY <1>1, <2>1
    <2> QED BY <1>2, <2>1, <2>2, <2>3, <2>4
  <1>3. CASE ev = "overwrite"  BY <1>1, <1>3 DEF Merges
  <1>4. CASE ev = "list"
    <2>1. /\ m \in Seq(Beat) /\ DOMAIN m = 1 .. Len(rows) + Len(l)
          /\ \A i \in 1 .. Len(rows) + Len(l) :
                m[i] = IF i <= Len(rows) THEN rows[i] ELSE l[i - Len(rows)]
      <3>1. m = rows \o l  BY <1>4 DEF Merges
      <3>2. /\ rows \o l \in Seq(Beat) /\ Len(rows \o l) = Len(rows) + Len(l)
            /\ \A i \in 1 .. Len(rows) + Len(l) : (rows \o l)[i] =
                  IF i <= Len(rows) THEN rows[i] ELSE l[i - Len(rows)]
        OBVIOUS
      <3> QED BY <1>1, <3>1, <3>2
    <2>2. \A k \in DOMAIN m : \/ k \in DOMAIN rows /\ m[k] = rows[k]
                              \/ k - Len(rows) \in DOMAIN l /\ m[k] = l[k - Len(rows)]
      BY <1>1, <2>1
    <2>3. \A i \in DOMAIN rows : i \in DOMAIN m /\ m[i] = rows[i]  BY <1>1, <2>1
    <2>4. \A i \in DOMAIN l : /\ i + Len(rows) \in DOMAIN m /\ i + Len(rows) > Len(rows)
                              /\ i + Len(rows) - Len(rows) = i
      BY <1>1, <2>1
    <2>5. \A i \in DOMAIN l : m[i + Len(rows)] = l[i]  BY <1>1, <2>1, <2>4
    <2> QED BY <1>4, <2>1, <2>2, <2>3, <2>4, <2>5
  <1> QED BY <1>2, <1>3, <1>4

\* h is after the first event on its way.
Later(l, w, h) == \E q \in Place(w) : q > 1 /\ Lives(w, q) /\ Has(l, w, q, h)

LEMMA LaterComes ==
    ASSUME NEW l, NEW m, NEW w \in Seq(Event), NEW v, Takes(v, w), NEW h, Later(l, w, h)
    PROVE  Seen(m, v, h) /\ \A j : After(m, v, 0, j, h)
  <1>1. PICK q \in Place(w) : q > 1 /\ Lives(w, q) /\ Has(l, w, q, h)  BY DEF Later
  <1>2. /\ q - 1 \in Place(v) /\ q - 1 # 0 /\ (q - 1) + 1 = q
    BY <1>1, TakenPlaces
  <1> DEFINE n == q - 1
  <1>3. n \in Place(v) /\ n # 0 /\ n + 1 = q /\ n > 0  BY <1>2 DEF Place
  <1> HIDE DEF n
  <1>4. At(m, v, n) = At(l, w, n + 1) /\ (Lives(v, n) <=> Lives(w, n + 1))
    BY <1>3, TakenPlaces
  <1>5. Lives(v, n) /\ Has(m, v, n, h)  BY <1>1, <1>3, <1>4 DEF Has
  <1> QED BY <1>3, <1>5 DEF Seen, After

\* What was behind the first event is in order behind the list.
LEMMA TakenInOrder ==
    ASSUME NEW l, NEW m, NEW w \in Seq(Event), NEW v, Takes(v, w), NEW A,
           InOrder(l, w, A),
           NEW p \in Place(v), p # 0, Lives(v, p), NEW j \in DOMAIN At(m, v, p),
           NEW h \in A, h > At(m, v, p)[j]
    PROVE  After(m, v, p, j, h)
  <1> DEFINE n == p + 1
  <1>1. /\ n \in Place(w) /\ At(m, v, p) = At(l, w, n) /\ (Lives(v, p) <=> Lives(w, n))
    BY TakenPlaces
  <1>2. n > 1 /\ n - 1 = p /\ p \in Nat /\ n \in Nat  BY DEF Place
  <1> HIDE DEF n
  <1>3. After(l, w, n, j, h)
    BY <1>1 DEF InOrder
  <1>4. CASE \E k \in DOMAIN At(l, w, n) : k > j /\ At(l, w, n)[k] = h
    BY <1>1, <1>4 DEF After
  <1>5. CASE \E q \in Place(w) : q > n /\ Lives(w, q) /\ Has(l, w, q, h)
    <2>1. PICK q \in Place(w) : q > n /\ Lives(w, q) /\ Has(l, w, q, h)  BY <1>5
    <2>2. q > 1 /\ q \in Nat  BY <1>2, <2>1 DEF Place
    <2> DEFINE r == q - 1
    <2>3. r \in Place(v) /\ r # 0 /\ r + 1 = q  BY <2>2, TakenPlaces
    <2>4. r > p  BY <1>2, <2>1, <2>2 DEF Place
    <2> HIDE DEF r
    <2>5. At(m, v, r) = At(l, w, r + 1) /\ (Lives(v, r) <=> Lives(w, r + 1))
      BY <2>3, TakenPlaces
    <2>6. Lives(v, r) /\ Has(m, v, r, h)  BY <2>1, <2>3, <2>5 DEF Has
    <2> QED BY <2>3, <2>4, <2>6 DEF After
  <1> QED BY <1>3, <1>4, <1>5 DEF After

LEMMA FirstAfter ==
    ASSUME NEW l, NEW w \in Seq(Event), NEW p \in {0, 1}, NEW j, NEW h,
           After(l, w, p, j, h)
    PROVE  \/ \E k \in DOMAIN At(l, w, p) : k > j /\ At(l, w, p)[k] = h
           \/ p = 0 /\ Lives(w, 1) /\ Has(l, w, 1, h)
           \/ Later(l, w, h)
  <1>1. CASE \E q \in Place(w) : q > p /\ Lives(w, q) /\ Has(l, w, q, h)
    <2>1. PICK q \in Place(w) : q > p /\ Lives(w, q) /\ Has(l, w, q, h)  BY <1>1
    <2>2. q > 1 \/ (q = 1 /\ p = 0)  BY <2>1 DEF Place
    <2> QED BY <2>1, <2>2 DEF Later
  <1> QED BY <1>1 DEF After

\* What is shown stays shown.
LEMMA TakenSeen ==
    ASSUME NEW l \in Seq(Beat), NEW w \in Seq(Event), NEW v, Takes(v, w), NEW m,
           w[1].ev = "beat" => Len(w[1].rows) = 1,
           Merges(m, l, w[1].ev, w[1].rows), NEW b, Seen(l, w, b)
    PROVE  Seen(m, v, b)
  <1>1. PICK p \in Place(w) : Lives(w, p) /\ Has(l, w, p, b)  BY DEF Seen
  <1>2. w[1] \in Event /\ 0 \in Place(v)  BY TakenPlaces
  <1> DEFINE ev == w[1].ev
             rows == w[1].rows
  <1>3. /\ ev \in {"beat", "list", "overwrite"} /\ rows \in Seq(Beat)
    BY <1>2 DEF Event
  <1>4. /\ \A i \in DOMAIN rows : \E k \in DOMAIN m : m[k] = rows[i]
        /\ ev # "overwrite" => \A i \in DOMAIN l : \E k \in DOMAIN m : m[k] = l[i]
    <2> HIDE DEF ev, rows
    <2> QED BY <1>3, MergedRows DEF ev, rows
  <1>5. CASE p = 0
    <2>1. Fresh(w, 0)  BY <1>1, <1>5 DEF Lives
    <2>2. Fresh(w, 1) /\ ev # "overwrite"  BY <2>1, TakenPlaces
    <2>3. Lives(v, 0)  BY <2>2, TakenPlaces
    <2>4. \E i \in DOMAIN l : l[i] = b  BY <1>1, <1>5 DEF Has, At
    <2>5. Has(m, v, 0, b)  BY <1>4, <2>2, <2>4 DEF Has, At
    <2> QED BY <1>2, <2>3, <2>5 DEF Seen
  <1>6. CASE p = 1
    <2>1. Fresh(w, 1)  BY <1>1, <1>6 DEF Lives
    <2>2. Lives(v, 0)  BY <2>1, TakenPlaces
    <2>3. \E i \in DOMAIN rows : rows[i] = b  BY <1>1, <1>6 DEF Has, At
    <2>4. Has(m, v, 0, b)  BY <1>4, <2>3 DEF Has, At
    <2> QED BY <1>2, <2>2, <2>4 DEF Seen
  <1>7. CASE p \notin {0, 1}
    <2>1. p > 1  BY <1>7 DEF Place
    <2>2. Later(l, w, b)  BY <1>1, <2>1 DEF Later
    <2> QED BY <2>2, LaterComes
  <1> QED BY <1>5, <1>6, <1>7

\* The list of a browser is in order when it has taken an event; for the list of
\* a login because it covers what was there.
LEMMA TakenOrder ==
    ASSUME NEW l \in Seq(Beat), NEW w \in Seq(Event), NEW v, Takes(v, w), NEW m,
           IF w[1].ev = "beat" THEN Len(w[1].rows) = 1 ELSE Rising(w[1].rows),
           Merges(m, l, w[1].ev, w[1].rows), NEW A \in SUBSET Beat,
           InOrder(l, w, A),
           w[1].ev = "list" /\ Fresh(w, 1) => Covers(l, w, A, w[1].rows)
    PROVE  InOrder(m, v, A)
  <1>2. w[1] \in Event /\ 0 \in Place(v) /\ 1 \in Place(w) /\ 0 \in Place(w)
    BY TakenPlaces DEF Place
  <1> DEFINE ev == w[1].ev
             rows == w[1].rows
  <1>3. ev \in {"beat", "list", "overwrite"} /\ rows \in Seq(Beat)
    BY <1>2 DEF Event
  <1>4. /\ DOMAIN l = 1 .. Len(l) /\ Len(l) \in Nat /\ DOMAIN rows = 1 .. Len(rows)
        /\ Len(rows) \in Nat
        /\ \A i \in DOMAIN l : l[i] \in Int
        /\ \A i \in DOMAIN rows : rows[i] \in Beat /\ rows[i] \in Int
    <2> HIDE DEF ev, rows
    <2> QED BY <1>3, RowsAre
  <1>5. At(l, w, 0) = l /\ At(l, w, 1) = rows /\ At(m, v, 0) = m  BY DEF At
  <1> SUFFICES ASSUME Fresh(w, 1), NEW j \in DOMAIN m, NEW h \in A, h > m[j]
               PROVE  After(m, v, 0, j, h)
    <2>1. ASSUME NEW p \in Place(v), Lives(v, p), NEW j \in DOMAIN At(m, v, p),
                 NEW h \in A, h > At(m, v, p)[j]
          PROVE  After(m, v, p, j, h)
      <3>1. CASE p = 0
        <4>1. Fresh(w, 1)  BY <2>1, <3>1, TakenPlaces
        <4> QED BY <1>5, <2>1, <3>1, <4>1
      <3>2. CASE p # 0  BY <2>1, <3>2, TakenInOrder
      <3> QED BY <3>1, <3>2
    <2> QED BY <2>1 DEF InOrder
  <1>6. h \in Int
    <2>1. h \in Beat  OBVIOUS
    <2> QED BY ONLY <2>1, FeedAssumption DEF Beat
  <1>7. (Lives(w, 0) <=> ev # "overwrite") /\ (Lives(w, 1) <=> ev # "list")
    BY TakenPlaces
  <1>8. ASSUME NEW k \in DOMAIN m, k > j, m[k] = h PROVE After(m, v, 0, j, h)
    BY <1>5, <1>8 DEF After
  <1>9. Later(l, w, h) => After(m, v, 0, j, h)  BY LaterComes
  <1>10. ASSUME Lives(w, 0), NEW i \in DOMAIN l, h > l[i]
         PROVE  \/ \E k \in DOMAIN l : k > i /\ l[k] = h
                \/ Lives(w, 1) /\ \E k \in DOMAIN rows : rows[k] = h
                \/ Later(l, w, h)
    <2>1. After(l, w, 0, i, h)  BY <1>2, <1>5, <1>10 DEF InOrder
    <2>2. \/ \E k \in DOMAIN At(l, w, 0) : k > i /\ At(l, w, 0)[k] = h
          \/ 0 = 0 /\ Lives(w, 1) /\ Has(l, w, 1, h)
          \/ Later(l, w, h)
      BY <2>1, FirstAfter
    <2> QED BY <1>5, <2>2 DEF Has
  <1>11. ASSUME Lives(w, 1), NEW i \in DOMAIN rows, h > rows[i]
         PROVE  \/ \E k \in DOMAIN rows : k > i /\ rows[k] = h
                \/ Later(l, w, h)
    <2>1. After(l, w, 1, i, h)  BY <1>2, <1>5, <1>11 DEF InOrder
    <2>2. \/ \E k \in DOMAIN At(l, w, 1) : k > i /\ At(l, w, 1)[k] = h
          \/ 1 = 0 /\ Lives(w, 1) /\ Has(l, w, 1, h)
          \/ Later(l, w, h)
      <3>1. 1 \in {0, 1}  OBVIOUS
      <3> QED BY ONLY <2>1, <3>1, FirstAfter, w \in Seq(Event)
    <2> QED BY <1>5, <2>2
  <1> HIDE DEF ev, rows
  <1>12. CASE ev = "beat"
    <2>1. /\ DOMAIN m = 1 .. Len(l) + 1 /\ m[Len(l) + 1] = rows[1]
          /\ \A i \in 1 .. Len(l) : m[i] = l[i]
      <3>1. m = Append(l, rows[1])  BY <1>12 DEF Merges, ev, rows
      <3> QED BY <3>1
    <2>2. DOMAIN rows = {1}
      <3>1. Len(rows) = 1  BY <1>12 DEF ev, rows
      <3> QED BY <1>4, <3>1
    <2>3. CASE j \in DOMAIN l
      <3>1. h > l[j]  BY <1>4, <2>1, <2>3
      <3>2. CASE \E k \in DOMAIN l : k > j /\ l[k] = h
        <4>1. PICK k \in DOMAIN l : k > j /\ l[k] = h  BY <3>2
        <4>2. k \in DOMAIN m /\ m[k] = h  BY <1>4, <2>1, <4>1
        <4> QED BY <1>8, <4>1, <4>2
      <3>3. CASE \E k \in DOMAIN rows : rows[k] = h
        <4>1. rows[1] = h  BY <2>2, <3>3
        <4>2. Len(l) + 1 \in DOMAIN m /\ Len(l) + 1 > j  BY <1>4, <2>1, <2>3
        <4> QED BY <1>8, <2>1, <4>1, <4>2
      <3> QED BY <1>7, <1>9, <1>10, <1>12, <2>3, <3>1, <3>2, <3>3
    <2>4. CASE j = Len(l) + 1
      <3>1. 1 \in DOMAIN rows /\ h > rows[1]  BY <2>1, <2>2, <2>4
      <3>2. ~ \E k \in DOMAIN rows : k > 1 /\ rows[k] = h  BY <2>2
      <3> QED BY <1>7, <1>9, <1>11, <1>12, <3>1, <3>2
    <2>5. j \in DOMAIN l \/ j = Len(l) + 1  BY <1>4, <2>1
    <2> QED BY <2>3, <2>4, <2>5
  <1>13. CASE ev = "overwrite"
    <2>1. m = rows  BY <1>13 DEF Merges, ev, rows
    <2>2. \/ \E k \in DOMAIN rows : k > j /\ rows[k] = h
          \/ Later(l, w, h)
      BY <1>7, <1>11, <1>13, <2>1
    <2> QED BY <1>8, <1>9, <2>1, <2>2
  <1>14. CASE ev = "list"
    <2>1. /\ DOMAIN m = 1 .. Len(rows) + Len(l)
          /\ \A i \in 1 .. Len(rows) + Len(l) :
                m[i] = IF i <= Len(rows) THEN rows[i] ELSE l[i - Len(rows)]
      <3>1. m = rows \o l  BY <1>14 DEF Merges, ev, rows
      <3>2. /\ Len(rows \o l) = Len(rows) + Len(l)
            /\ DOMAIN (rows \o l) = 1 .. Len(rows) + Len(l)
            /\ \A i \in 1 .. Len(rows) + Len(l) : (rows \o l)[i] =
                  IF i <= Len(rows) THEN rows[i] ELSE l[i - Len(rows)]
        BY <1>3
      <3> QED BY <3>1, <3>2
    <2>2. Rising(rows) /\ Covers(l, w, A, rows)  BY <1>14 DEF ev, rows
    <2>3. \A i \in DOMAIN rows : i \in DOMAIN m /\ m[i] = rows[i]  BY <1>4, <2>1
    <2>4. \A i \in DOMAIN l : /\ i + Len(rows) \in DOMAIN m /\ i + Len(rows) > Len(rows)
                              /\ m[i + Len(rows)] = l[i]
      <3>1. \A i \in DOMAIN l : /\ i + Len(rows) \in DOMAIN m /\ i + Len(rows) > Len(rows)
                                /\ i + Len(rows) - Len(rows) = i
        BY <1>4, <2>1
      <3> QED BY <1>4, <2>1, <3>1
    <2>5. CASE j \in DOMAIN rows
      <3>1. h > rows[j]  BY <2>3, <2>5
      <3>2. ASSUME NEW i \in DOMAIN rows, rows[i] = h PROVE After(m, v, 0, j, h)
        <4>1. i \in Nat /\ j \in Nat /\ rows[i] \in Int /\ rows[j] \in Int
          BY <1>4, <2>5
        <4>2. i > j
          BY <2>2, <2>5, <3>1, <3>2, <4>1 DEF Rising
        <4> QED BY <1>8, <2>3, <3>2, <4>2
      <3>3. ASSUME Seen(l, w, h) PROVE After(m, v, 0, j, h)
        <4>1. PICK p \in Place(w) : Lives(w, p) /\ Has(l, w, p, h)  BY <3>3 DEF Seen
        <4>2. CASE p = 0
          <5>1. PICK i \in DOMAIN l : l[i] = h  BY <1>5, <4>1, <4>2 DEF Has
          <5>2. i + Len(rows) \in DOMAIN m /\ m[i + Len(rows)] = h  BY <2>4, <5>1
          <5>3. i + Len(rows) > j  BY <1>4, <2>5
          <5> QED BY <1>8, <5>2, <5>3
        <4>3. p # 1  BY <1>7, <1>14, <4>1
        <4>4. CASE p > 1
          BY <1>9, <4>1, <4>4 DEF Later
        <4> QED BY <4>2, <4>3, <4>4 DEF Place
      <3>4. ~ \A i \in DOMAIN rows : h < rows[i]  BY <1>4, <1>6, <2>5, <3>1
      <3> QED BY <2>2, <3>2, <3>3, <3>4 DEF Covers
    <2>6. CASE j - Len(rows) \in DOMAIN l /\ m[j] = l[j - Len(rows)]
      <3> DEFINE i == j - Len(rows)
      <3>1. i \in DOMAIN l /\ h > l[i] /\ j \in Nat  BY <1>4, <2>1, <2>6
      <3>2. CASE \E k \in DOMAIN l : k > i /\ l[k] = h
        <4>1. PICK k \in DOMAIN l : k > i /\ l[k] = h  BY <3>2
        <4>2. k + Len(rows) \in DOMAIN m /\ m[k + Len(rows)] = h  BY <2>4, <4>1
        <4>3. k + Len(rows) > j  BY <1>4, <3>1, <4>1
        <4> QED BY <1>8, <4>2, <4>3
      <3> HIDE DEF i
      <3> QED BY <1>7, <1>9, <1>10, <1>14, <3>1, <3>2
    <2>7. j \in DOMAIN rows \/ (j - Len(rows) \in DOMAIN l /\ m[j] = l[j - Len(rows)])
      BY <1>4, <2>1
    <2> QED BY <2>5, <2>6, <2>7
  <1> QED BY <1>3, <1>12, <1>13, <1>14

\* Where the beats of the new list were.
LEMMA TakenFrom ==
    ASSUME NEW l \in Seq(Beat), NEW w \in Seq(Event), NEW v, Takes(v, w), NEW m,
           w[1].ev = "beat" => Len(w[1].rows) = 1,
           Merges(m, l, w[1].ev, w[1].rows),
           NEW p \in Place(v), NEW b, Has(m, v, p, b)
    PROVE  \E q \in Place(w) : Has(l, w, q, b) /\ (Fresh(v, p) => Fresh(w, q))
                               /\ (Fresh(w, q) => Fresh(v, p))
  <1>1. CASE p # 0
    <2> DEFINE n == p + 1
    <2>1. /\ n \in Place(w) /\ At(m, v, p) = At(l, w, n) /\ (Fresh(v, p) <=> Fresh(w, n))
      BY <1>1, TakenPlaces
    <2> HIDE DEF n
    <2> QED BY <2>1 DEF Has
  <1>2. CASE p = 0
    <2>1. w[1] \in Event /\ 0 \in Place(v) /\ 1 \in Place(w) /\ 0 \in Place(w)
      BY TakenPlaces DEF Place
    <2> DEFINE ev == w[1].ev
               rows == w[1].rows
    <2>2. ev \in {"beat", "list", "overwrite"} /\ rows \in Seq(Beat)
      BY <2>1 DEF Event
    <2>3. \A k \in DOMAIN m : \/ \E i \in DOMAIN rows : m[k] = rows[i]
                              \/ ev # "overwrite" /\ \E i \in DOMAIN l : m[k] = l[i]
      <3> HIDE DEF ev, rows
      <3> QED BY <2>2, MergedRows DEF ev, rows
    <2>4. /\ 0 + 1 = 1 /\ (Fresh(v, 0) <=> Fresh(w, 0 + 1))
          /\ (Fresh(w, 0) <=> Fresh(w, 1) /\ ev # "overwrite")
      BY <2>1, TakenPlaces
    <2>5. PICK k \in DOMAIN m : m[k] = b  BY <1>2 DEF Has, At
    <2>6. CASE \E i \in DOMAIN rows : m[k] = rows[i]
      <3>1. Has(l, w, 1, b)  BY <2>5, <2>6 DEF Has, At
      <3> QED BY <1>2, <2>1, <2>4, <3>1
    <2>7. CASE ev # "overwrite" /\ \E i \in DOMAIN l : m[k] = l[i]
      <3>1. Has(l, w, 0, b)  BY <2>5, <2>7 DEF Has, At
      <3> QED BY <1>2, <2>1, <2>4, <2>7, <3>1
    <2> QED BY <2>3, <2>6, <2>7
  <1> QED BY <1>1, <1>2

LEMMA TakenRest ==
    ASSUME NEW l \in Seq(Beat), NEW w \in Seq(Event), NEW v, Takes(v, w), NEW m,
           w[1].ev = "beat" => Len(w[1].rows) = 1,
           Merges(m, l, w[1].ev, w[1].rows)
    PROVE  /\ \A A, R : Covers(l, w, A, R) => Covers(m, v, A, R)
           /\ \A S : NoneLost(l, w, S) => NoneLost(m, v, S)
           /\ \A G : Only(l, w, G) => Only(m, v, G)
           /\ Something(l, w) => Something(m, v)
  <1>1. \A b : Seen(l, w, b) => Seen(m, v, b)  BY TakenSeen
  <1>2. \A A, R : Covers(l, w, A, R) => Covers(m, v, A, R)  BY <1>1 DEF Covers
  <1>3. \A p \in Place(v) : \A b : Has(m, v, p, b) =>
           \E q \in Place(w) : Has(l, w, q, b) /\ (Fresh(v, p) => Fresh(w, q))
                               /\ (Fresh(w, q) => Fresh(v, p))
    BY TakenFrom
  <1>4. \A S : NoneLost(l, w, S) => NoneLost(m, v, S)  BY <1>3 DEF NoneLost
  <1>5. \A G : Only(l, w, G) => Only(m, v, G)  BY <1>3 DEF Only
  <1> QED BY <1>1, <1>2, <1>4, <1>5 DEF Something

\* The list of a login that covers all there is shows something, if there is
\* anything.
LEMMA TakenSomething ==
    ASSUME NEW l \in Seq(Beat), NEW w \in Seq(Event), NEW v, Takes(v, w), NEW m,
           w[1].ev = "list", Fresh(w, 1), Merges(m, l, w[1].ev, w[1].rows),
           NEW A, A # {}, Covers(l, w, A, w[1].rows)
    PROVE  Something(m, v)
  <1>1. PICK b : b \in A  OBVIOUS
  <1>2. w[1] \in Event /\ 0 \in Place(v) /\ Lives(v, 0)  BY TakenPlaces
  <1>3. w[1].rows \in Seq(Beat)  BY <1>2 DEF Event
  <1>4. CASE \E i : i \in DOMAIN w[1].rows
    <2>1. PICK i : i \in DOMAIN w[1].rows  BY <1>4
    <2>2. PICK k \in DOMAIN m : m[k] = w[1].rows[i]
      <3> DEFINE rows == w[1].rows
                 ev == w[1].ev
      <3>1. ev = "list" /\ rows \in Seq(Beat) /\ i \in DOMAIN rows /\ Merges(m, l, ev, rows)
        BY <1>3, <2>1
      <3> HIDE DEF rows, ev
      <3>2. \E k \in DOMAIN m : m[k] = rows[i]  BY <3>1, MergedRows
      <3> QED BY <3>2 DEF rows
    <2>3. Has(m, v, 0, m[k])  BY DEF Has, At
    <2> QED BY <1>2, <2>3 DEF Something, Seen
  <1>5. CASE ~ \E i : i \in DOMAIN w[1].rows
    <2>1. Seen(l, w, b)  BY <1>1, <1>5 DEF Covers
    <2>2. Seen(m, v, b)  BY <2>1, TakenSeen
    <2> QED BY <2>2 DEF Something
  <1> QED BY <1>4, <1>5

\* The browser drops its oldest beat.
Drops(n, m) == m # <<>> /\ n = Tail(m)

LEMMA Dropped ==
    ASSUME NEW m \in Seq(Beat), NEW v \in Seq(Event), NEW n, Drops(n, m)
    PROVE  /\ n \in Seq(Beat) /\ Len(n) = Len(m) - 1
           /\ \A A : InOrder(m, v, A) => InOrder(n, v, A)
           /\ \A S : NoneLost(m, v, S) => NoneLost(n, v, S)
           /\ \A G : Only(m, v, G) => Only(n, v, G)
           /\ Len(m) > 1 /\ Something(m, v) => Something(n, v)
           /\ \A p, b : Has(n, v, p, b) => Has(m, v, p, b)
  <1>1. /\ n \in Seq(Beat) /\ Len(n) = Len(m) - 1 /\ Len(m) \in Nat /\ Len(m) > 0
        /\ DOMAIN m = 1 .. Len(m) /\ DOMAIN n = 1 .. Len(m) - 1
        /\ \A i \in 1 .. Len(m) - 1 : n[i] = m[i + 1]
    BY DEF Drops
  <1>2. \A p : p # 0 => At(n, v, p) = At(m, v, p)  BY DEF At
  <1>3. At(n, v, 0) = n /\ At(m, v, 0) = m  BY DEF At
  <1>4. \A p, b : Has(n, v, p, b) => Has(m, v, p, b)
    <2> SUFFICES ASSUME NEW p, NEW b, Has(n, v, p, b) PROVE Has(m, v, p, b)
      OBVIOUS
    <2>1. CASE p = 0
      <3>1. PICK k \in DOMAIN n : n[k] = b  BY <1>3, <2>1 DEF Has
      <3>2. k + 1 \in DOMAIN m /\ m[k + 1] = b  BY <1>1, <3>1
      <3> QED BY <1>3, <2>1, <3>2 DEF Has
    <2> QED BY <1>2, <2>1 DEF Has
  <1>5. \A S : NoneLost(m, v, S) => NoneLost(n, v, S)  BY <1>4 DEF NoneLost
  <1>6. \A G : Only(m, v, G) => Only(n, v, G)  BY <1>4 DEF Only
  <1>7. ASSUME NEW p, NEW j, NEW h, p # 0, p \in Nat, After(m, v, p, j, h)
        PROVE  After(n, v, p, j, h)
    <2>1. \A q \in Place(v) : q > p => q # 0  BY <1>7
    <2> QED BY <1>2, <1>7, <2>1 DEF After, Has
  <1>8. ASSUME NEW A, InOrder(m, v, A) PROVE InOrder(n, v, A)
    <2> SUFFICES ASSUME NEW p \in Place(v), Lives(v, p), NEW j \in DOMAIN At(n, v, p),
                        NEW h \in A, h > At(n, v, p)[j]
                 PROVE  After(n, v, p, j, h)
      BY DEF InOrder
    <2>1. CASE p # 0
      <3>1. p \in Nat  BY DEF Place
      <3>2. After(m, v, p, j, h)  BY <1>2, <1>8, <2>1 DEF InOrder
      <3> QED BY <1>7, <2>1, <3>1, <3>2
    <2>2. CASE p = 0
      <3>1. j \in DOMAIN n /\ j \in Nat /\ h > n[j]  BY <1>1, <1>3, <2>2
      <3> DEFINE i == j + 1
      <3>2. i \in DOMAIN m /\ n[j] = m[i] /\ i = j + 1  BY <1>1, <3>1
      <3> HIDE DEF i
      <3>3. After(m, v, 0, i, h)  BY <1>3, <1>8, <2>2, <3>1, <3>2 DEF InOrder
      <3>4. CASE \E k \in DOMAIN At(m, v, 0) : k > i /\ At(m, v, 0)[k] = h
        <4>1. PICK k \in DOMAIN m : k > i /\ m[k] = h  BY <1>3, <3>4
        <4>2. k \in Nat  BY <1>1
        <4> DEFINE o == k - 1
        <4>3. o \in DOMAIN n /\ o > j /\ o + 1 = k  BY <1>1, <3>1, <3>2, <4>1, <4>2
        <4> HIDE DEF o
        <4>4. n[o] = h  BY <1>1, <4>1, <4>3
        <4> QED BY <1>3, <2>2, <4>3, <4>4 DEF After
      <3>5. CASE \E q \in Place(v) : q > 0 /\ Lives(v, q) /\ Has(m, v, q, h)
        <4>1. PICK q \in Place(v) : q > 0 /\ Lives(v, q) /\ Has(m, v, q, h)  BY <3>5
        <4>2. q # 0  BY <4>1
        <4>3. Has(n, v, q, h)  BY <1>2, <4>1, <4>2 DEF Has
        <4> QED BY <2>2, <4>1, <4>3 DEF After
      <3> QED BY <3>3, <3>4, <3>5 DEF After
    <2> QED BY <2>1, <2>2
  <1>9. ASSUME Len(m) > 1, Something(m, v) PROVE Something(n, v)
    <2>1. PICK b : \E p \in Place(v) : Lives(v, p) /\ Has(m, v, p, b)
      BY <1>9 DEF Something, Seen
    <2>4. PICK p \in Place(v) : Lives(v, p) /\ Has(m, v, p, b)  BY <2>1
    <2>2. CASE p = 0
      <3>1. 1 \in DOMAIN n  BY <1>1, <1>9
      <3>2. Has(n, v, 0, n[1])  BY <1>3, <3>1 DEF Has
      <3> QED BY <2>4, <2>2, <3>2 DEF Something, Seen
    <2>3. CASE p # 0
      <3>1. Has(n, v, p, b)  BY <1>2, <2>3, <2>4 DEF Has
      <3> QED BY <2>4, <3>1 DEF Something, Seen
    <2> QED BY <2>2, <2>3
  <1> QED BY <1>1, <1>4, <1>5, <1>6, <1>8, <1>9

\* Where the beats are when an event has been sent.
LEMMA SentFrom ==
    ASSUME NEW l, NEW w \in Seq(Event), NEW e \in Event, NEW v, Sends(v, w, e),
           NEW p \in Place(v), NEW b, Has(l, v, p, b)
    PROVE  \/ p \in Place(w) /\ Has(l, w, p, b)
           \/ p = Len(v) /\ \E i \in DOMAIN e.rows : e.rows[i] = b
  <1>1. At(l, v, Len(v)) = e.rows /\ (p = Len(v) \/ p \in Place(w))
    BY SentPlaces
  <1>2. CASE p = Len(v)  BY <1>1, <1>2 DEF Has
  <1>3. CASE p \in Place(w)
    <2>1. At(l, v, p) = At(l, w, p)  BY <1>3, SentPlaces
    <2> QED BY <1>3, <2>1 DEF Has
  <1> QED BY <1>1, <1>2, <1>3

\* What a sent event does to what may be shown.
LEMMA SentRest ==
    ASSUME NEW l, NEW w \in Seq(Event), NEW e \in Event, NEW v, Sends(v, w, e)
    PROVE  /\ \A S, B : /\ NoneLost(l, w, S) /\ e.ev # "overwrite"
                        /\ \A b \in B : b \in S \/ \A p \in Place(w) : ~Has(l, w, p, b)
                        => NoneLost(l, v, B)
           /\ \A G : Only(l, w, G) /\ (\A i \in DOMAIN e.rows : e.rows[i] \in G)
                     => Only(l, v, G)
           /\ e.ev # "overwrite" /\ Something(l, w) => Something(l, v)
  <1>1. ASSUME NEW p \in Place(v), NEW b, Has(l, v, p, b)
        PROVE  \/ p \in Place(w) /\ Has(l, w, p, b)
               \/ p = Len(v) /\ \E i \in DOMAIN e.rows : e.rows[i] = b
    BY <1>1, SentFrom
  <1>2. /\ Fresh(v, Len(v))
        /\ \A p \in Place(w) : e.ev # "overwrite" => (Fresh(v, p) <=> Fresh(w, p))
        /\ \A p \in Place(w) : Fresh(v, p) => Fresh(w, p)
    BY SentPlaces
  <1>3. ASSUME NEW S, NEW B, NoneLost(l, w, S), e.ev # "overwrite",
               \A b \in B : b \in S \/ \A p \in Place(w) : ~Has(l, w, p, b)
        PROVE  NoneLost(l, v, B)
    BY <1>1, <1>2, <1>3 DEF NoneLost
  <1>4. ASSUME NEW G, Only(l, w, G), \A i \in DOMAIN e.rows : e.rows[i] \in G
        PROVE  Only(l, v, G)
    BY <1>1, <1>2, <1>4 DEF Only
  <1>5. e.ev # "overwrite" /\ Something(l, w) => Something(l, v)
    BY SentSeen DEF Something
  <1> QED BY <1>3, <1>4, <1>5

---------------------------------------------------------------------------
(* The newest rows                                                         *)

UpTo(T, b) == {c \in T : c <= b}

Rank(T, b) == Cardinality(UpTo(T, b))

\* The beats of a set have the ranks from 1 to its size, in their order.
LEMMA Ranks ==
    ASSUME NEW T \in SUBSET Beat
    PROVE  /\ IsFiniteSet(T) /\ Cardinality(T) \in Nat
           /\ \A b \in T : Rank(T, b) \in 1 .. Cardinality(T)
           /\ \A b, c \in T : b < c <=> Rank(T, b) < Rank(T, c)
           /\ \A k \in 1 .. Cardinality(T) : \E b \in T : Rank(T, b) = k
  <1>1. \A b \in T : b \in Int  BY FeedAssumption DEF Beat
  <1>2. IsFiniteSet(T) /\ Cardinality(T) \in Nat
    <2>1. IsFiniteSet(Beat)  BY FeedAssumption, FS_Interval DEF Beat
    <2>2. IsFiniteSet(T)  BY <2>1, FS_Subset
    <2> QED BY <2>2, FS_CardinalityType
  <1>3. ASSUME NEW b \in T
        PROVE  /\ UpTo(T, b) \in SUBSET T /\ IsFiniteSet(UpTo(T, b))
               /\ Rank(T, b) \in 1 .. Cardinality(T)
    <2>1. UpTo(T, b) \in SUBSET T /\ b \in UpTo(T, b)  BY <1>1 DEF UpTo
    <2>2. IsFiniteSet(UpTo(T, b)) /\ Rank(T, b) <= Cardinality(T)
      BY <1>2, <2>1, FS_Subset DEF Rank
    <2>3. Rank(T, b) \in Nat /\ Rank(T, b) # 0
      BY <2>1, <2>2, FS_CardinalityType, FS_EmptySet DEF Rank
    <2> QED BY <1>2, <2>1, <2>2, <2>3
  <1>4. ASSUME NEW b \in T, NEW c \in T, b < c PROVE Rank(T, b) < Rank(T, c)
    <2>1. UpTo(T, b) \in SUBSET UpTo(T, c) /\ c \in UpTo(T, c) /\ c \notin UpTo(T, b)
      BY <1>1, <1>4 DEF UpTo
    <2>2. /\ Rank(T, b) <= Rank(T, c)
          /\ Cardinality(UpTo(T, b)) = Cardinality(UpTo(T, c)) => UpTo(T, b) = UpTo(T, c)
      BY <1>3, <2>1, FS_Subset DEF Rank
    <2>3. Rank(T, b) # Rank(T, c)
      BY <2>1, <2>2 DEF Rank
    <2> QED BY <1>2, <1>3, <2>2, <2>3
  <1>5. ASSUME NEW b \in T, NEW c \in T, Rank(T, b) < Rank(T, c) PROVE b < c
    <2>1. Rank(T, b) \in Nat /\ Rank(T, c) \in Nat  BY <1>2, <1>3
    <2>2. b = c \/ b < c \/ c < b  BY <1>1
    <2> QED BY <1>4, <1>5, <2>1, <2>2
  <1>6. \A k \in 1 .. Cardinality(T) : \E b \in T : Rank(T, b) = k
    <2> DEFINE f == [b \in T |-> Rank(T, b)]
               K == 1 .. Cardinality(T)
    <2>1. f \in [T -> K]  BY <1>3
    <2>2. ASSUME NEW b \in T, NEW c \in T, f[b] = f[c] PROVE b = c
      <3>1. Rank(T, b) = Rank(T, c)  BY <2>2
      <3>2. b = c \/ b < c \/ c < b  BY <1>1
      <3>3. Rank(T, b) \in Nat /\ Rank(T, c) \in Nat  BY <1>2, <1>3
      <3> QED BY <1>4, <3>1, <3>2, <3>3
    <2>3. f \in Injection(T, K)
      <3> HIDE DEF f
      <3> QED BY <2>1, <2>2 DEF Injection, IsInjective
    <2>4. IsFiniteSet(K) /\ Cardinality(K) = Cardinality(T)
      <3>1. Cardinality(T) \in Int /\ 1 \in Int  BY <1>2
      <3>2. /\ IsFiniteSet(K)
            /\ Cardinality(K) = IF 1 > Cardinality(T) THEN 0 ELSE Cardinality(T) - 1 + 1
        BY <3>1, FS_Interval
      <3> QED BY <1>2, <3>2
    <2>5. f \in Surjection(T, K)
      <3> HIDE DEF f, K
      <3> QED BY <2>3, <2>4, FS_Injection
    <2>6. \A k \in K : \E b \in T : f[b] = k
      <3> HIDE DEF f, K
      <3> QED BY <2>5 DEF Surjection
    <2> QED BY <2>6
  <1> QED BY <1>2, <1>3, <1>4, <1>5, <1>6

Rows(table) == {b \in table : Cardinality({c \in table : c > b}) < ReadLimit}

\* The rows that are read rise, are the newest, and are no more than asked for.
LEMMA NewestRows ==
    ASSUME NEW table \in SUBSET Beat, NEW s, s = Newest(table)
    PROVE  /\ s \in Seq(Beat) /\ Rising(s)
           /\ \A i \in DOMAIN s : s[i] \in table
           /\ \A b \in table : \/ \E i \in DOMAIN s : s[i] = b
                               \/ DOMAIN s # {} /\ \A i \in DOMAIN s : b < s[i]
  <1> DEFINE R == Rows(table)
             N == Cardinality(R)
  <1>1. R \in SUBSET table /\ R \in SUBSET Beat  BY DEF Rows
  <1>2. \A b \in table : b \in Int  BY FeedAssumption DEF Beat
  <1> HIDE DEF R
  <1>3. /\ IsFiniteSet(R) /\ N \in Nat
        /\ \A b \in R : Rank(R, b) \in 1 .. N
        /\ \A b, c \in R : b < c <=> Rank(R, b) < Rank(R, c)
        /\ \A k \in 1 .. N : \E b \in R : Rank(R, b) = k
    BY <1>1, Ranks
  <1>4. /\ IsFiniteSet(table) /\ Cardinality(table) \in Nat
        /\ \A b \in table : Rank(table, b) \in 1 .. Cardinality(table)
        /\ \A b, c \in table : b < c <=> Rank(table, b) < Rank(table, c)
        /\ \A k \in 1 .. Cardinality(table) : \E b \in table : Rank(table, b) = k
    BY Ranks
  <1>5. s = [i \in 1 .. N |-> CHOOSE b \in R : Rank(R, b) = i]
    BY DEF Newest, R, Rows, Rank, UpTo
  <1>6. \A i \in 1 .. N : s[i] \in R /\ Rank(R, s[i]) = i
    <2> SUFFICES ASSUME NEW i \in 1 .. N PROVE s[i] \in R /\ Rank(R, s[i]) = i
      OBVIOUS
    <2>1. \E b \in R : Rank(R, b) = i  BY <1>3
    <2>2. s[i] = CHOOSE b \in R : Rank(R, b) = i  BY <1>5
    <2> QED BY <2>1, <2>2
  <1>7. DOMAIN s = 1 .. N /\ s \in [1 .. N -> Beat]
    <2>1. DOMAIN s = 1 .. N  BY <1>5
    <2>2. s = [i \in 1 .. N |-> s[i]]  BY <1>5
    <2> QED BY <1>1, <1>6, <2>1, <2>2
  <1>8. s \in Seq(Beat) /\ Len(s) = N  BY <1>3, <1>7
  <1>9. \A b \in R : \E i \in DOMAIN s : s[i] = b
    <2> SUFFICES ASSUME NEW b \in R PROVE s[Rank(R, b)] = b
      BY <1>3, <1>7
    <2> DEFINE c == s[Rank(R, b)]
    <2>1. c \in R /\ Rank(R, c) = Rank(R, b)  BY <1>3, <1>6
    <2>2. b \in Int /\ c \in Int  BY <1>1, <1>2, <2>1
    <2>3. ~(b < c) /\ ~(c < b)
      <3> HIDE DEF c
      <3>1. Rank(R, b) \in Nat  BY <1>3
      <3> QED BY <1>3, <2>1, <3>1
    <2> QED BY <2>2, <2>3
  <1>10. \A i, j \in DOMAIN s : i < j => s[i] < s[j]  BY <1>3, <1>6, <1>7
  <1>11. Len(s) <= ReadLimit
    <2>1. CASE N = 0  BY <1>8, <2>1, FeedAssumption
    <2>2. CASE N # 0
      <3> DEFINE b == s[1]
                 U == {c \in table : c > b}
      <3>1. 1 \in DOMAIN s /\ b \in R /\ b \in table  BY <1>1, <1>3, <1>6, <1>7, <2>2
      <3>2. \A c \in R : c # b => c > b
        <4> SUFFICES ASSUME NEW c \in R, c # b PROVE c > b
          OBVIOUS
        <4>1. PICK i \in DOMAIN s : s[i] = c  BY <1>9
        <4>2. i > 1  BY <1>3, <1>7, <3>1, <4>1
        <4> QED BY <1>10, <3>1, <4>1, <4>2
      <3>3. R \ {b} \in SUBSET U  BY <1>1, <3>2
      <3>4. Cardinality(U) < ReadLimit  BY <3>1 DEF R, Rows
      <3>5. IsFiniteSet(U) /\ Cardinality(U) \in Nat
        <4>1. U \in SUBSET table  OBVIOUS
        <4>2. IsFiniteSet(U)  BY <1>4, <4>1, FS_Subset
        <4> QED BY <4>2, FS_CardinalityType
      <3>6. Cardinality(R \ {b}) = N - 1
        BY <1>3, <3>1, FS_RemoveElement
      <3>7. Cardinality(R \ {b}) <= Cardinality(U)
        BY <3>3, <3>5, FS_Subset
      <3> HIDE DEF U, N
      <3>8. N - 1 < ReadLimit  BY <1>3, <3>4, <3>5, <3>6, <3>7, FeedAssumption
      <3> QED BY <1>3, <1>8, <3>8, FeedAssumption
    <2> QED BY <2>1, <2>2
  <1>12. ASSUME NEW b \in table, NEW f \in R, f <= b PROVE b \in R
    <2> DEFINE U == {c \in table : c > b}
               F == {c \in table : c > f}
    <2>1. F \in SUBSET table /\ U \in SUBSET F  BY <1>1, <1>2, <1>12
    <2>2. IsFiniteSet(F)  BY <1>4, <2>1, FS_Subset
    <2>3. Cardinality(U) <= Cardinality(F) /\ IsFiniteSet(U)  BY <2>1, <2>2, FS_Subset
    <2>4. Cardinality(F) < ReadLimit  BY <1>12 DEF R, Rows
    <2>5. Cardinality(U) \in Nat /\ Cardinality(F) \in Nat
      BY <2>2, <2>3, FS_CardinalityType
    <2>6. Cardinality(U) < ReadLimit
      <3> HIDE DEF U, F
      <3> QED BY <2>3, <2>4, <2>5, FeedAssumption
    <2> QED BY <2>6 DEF R, Rows
  <1>13. ASSUME NEW b \in table PROVE R # {}
    <2>1. table # {} /\ Cardinality(table) # 0  BY <1>4, <1>13, FS_EmptySet
    <2>2. PICK t \in table : Rank(table, t) = Cardinality(table)  BY <1>4, <2>1
    <2>3. {c \in table : c > t} = {}
      <3> SUFFICES ASSUME NEW c \in table, c > t PROVE FALSE
        OBVIOUS
      <3>1. Rank(table, t) < Rank(table, c)  BY <1>2, <1>4
      <3> QED BY <1>4, <2>2, <3>1
    <2>4. Cardinality({c \in table : c > t}) = 0  BY <2>3, FS_EmptySet
    <2> QED BY <2>4, FeedAssumption DEF R, Rows
  <1>14. ASSUME NEW b \in table
         PROVE  \/ \E i \in DOMAIN s : s[i] = b
                \/ DOMAIN s # {} /\ \A i \in DOMAIN s : b < s[i]
    <2>1. CASE b \in R  BY <1>9, <2>1
    <2>2. CASE b \notin R
      <3>1. DOMAIN s # {}  BY <1>9, <1>13
      <3>2. \A i \in DOMAIN s : b < s[i]
        <4> SUFFICES ASSUME NEW i \in DOMAIN s PROVE b < s[i]
          OBVIOUS
        <4>1. s[i] \in R /\ s[i] \in Int /\ b \in Int  BY <1>1, <1>2, <1>6, <1>7
        <4> QED BY <1>12, <2>2, <4>1
      <3> QED BY <3>1, <3>2
    <2> QED BY <2>1, <2>2
  <1> QED BY <1>1, <1>6, <1>7, <1>8, <1>10, <1>11, <1>14 DEF Rising

---------------------------------------------------------------------------
(* A step keeps the types                                                  *)

LEMMA NewRow == ASSUME NEW b \in Beat PROVE BeatEvent(b) \in Event /\ <<b>> \in Seq(Beat)
  BY DEF BeatEvent, Event

LEMMA NewList ==
    ASSUME NEW rows \in Seq(Beat), NEW overwrite \in BOOLEAN
    PROVE  ListEvent(rows, overwrite) \in Event
  BY DEF ListEvent, Event

LEMMA WireTypes ==
    ASSUME FeedTypes, NEW e \in Event, Emit(e)
    PROVE  wire' \in Seq(Event)
  BY DEF FeedTypes, Emit

LEMMA ShownIs ==
    ASSUME FeedTypes
    PROVE  /\ Shown \in Seq(Beat)
           /\ heartbeatList # Unsent => Shown = heartbeatList
           /\ heartbeatList = Unsent => Shown = <<>>
           /\ Beat = 1 .. MaxBeats
           /\ Unsent \notin Seq(Beat)
  <1>1. Beat = 1 .. MaxBeats  BY DEF Beat
  <1>2. Unsent \notin Seq(Beat)  BY <1>1, FeedAssumption
  <1>3. <<>> \in Seq(Beat)  OBVIOUS
  <1>4. heartbeatList \in Seq(Beat) \cup {Unsent}  BY DEF FeedTypes
  <1> QED BY <1>1, <1>2, <1>3, <1>4 DEF Shown

\* What the browser makes of an event.
LEMMA ReceiveIs ==
    ASSUME FeedTypes, FeedLists, Receive
    PROVE  /\ Takes(wire', wire) /\ wire' \in Seq(Event) /\ heartbeatList' \in Seq(Beat)
           /\ overtaken' \in BOOLEAN /\ (~overtaken' => ~overtaken)
           /\ \E m \in Seq(Beat) :
                /\ Merges(m, Shown, wire[1].ev, wire[1].rows)
                /\ \/ heartbeatList' = m /\ (wire[1].ev = "beat" => Len(m) < Cap)
                   \/ /\ Drops(heartbeatList', m) /\ Len(m) >= Cap /\ wire[1].ev = "beat"
                      /\ ~overtaken' => ~ListToCome
  <1>1. /\ wire \in Seq(Event) /\ wire # <<>> /\ wire' = Tail(wire)
    BY DEF Receive, FeedTypes
  <1>2. Takes(wire', wire)  BY <1>1 DEF Takes
  <1>3. /\ wire' \in Seq(Event) /\ wire[1] \in Event /\ Head(wire) = wire[1]
        /\ 1 \in DOMAIN wire
    BY <1>1
  <1> DEFINE ev == wire[1].ev
             rows == wire[1].rows
  <1>4. ev \in {"beat", "list", "overwrite"} /\ rows \in Seq(Beat)  BY <1>3 DEF Event
  <1>5. ev = "beat" => Len(rows) = 1  BY <1>3 DEF FeedLists
  <1>6. Shown \in Seq(Beat)  BY ShownIs
  <1>7. CASE ev = "beat"
    <2>1. OnHeartbeat(rows[1])  BY <1>3, <1>7 DEF Receive
    <2>2. rows[1] \in Beat  BY <1>4, <1>5, <1>7
    <2>3. PICK m : m = Append(Shown, rows[1])  OBVIOUS
    <2>4. m \in Seq(Beat) /\ m # <<>> /\ Len(m) \in Nat  BY <1>6, <2>2, <2>3
    <2>5. Merges(m, Shown, ev, rows)  BY <1>7, <2>3 DEF Merges
    <2>6. /\ heartbeatList' = IF Len(m) >= Cap THEN Tail(m) ELSE m
          /\ overtaken' = (overtaken \/ (Len(m) >= Cap /\ ListToCome))
      BY <2>1, <2>3 DEF OnHeartbeat, Shown
    <2>7. overtaken' \in BOOLEAN /\ (~overtaken' => ~overtaken)
      BY <2>6 DEF FeedTypes
    <2>8. CASE Len(m) >= Cap
      <3>1. heartbeatList' = Tail(m)  BY <2>6, <2>8
      <3>2. heartbeatList' \in Seq(Beat)  BY <2>4, <3>1
      <3>3. Drops(heartbeatList', m)  BY <2>4, <3>1 DEF Drops
      <3>4. ~overtaken' => ~ListToCome  BY <2>6, <2>8
      <3> QED BY <1>2, <1>3, <1>7, <2>4, <2>5, <2>7, <2>8, <3>2, <3>3, <3>4
    <2>9. CASE ~(Len(m) >= Cap)
      <3>1. heartbeatList' = m /\ Len(m) < Cap  BY <2>4, <2>6, <2>9, FeedAssumption
      <3> QED BY <1>2, <1>3, <2>4, <2>5, <2>7, <3>1
    <2> QED BY <2>8, <2>9
  <1>8. CASE ev # "beat"
    <2>1. OnHeartbeatList(rows, ev = "overwrite") /\ overtaken' = overtaken
      BY <1>3, <1>8 DEF Receive
    <2>2. PICK m : m = heartbeatList'  OBVIOUS
    <2>3. m = IF heartbeatList = Unsent \/ ev = "overwrite" THEN rows
              ELSE rows \o heartbeatList
      BY <2>1, <2>2 DEF OnHeartbeatList
    <2>4. m = IF ev = "overwrite" THEN rows ELSE rows \o Shown
      <3>1. rows \o <<>> = rows  BY <1>4
      <3> QED BY <2>3, <3>1 DEF Shown
    <2>5. Merges(m, Shown, ev, rows)  BY <1>8, <2>4 DEF Merges
    <2>6. m \in Seq(Beat)  BY <1>4, <1>6, <2>4
    <2>7. overtaken' \in BOOLEAN /\ (~overtaken' => ~overtaken)
      BY <2>1 DEF FeedTypes
    <2> QED BY <1>2, <1>3, <1>8, <2>2, <2>5, <2>6, <2>7
  <1> QED BY <1>7, <1>8

LEMMA TypesKept == ASSUME FeedTypes, FeedLists, [FeedNext]_feedVars PROVE FeedTypes'
  <1> USE DEF FeedTypes
  <1>1. ASSUME NEW b \in Beat, NEW how \in {"loop", "push"}, MakeBeat(b, how)
        PROVE  FeedTypes'
    BY <1>1 DEF MakeBeat
  <1>2. ASSUME NEW b \in Beat, SendBeat(b) PROVE FeedTypes'
    <2>1. wire' \in Seq(Event)  BY <1>2, NewRow, WireTypes DEF SendBeat
    <2>2. crossed' \in BOOLEAN /\ overtaken' \in BOOLEAN  BY <1>2 DEF SendBeat
    <2>3. beatAt' \in [Beat -> {"none", "loop", "push", "sent", "kept", "done", "failed"}]
      BY <1>2 DEF SendBeat
    <2> QED BY <1>2, <2>1, <2>2, <2>3 DEF SendBeat
  <1>3. ASSUME NEW b \in Beat, StoreBeat(b) PROVE FeedTypes'  BY <1>3 DEF StoreBeat
  <1>4. ASSUME NEW b \in Beat, StoreRefused(b) PROVE FeedTypes'
    BY <1>4 DEF StoreRefused, Troubled
  <1>14. <<>> \in Seq(Beat)  OBVIOUS
  <1>15. /\ Calm \in [at : {"none", "joined", "read"}, rows : Seq(Beat)]
         /\ Calm \in [at : {"none", "deleted", "read"}, rows : Seq(Beat)]
    BY <1>14 DEF Calm
  <1>16. /\ [Calm EXCEPT !.at = "joined"] \in [at : {"none", "joined", "read"}, rows : Seq(Beat)]
         /\ [Calm EXCEPT !.at = "deleted"] \in [at : {"none", "deleted", "read"}, rows : Seq(Beat)]
    BY <1>14 DEF Calm
  <1>5. CASE Join
    <2>1. login' \in [at : {"none", "joined", "read"}, rows : Seq(Beat)]
      BY <1>5, <1>16 DEF Join
    <2> QED BY <1>5, <2>1 DEF Join
  <1>6. CASE ReadForLogin
    <2>1. Newest(heartbeats) \in Seq(Beat)  BY NewestRows
    <2>2. login' \in [at : {"none", "joined", "read"}, rows : Seq(Beat)]
      BY <1>6, <2>1 DEF ReadForLogin
    <2>3. overtaken' \in BOOLEAN  BY <1>6 DEF ReadForLogin
    <2> QED BY <1>6, <2>2, <2>3 DEF ReadForLogin
  <1>7. CASE SendLoginList
    <2>1. login.rows \in Seq(Beat) /\ FALSE \in BOOLEAN  OBVIOUS
    <2>2. wire' \in Seq(Event)
      BY <1>7, <2>1, NewList, WireTypes DEF SendLoginList
    <2>3. overtaken' \in BOOLEAN /\ login' = Calm  BY <1>7 DEF SendLoginList
    <2> QED BY <1>7, <1>15, <2>2, <2>3 DEF SendLoginList
  <1>8. CASE Disconnected
    <2>1. wire' \in Seq(Event) /\ inRoom' \in BOOLEAN
      <3>1. <<>> \in Seq(Event)  OBVIOUS
      <3> QED BY <1>8, <3>1 DEF Disconnected
    <2> QED BY <1>8, <1>15, <2>1 DEF Disconnected
  <1>9. CASE BeginClear
    <2>1. clear' \in [at : {"none", "deleted", "read"}, rows : Seq(Beat)]
      BY <1>9, <1>16 DEF BeginClear
    <2> QED BY <1>9, <2>1 DEF BeginClear
  <1>10. CASE ReadForClear
    <2>1. Newest(heartbeats) \in Seq(Beat)  BY NewestRows
    <2>2. clear' \in [at : {"none", "deleted", "read"}, rows : Seq(Beat)]
      BY <1>10, <2>1 DEF ReadForClear
    <2> QED BY <1>10, <2>2 DEF ReadForClear
  <1>11. CASE SendClearList
    <2>1. clear.rows \in Seq(Beat) /\ TRUE \in BOOLEAN  OBVIOUS
    <2>2. wire' \in Seq(Event)
      BY <1>11, <2>1, NewList, WireTypes DEF SendClearList
    <2>3. overtaken' \in BOOLEAN /\ clear' = Calm  BY <1>11 DEF SendClearList
    <2> QED BY <1>11, <1>15, <2>2, <2>3 DEF SendClearList
  <1>12. CASE Receive
    <2>1. wire' \in Seq(Event) /\ heartbeatList' \in Seq(Beat) /\ overtaken' \in BOOLEAN
      BY <1>12, ReceiveIs
    <2> QED BY <1>12, <2>1 DEF Receive
  <1>13. CASE UNCHANGED feedVars  BY <1>13 DEF feedVars
  <1> QED BY <1>1, <1>2, <1>3, <1>4, <1>5, <1>6, <1>7, <1>8, <1>9, <1>10, <1>11, <1>12,
             <1>13 DEF FeedNext

LEMMA SentWire ==
    ASSUME NEW w \in Seq(Event), NEW e \in Event, NEW v, Sends(v, w, e)
    PROVE  /\ Len(v) \in DOMAIN v /\ v[Len(v)] = e /\ Len(v) \notin DOMAIN w
           /\ \A p \in DOMAIN v : p = Len(v) \/ p \in DOMAIN w
           /\ \A p \in DOMAIN w : p \in DOMAIN v /\ v[p] = w[p]
  BY DEF Sends

LEMMA TakenWire ==
    ASSUME NEW w \in Seq(Event), NEW v, Takes(v, w)
    PROVE  /\ 1 \in DOMAIN w
           /\ \A p \in DOMAIN v : p + 1 \in DOMAIN w /\ p + 1 # 1 /\ v[p] = w[p + 1]
           /\ \A p, q \in DOMAIN v : p + 1 = q + 1 => p = q
  BY DEF Takes

LEMMA EmitIs ==
    ASSUME FeedTypes, NEW e \in Event, Emit(e)
    PROVE  /\ inRoom => Sends(wire', wire, e)
           /\ ~inRoom => wire' = wire
  BY DEF Emit, Sends

LEMMA ListsKept ==
    ASSUME FeedTypes, FeedLists, FeedMade, [FeedNext]_feedVars PROVE FeedLists'
  <1> DEFINE Good1(e) == IF e.ev = "beat" THEN Len(e.rows) = 1 ELSE Rising(e.rows)
  <1>1. /\ \A p \in DOMAIN wire : Good1(wire[p])
        /\ wire \in Seq(Event) /\ heartbeats \in SUBSET Beat
    BY DEF FeedLists, FeedTypes
  <1>2. Rising(<<>>)  BY FeedAssumption DEF Rising
  <1>3. Rising(Calm.rows) /\ Calm.rows = <<>> /\ DOMAIN Calm.rows = {}  BY <1>2 DEF Calm
  <1> HIDE DEF Good1
  <1>4. ASSUME NEW e \in Event, Good1(e), Emit(e)
        PROVE  \A p \in DOMAIN wire' : Good1(wire'[p])
    <2>1. CASE inRoom
      <3>1. Sends(wire', wire, e)  BY <1>4, <2>1, EmitIs
      <3> PICK v : v = wire'  OBVIOUS
      <3>2. /\ v[Len(v)] = e
            /\ \A p \in DOMAIN v : p = Len(v) \/ p \in DOMAIN wire
            /\ \A p \in DOMAIN wire : v[p] = wire[p]
        BY <1>1, <3>1, SentWire
      <3>3. \A p \in DOMAIN v : Good1(v[p])  BY <1>1, <1>4, <3>2
      <3> QED BY <3>3
    <2>2. CASE ~inRoom
      <3>1. wire' = wire  BY <1>4, <2>2, EmitIs
      <3> QED BY <1>1, <3>1
    <2> QED BY <2>1, <2>2
  <1>5. ASSUME NEW b \in Beat, SendBeat(b) PROVE FeedLists'
    <2>1. PICK e : e = BeatEvent(b)  OBVIOUS
    <2>2. e \in Event  BY <2>1, NewRow
    <2>3. Good1(e)  BY <2>1 DEF BeatEvent, Good1
    <2>4. Emit(e)  BY <1>5, <2>1 DEF SendBeat
    <2>5. \A p \in DOMAIN wire' : Good1(wire'[p])  BY <1>4, <2>2, <2>3, <2>4
    <2>6. UNCHANGED <<login, clear, heartbeats>>  BY <1>5 DEF SendBeat
    <2> QED BY <2>5, <2>6 DEF FeedLists, Good1
  <1>6. CASE SendLoginList
    <2>1. PICK e : e = ListEvent(login.rows, FALSE)  OBVIOUS
    <2>2. e \in Event  BY <2>1, NewList DEF FeedTypes
    <2>3. Good1(e)  BY <2>1 DEF ListEvent, Good1, FeedLists
    <2>4. Emit(e)  BY <1>6, <2>1 DEF SendLoginList
    <2>5. \A p \in DOMAIN wire' : Good1(wire'[p])  BY <1>4, <2>2, <2>3, <2>4
    <2>6. UNCHANGED <<clear, heartbeats>> /\ login' = Calm  BY <1>6 DEF SendLoginList
    <2> QED BY <1>3, <2>5, <2>6 DEF FeedLists, Good1
  <1>7. CASE SendClearList
    <2>1. PICK e : e = ListEvent(clear.rows, TRUE)  OBVIOUS
    <2>2. e \in Event  BY <2>1, NewList DEF FeedTypes
    <2>3. Good1(e)  BY <2>1 DEF ListEvent, Good1, FeedLists
    <2>4. Emit(e)  BY <1>7, <2>1 DEF SendClearList
    <2>5. \A p \in DOMAIN wire' : Good1(wire'[p])  BY <1>4, <2>2, <2>3, <2>4
    <2>6. UNCHANGED <<login, heartbeats>> /\ clear' = Calm  BY <1>7 DEF SendClearList
    <2> QED BY <1>3, <2>5, <2>6 DEF FeedLists, Good1
  <1>8. CASE Receive
    <2>1. Takes(wire', wire)  BY <1>8, ReceiveIs
    <2>2. PICK v : v = wire'  OBVIOUS
    <2>3. \A p \in DOMAIN v : p + 1 \in DOMAIN wire /\ v[p] = wire[p + 1]
      BY <1>1, <2>1, <2>2, TakenWire
    <2>4. \A p \in DOMAIN v : Good1(v[p])  BY <1>1, <2>3
    <2>5. UNCHANGED <<login, clear, heartbeats>>  BY <1>8 DEF Receive
    <2> QED BY <2>2, <2>4, <2>5 DEF FeedLists, Good1
  <1>9. CASE ReadForLogin
    <2>1. PICK rows : rows = Newest(heartbeats)  OBVIOUS
    <2>2. Rising(rows)  BY <1>1, <2>1, NewestRows
    <2>3. login'.rows = rows /\ login'.at = "read"  BY <1>9, <2>1 DEF ReadForLogin
    <2>4. UNCHANGED <<wire, clear, heartbeats>>  BY <1>9 DEF ReadForLogin
    <2> QED BY <2>2, <2>3, <2>4 DEF FeedLists
  <1>10. CASE ReadForClear
    <2>1. PICK rows : rows = Newest(heartbeats)  OBVIOUS
    <2>2. Rising(rows) /\ \A i \in DOMAIN rows : rows[i] \in heartbeats
      BY <1>1, <2>1, NewestRows
    <2>3. clear'.rows = rows /\ clear'.at = "read"  BY <1>10, <2>1 DEF ReadForClear
    <2>4. UNCHANGED <<wire, login, heartbeats>>  BY <1>10 DEF ReadForClear
    <2> QED BY <2>2, <2>3, <2>4 DEF FeedLists
  <1>11. CASE Join
    <2>1. login'.rows = <<>> /\ UNCHANGED <<wire, clear, heartbeats>>
      BY <1>11 DEF Join, Calm
    <2> QED BY <1>2, <2>1 DEF FeedLists
  <1>12. CASE Disconnected
    <2>1. login' = Calm /\ wire' = <<>> /\ UNCHANGED <<clear, heartbeats>>
      BY <1>12 DEF Disconnected
    <2> QED BY <1>3, <2>1 DEF FeedLists
  <1>13. CASE BeginClear
    <2>1. /\ clear'.rows = <<>> /\ DOMAIN <<>> = {} /\ UNCHANGED <<wire, login>>
      BY <1>13 DEF BeginClear, Calm
    <2> QED BY <1>2, <2>1 DEF FeedLists
  <1>14. ASSUME NEW b \in Beat, StoreBeat(b) PROVE FeedLists'
    <2>1. UNCHANGED <<wire, login, clear>> /\ heartbeats \subseteq heartbeats'
      BY <1>14 DEF StoreBeat
    <2> QED BY <2>1 DEF FeedLists
  <1>15. ASSUME UNCHANGED <<wire, login, clear, heartbeats>> PROVE FeedLists'
    BY <1>15 DEF FeedLists
  <1>16. ASSUME NEW b \in Beat, NEW how \in {"loop", "push"}, MakeBeat(b, how)
         PROVE  FeedLists'
    BY <1>15, <1>16 DEF MakeBeat
  <1>17. ASSUME NEW b \in Beat, StoreRefused(b) PROVE FeedLists'
    BY <1>15, <1>17 DEF StoreRefused
  <1>18. CASE UNCHANGED feedVars  BY <1>15, <1>18 DEF feedVars
  <1> QED BY <1>5, <1>6, <1>7, <1>8, <1>9, <1>10, <1>11, <1>12, <1>13, <1>14, <1>16, <1>17,
             <1>18 DEF FeedNext

\* What has been made stays so.
LEMMA MadeStays ==
    ASSUME FeedTypes, [FeedNext]_feedVars, NEW b \in Beat, Made(b)
    PROVE  beatAt'[b] \in {"sent", "kept", "done", "failed"}
  <1> USE DEF FeedTypes, Made
  <1>1. ASSUME NEW c \in Beat, NEW how \in {"loop", "push"}, MakeBeat(c, how)
        PROVE  beatAt'[b] = beatAt[b]
    BY <1>1 DEF MakeBeat
  <1>2. ASSUME NEW c \in Beat, SendBeat(c)
        PROVE  beatAt'[b] = beatAt[b] \/ beatAt'[b] \in {"sent", "done"}
    BY <1>2 DEF SendBeat
  <1>3. ASSUME NEW c \in Beat, StoreBeat(c)
        PROVE  beatAt'[b] = beatAt[b] \/ beatAt'[b] \in {"kept", "done"}
    BY <1>3 DEF StoreBeat
  <1>4. ASSUME NEW c \in Beat, StoreRefused(c)
        PROVE  beatAt'[b] = beatAt[b] \/ beatAt'[b] = "failed"
    BY <1>4 DEF StoreRefused
  <1>5. CASE Join \/ ReadForLogin \/ SendLoginList \/ Disconnected
    BY <1>5 DEF Join, ReadForLogin, SendLoginList, Disconnected
  <1>6. CASE BeginClear \/ ReadForClear \/ SendClearList \/ Receive
    BY <1>6 DEF BeginClear, ReadForClear, SendClearList, Receive
  <1>7. CASE UNCHANGED feedVars  BY <1>7 DEF feedVars
  <1> QED BY <1>1, <1>2, <1>3, <1>4, <1>5, <1>6, <1>7 DEF FeedNext

\* What is stored has been kept or is done.
LEMMA StoredMade ==
    ASSUME FeedTypes, FeedMade, [FeedNext]_feedVars
    PROVE  /\ heartbeats' \subseteq Beat
           /\ \A b \in heartbeats' : beatAt'[b] \in {"kept", "done"}
  <1> USE DEF FeedTypes, FeedMade
  <1>1. ASSUME NEW c \in Beat, NEW how \in {"loop", "push"}, MakeBeat(c, how)
        PROVE  \A b \in heartbeats' : b \in Beat /\ beatAt'[b] \in {"kept", "done"}
    BY <1>1 DEF MakeBeat
  <1>2. ASSUME NEW c \in Beat, SendBeat(c)
        PROVE  \A b \in heartbeats' : b \in Beat /\ beatAt'[b] \in {"kept", "done"}
    BY <1>2 DEF SendBeat
  <1>3. ASSUME NEW c \in Beat, StoreBeat(c)
        PROVE  \A b \in heartbeats' : b \in Beat /\ beatAt'[b] \in {"kept", "done"}
    BY <1>3 DEF StoreBeat
  <1>4. ASSUME NEW c \in Beat, StoreRefused(c)
        PROVE  \A b \in heartbeats' : b \in Beat /\ beatAt'[b] \in {"kept", "done"}
    BY <1>4 DEF StoreRefused
  <1>5. CASE Join \/ ReadForLogin \/ SendLoginList \/ Disconnected
    BY <1>5 DEF Join, ReadForLogin, SendLoginList, Disconnected
  <1>6. CASE BeginClear \/ ReadForClear \/ SendClearList \/ Receive
    BY <1>6 DEF BeginClear, ReadForClear, SendClearList, Receive
  <1>7. CASE UNCHANGED feedVars  BY <1>7 DEF feedVars
  <1> QED BY <1>1, <1>2, <1>3, <1>4, <1>5, <1>6, <1>7 DEF FeedNext

\* All that may be shown has been made.
LEMMA ShownMade ==
    ASSUME FeedTypes, FeedLists, FeedMade, [FeedNext]_feedVars,
           NEW p \in Place(wire'), NEW b \in Beat, Has(Shown', wire', p, b)
    PROVE  Made(b) \/ beatAt'[b] \in {"sent", "done"}
  <1>1. wire \in Seq(Event) /\ Shown \in Seq(Beat)  BY ShownIs DEF FeedTypes
  <1>2. 0 \in Place(wire)  BY <1>1 DEF Place
  <1>3. CASE UNCHANGED <<heartbeatList, wire>>
    <2>1. Shown' = Shown  BY <1>3 DEF Shown
    <2>2. p \in Place(wire) /\ Has(Shown, wire, p, b)  BY <1>3, <2>1
    <2> QED BY <2>2 DEF FeedMade
  <1>4. ASSUME NEW e \in Event, Emit(e), UNCHANGED heartbeatList
        PROVE  Made(b) \/ \E i \in DOMAIN e.rows : e.rows[i] = b
    <2>1. Shown' = Shown  BY <1>4 DEF Shown
    <2>2. CASE inRoom
      <3>1. Sends(wire', wire, e)  BY <1>4, <2>2, EmitIs
      <3>2. PICK v : v = wire'  OBVIOUS
      <3>3. p \in Place(v) /\ Has(Shown, v, p, b) /\ Sends(v, wire, e)
        BY <2>1, <3>1, <3>2
      <3>4. \/ p \in Place(wire) /\ Has(Shown, wire, p, b)
            \/ \E i \in DOMAIN e.rows : e.rows[i] = b
        BY <1>1, <3>3, SentFrom
      <3> QED BY <3>4 DEF FeedMade
    <2>3. CASE ~inRoom
      <3>1. wire' = wire  BY <1>4, <2>3, EmitIs
      <3>2. p \in Place(wire) /\ Has(Shown, wire, p, b)  BY <2>1, <3>1
      <3> QED BY <3>2 DEF FeedMade
    <2> QED BY <2>2, <2>3
  <1>5. ASSUME NEW c \in Beat, SendBeat(c) PROVE Made(b) \/ beatAt'[b] \in {"sent", "done"}
    <2>1. PICK e : e = BeatEvent(c)  OBVIOUS
    <2>2. e \in Event /\ e.rows = <<c>>  BY <2>1, NewRow DEF BeatEvent
    <2>3. Emit(e) /\ UNCHANGED heartbeatList  BY <1>5, <2>1 DEF SendBeat
    <2>4. Made(b) \/ b = c  BY <1>4, <2>2, <2>3
    <2>5. beatAt'[c] \in {"sent", "done"}  BY <1>5 DEF SendBeat, FeedTypes
    <2> QED BY <2>4, <2>5
  <1>6. CASE SendLoginList
    <2>1. PICK e : e = ListEvent(login.rows, FALSE)  OBVIOUS
    <2>2. e \in Event /\ e.rows = login.rows  BY <2>1, NewList DEF ListEvent, FeedTypes
    <2>3. Emit(e) /\ UNCHANGED heartbeatList  BY <1>6, <2>1 DEF SendLoginList
    <2> QED BY <1>4, <2>2, <2>3 DEF FeedMade
  <1>7. CASE SendClearList
    <2>1. PICK e : e = ListEvent(clear.rows, TRUE)  OBVIOUS
    <2>2. e \in Event /\ e.rows = clear.rows  BY <2>1, NewList DEF ListEvent, FeedTypes
    <2>3. Emit(e) /\ UNCHANGED heartbeatList  BY <1>7, <2>1 DEF SendClearList
    <2>4. Made(b) \/ b \in heartbeats  BY <1>4, <2>2, <2>3 DEF FeedLists
    <2> QED BY <2>4 DEF FeedMade, Made
  <1>8. CASE Join
    <2>1. wire' = wire /\ heartbeatList' = Unsent  BY <1>8 DEF Join
    <2>2. Shown' = <<>>  BY <2>1 DEF Shown
    <2>3. p # 0  BY <2>2 DEF Has, At
    <2>4. Has(Shown, wire, p, b)  BY <2>1, <2>3 DEF Has, At
    <2> QED BY <2>1, <2>4 DEF FeedMade
  <1>9. CASE Disconnected
    <2>1. wire' = <<>> /\ Shown' = Shown  BY <1>9 DEF Disconnected, Shown
    <2>2. p = 0  BY <2>1 DEF Place
    <2>3. Has(Shown, wire, 0, b)  BY <2>1, <2>2 DEF Has, At
    <2> QED BY <1>2, <2>3 DEF FeedMade
  <1>10. CASE Receive
    <2>1. /\ Takes(wire', wire) /\ wire' \in Seq(Event) /\ heartbeatList' \in Seq(Beat)
          /\ \E m \in Seq(Beat) :
                /\ Merges(m, Shown, wire[1].ev, wire[1].rows)
                /\ heartbeatList' = m \/ Drops(heartbeatList', m)
      BY <1>10, ReceiveIs
    <2>2. PICK v : v = wire'  OBVIOUS
    <2>3. PICK n : n = heartbeatList'  OBVIOUS
    <2>4. PICK m \in Seq(Beat) : /\ Merges(m, Shown, wire[1].ev, wire[1].rows)
                                 /\ n = m \/ Drops(n, m)
      BY <2>1, <2>3
    <2>5. Shown' = n
      <3>1. Unsent \notin Seq(Beat)  BY ShownIs
      <3> QED BY <2>1, <2>3, <3>1 DEF Shown
    <2>6. v \in Seq(Event) /\ Takes(v, wire) /\ p \in Place(v) /\ Has(n, v, p, b)
      BY <2>1, <2>2, <2>5
    <2>7. Has(m, v, p, b)  BY <2>4, <2>6, Dropped
    <2>8. wire[1].ev = "beat" => Len(wire[1].rows) = 1
      <3>1. 1 \in DOMAIN wire  BY <1>1, <2>6, TakenWire
      <3> QED BY <3>1 DEF FeedLists
    <2>9. \E q \in Place(wire) : Has(Shown, wire, q, b)
      BY <1>1, <2>4, <2>6, <2>7, <2>8, TakenFrom
    <2> QED BY <2>9 DEF FeedMade
  <1>11. ASSUME NEW c \in Beat, NEW how \in {"loop", "push"}, MakeBeat(c, how)
         PROVE  UNCHANGED <<heartbeatList, wire>>
    BY <1>11 DEF MakeBeat
  <1>12. ASSUME NEW c \in Beat, StoreBeat(c) \/ StoreRefused(c)
         PROVE  UNCHANGED <<heartbeatList, wire>>
    BY <1>12 DEF StoreBeat, StoreRefused
  <1>13. ASSUME \/ ReadForLogin \/ BeginClear \/ ReadForClear \/ UNCHANGED feedVars
         PROVE  UNCHANGED <<heartbeatList, wire>>
    BY <1>13 DEF ReadForLogin, BeginClear, ReadForClear, feedVars
  <1> QED BY <1>3, <1>5, <1>6, <1>7, <1>8, <1>9, <1>10, <1>11, <1>12, <1>13 DEF FeedNext

\* The rows of a login are of beats that have been made.
LEMMA LoginMade ==
    ASSUME FeedTypes, FeedMade, [FeedNext]_feedVars,
           NEW i \in DOMAIN login'.rows
    PROVE  login'.rows[i] \in Beat /\ Made(login'.rows[i])
  <1>1. CASE UNCHANGED login
    <2>1. i \in DOMAIN login.rows /\ login.rows \in Seq(Beat)  BY <1>1 DEF FeedTypes
    <2>2. login.rows[i] \in Beat /\ Made(login.rows[i])  BY <2>1 DEF FeedMade
    <2> QED BY <1>1, <2>2
  <1>2. ASSUME login'.rows = <<>> PROVE FALSE
    <2>1. DOMAIN <<>> = {}  OBVIOUS
    <2> QED BY <1>2, <2>1
  <1>3. CASE Join \/ SendLoginList \/ Disconnected
    <2>1. login' = [Calm EXCEPT !.at = "joined"] \/ login' = Calm
      BY <1>3 DEF Join, SendLoginList, Disconnected
    <2>3. Calm.rows = <<>> /\ [Calm EXCEPT !.at = "joined"].rows = <<>>
      BY DEF Calm
    <2>4. login'.rows = <<>>  BY <2>1, <2>3
    <2> QED BY <1>2, <2>4
  <1>4. CASE ReadForLogin
    <2>1. PICK rows : rows = Newest(heartbeats)  OBVIOUS
    <2>2. heartbeats \in SUBSET Beat  BY DEF FeedTypes
    <2>3. \A j \in DOMAIN rows : rows[j] \in heartbeats  BY <2>1, <2>2, NewestRows
    <2>4. login'.rows = rows  BY <1>4, <2>1 DEF ReadForLogin
    <2>5. rows[i] \in heartbeats  BY <2>3, <2>4
    <2>6. rows[i] \in Beat /\ Made(rows[i])  BY <2>2, <2>5 DEF FeedMade, Made
    <2> QED BY <2>4, <2>6
  <1>5. ASSUME NEW c \in Beat, NEW how \in {"loop", "push"}, MakeBeat(c, how)
        PROVE  UNCHANGED login
    BY <1>5 DEF MakeBeat
  <1>6. ASSUME NEW c \in Beat, SendBeat(c) \/ StoreBeat(c) \/ StoreRefused(c)
        PROVE  UNCHANGED login
    BY <1>6 DEF SendBeat, StoreBeat, StoreRefused
  <1>7. ASSUME BeginClear \/ ReadForClear \/ SendClearList \/ Receive \/ UNCHANGED feedVars
        PROVE  UNCHANGED login
    BY <1>7 DEF BeginClear, ReadForClear, SendClearList, Receive, feedVars
  <1> QED BY <1>1, <1>3, <1>4, <1>5, <1>6, <1>7 DEF FeedNext

LEMMA MadeKept ==
    ASSUME FeedTypes, FeedLists, FeedMade, [FeedNext]_feedVars
    PROVE  FeedMade'
  <1>1. \A b \in heartbeats' : beatAt'[b] \in {"kept", "done"}  BY StoredMade
  <1>2. ASSUME NEW i \in DOMAIN login'.rows
        PROVE  beatAt'[login'.rows[i]] \in {"sent", "kept", "done", "failed"}
    <2>1. PICK b : b = login'.rows[i]  OBVIOUS
    <2>2. b \in Beat /\ Made(b)  BY <2>1, LoginMade
    <2>3. beatAt'[b] \in {"sent", "kept", "done", "failed"}  BY <2>2, MadeStays
    <2> QED BY <2>1, <2>3
  <1>3. ASSUME NEW p \in Place(wire'), NEW b \in Beat, Has(Shown', wire', p, b)
        PROVE  beatAt'[b] \in {"sent", "kept", "done", "failed"}
    <2>1. Made(b) \/ beatAt'[b] \in {"sent", "done"}  BY <1>3, ShownMade
    <2> QED BY <2>1, MadeStays
  <1> QED BY <1>1, <1>2, <1>3 DEF FeedMade, Made

\* The list of a login comes once, and what is shown has a bound.
LEMMA OnceKept ==
    ASSUME FeedTypes, FeedLists, FeedOnce, [FeedNext]_feedVars
    PROVE  FeedOnce'
  <1>1. /\ wire \in Seq(Event) /\ Shown \in Seq(Beat) /\ Len(Shown) \in Nat
    BY ShownIs DEF FeedTypes
  <1>2. ASSUME UNCHANGED <<inRoom, wire, heartbeatList>>, login'.at = "none" <=> login.at = "none"
        PROVE  FeedOnce'
    <2>1. Shown' = Shown  BY <1>2 DEF Shown
    <2>2. ToCome' <=> ToCome  BY <1>2 DEF ToCome
    <2> QED BY <1>2, <2>1, <2>2 DEF FeedOnce
  <1>3. ASSUME NEW c \in Beat, NEW how \in {"loop", "push"}, MakeBeat(c, how)
        PROVE  FeedOnce'
    BY <1>2, <1>3 DEF MakeBeat
  <1>4. ASSUME NEW c \in Beat, StoreBeat(c) \/ StoreRefused(c) PROVE FeedOnce'
    BY <1>2, <1>4 DEF StoreBeat, StoreRefused
  <1>5. CASE BeginClear \/ ReadForClear \/ UNCHANGED feedVars
    BY <1>2, <1>5 DEF BeginClear, ReadForClear, feedVars
  <1>6. CASE ReadForLogin
    <2>1. login.at = "joined" /\ login'.at = "read" /\ UNCHANGED <<inRoom, wire, heartbeatList>>
      BY <1>6 DEF ReadForLogin
    <2> QED BY <1>2, <2>1
  <1>7. ASSUME NEW e \in Event, e.ev # "list", Emit(e), UNCHANGED <<inRoom, login, heartbeatList>>
        PROVE  FeedOnce'
    <2>1. CASE ~inRoom
      <3>1. wire' = wire  BY <1>7, <2>1, EmitIs
      <3> QED BY <1>2, <1>7, <3>1
    <2>2. CASE inRoom
      <3>1. Sends(wire', wire, e)  BY <1>7, <2>2, EmitIs
      <3>2. PICK v : v = wire'  OBVIOUS
      <3>3. /\ v[Len(v)] = e
            /\ \A p \in DOMAIN v : p = Len(v) \/ p \in DOMAIN wire
            /\ \A p \in DOMAIN wire : p \in DOMAIN v /\ v[p] = wire[p]
        BY <1>1, <3>1, <3>2, SentWire
      <3>4. \A p \in DOMAIN v : v[p].ev = "list" => p \in DOMAIN wire /\ wire[p].ev = "list"
        BY <1>7, <3>3
      <3>5. Shown' = Shown  BY <1>7 DEF Shown
      <3>6. ToCome' <=> ToCome
        <4>1. ToCome' <=> login'.at # "none" \/ \E p \in DOMAIN v : v[p].ev = "list"
          BY <3>2 DEF ToCome
        <4> QED BY <1>7, <3>3, <3>4, <4>1 DEF ToCome
      <3>7. \A p, q \in DOMAIN v : v[p].ev = "list" /\ v[q].ev = "list" => p = q
        BY <3>4 DEF FeedOnce
      <3>8. inRoom' /\ login' = login /\ heartbeatList' = heartbeatList  BY <1>7, <2>2
      <3>9. login'.at # "none" => \A p \in DOMAIN v : v[p].ev # "list"
        BY <3>4, <3>8 DEF FeedOnce
      <3>10. ToCome \/ heartbeatList' # Unsent  BY <2>2, <3>8 DEF FeedOnce
      <3> QED BY <3>2, <3>5, <3>6, <3>7, <3>8, <3>9, <3>10 DEF FeedOnce
    <2> QED BY <2>1, <2>2
  <1>8. ASSUME NEW c \in Beat, SendBeat(c) PROVE FeedOnce'
    <2>1. PICK e : e = BeatEvent(c)  OBVIOUS
    <2>2. e \in Event /\ e.ev # "list"  BY <2>1, NewRow DEF BeatEvent
    <2>3. Emit(e) /\ UNCHANGED <<inRoom, login, heartbeatList>>  BY <1>8, <2>1 DEF SendBeat
    <2> QED BY <1>7, <2>2, <2>3
  <1>9. CASE SendClearList
    <2>1. PICK e : e = ListEvent(clear.rows, TRUE)  OBVIOUS
    <2>2. e \in Event /\ e.ev # "list"  BY <2>1, NewList DEF ListEvent, FeedTypes
    <2>3. Emit(e) /\ UNCHANGED <<inRoom, login, heartbeatList>>
      BY <1>9, <2>1 DEF SendClearList
    <2> QED BY <1>7, <2>2, <2>3
  <1>10. CASE SendLoginList
    <2>1. PICK e : e = ListEvent(login.rows, FALSE)  OBVIOUS
    <2>2. e \in Event /\ e.ev = "list"  BY <2>1, NewList DEF ListEvent, FeedTypes
    <2>3. Emit(e) /\ UNCHANGED <<inRoom, heartbeatList>> /\ login' = Calm /\ login.at = "read"
      BY <1>10, <2>1 DEF SendLoginList
    <2>4. inRoom /\ \A p \in DOMAIN wire : wire[p].ev # "list"
      BY <2>3 DEF FeedOnce, FeedTypes
    <2>5. Sends(wire', wire, e)  BY <2>2, <2>3, <2>4, EmitIs
    <2>6. PICK v : v = wire'  OBVIOUS
    <2>7. /\ Len(v) \in DOMAIN v /\ v[Len(v)] = e
          /\ \A p \in DOMAIN v : p = Len(v) \/ p \in DOMAIN wire
          /\ \A p \in DOMAIN wire : p \in DOMAIN v /\ v[p] = wire[p]
      BY <1>1, <2>2, <2>5, <2>6, SentWire
    <2>8. \A p \in DOMAIN v : v[p].ev = "list" => p = Len(v)
      BY <2>4, <2>7
    <2>9. \A p, q \in DOMAIN v : v[p].ev = "list" /\ v[q].ev = "list" => p = q
      BY <2>8
    <2>10. Shown' = Shown  BY <2>3 DEF Shown
    <2>11. ToCome
      BY <2>3 DEF ToCome
    <2>12. ToCome'
      <3>1. \E p \in DOMAIN v : v[p].ev = "list"  BY <2>2, <2>7
      <3> QED BY <2>6, <3>1 DEF ToCome
    <2>13. login'.at = "none" /\ inRoom'  BY <2>3, <2>4 DEF Calm
    <2>14. Len(Shown) < ReadLimit + Cap /\ Len(Shown) < Cap  BY <2>11 DEF FeedOnce
    <2> QED BY <2>6, <2>9, <2>10, <2>12, <2>13, <2>14 DEF FeedOnce
  <1>11. CASE Join
    <2>1. /\ wire' = wire /\ wire = <<>> /\ heartbeatList' = Unsent /\ inRoom' = TRUE
          /\ login' = [Calm EXCEPT !.at = "joined"]
      BY <1>11 DEF Join, FeedOnce
    <2>2. Shown' = <<>> /\ login'.at = "joined"  BY <2>1 DEF Shown, Calm
    <2>3. Len(<<>>) < Cap /\ Len(<<>>) < ReadLimit + Cap  BY FeedAssumption
    <2>4. \A p \in DOMAIN wire' : FALSE  BY <2>1
    <2>5. ToCome'  BY <2>2 DEF ToCome
    <2> QED BY <2>1, <2>2, <2>3, <2>4, <2>5 DEF FeedOnce
  <1>12. CASE Disconnected
    <2>1. wire' = <<>> /\ inRoom' = FALSE /\ heartbeatList' = heartbeatList /\ login' = Calm
      BY <1>12 DEF Disconnected
    <2>2. Shown' = Shown /\ login'.at = "none"  BY <2>1 DEF Shown, Calm
    <2>3. \A p \in DOMAIN wire' : FALSE  BY <2>1
    <2>4. ~ToCome'  BY <2>2, <2>3 DEF ToCome
    <2>5. Len(Shown) < ReadLimit + Cap  BY DEF FeedOnce
    <2> QED BY <2>1, <2>2, <2>3, <2>4, <2>5 DEF FeedOnce
  <1>13. CASE Receive
    <2>1. /\ Takes(wire', wire) /\ wire' \in Seq(Event) /\ heartbeatList' \in Seq(Beat)
          /\ \E m \in Seq(Beat) :
                /\ Merges(m, Shown, wire[1].ev, wire[1].rows)
                /\ \/ heartbeatList' = m /\ (wire[1].ev = "beat" => Len(m) < Cap)
                   \/ Drops(heartbeatList', m) /\ wire[1].ev = "beat"
      BY <1>13, ReceiveIs
    <2>2. PICK v : v = wire'  OBVIOUS
    <2>3. PICK n : n = heartbeatList'  OBVIOUS
    <2>4. PICK ev, rows : ev = wire[1].ev /\ rows = wire[1].rows  OBVIOUS
    <2>5. PICK m \in Seq(Beat) :
             /\ Merges(m, Shown, ev, rows)
             /\ \/ n = m /\ (ev = "beat" => Len(m) < Cap)
                \/ Drops(n, m) /\ ev = "beat"
      BY <2>1, <2>3, <2>4
    <2>6. n \in Seq(Beat) /\ Shown' = n /\ heartbeatList' # Unsent
      <3>1. Unsent \notin Seq(Beat)  BY ShownIs
      <3> QED BY <2>1, <2>3, <3>1 DEF Shown
    <2>7. /\ 1 \in DOMAIN wire
          /\ \A p \in DOMAIN v : p + 1 \in DOMAIN wire /\ p + 1 # 1 /\ v[p] = wire[p + 1]
          /\ \A p, q \in DOMAIN v : p + 1 = q + 1 => p = q
      BY <1>1, <2>1, <2>2, TakenWire
    <2>8. UNCHANGED <<inRoom, login>> /\ inRoom
      BY <1>13 DEF Receive, FeedOnce, FeedTypes
    <2>9. \A p, q \in DOMAIN v : v[p].ev = "list" /\ v[q].ev = "list" => p = q
      BY <2>7 DEF FeedOnce
    <2>10. login.at # "none" => \A p \in DOMAIN v : v[p].ev # "list"
      BY <2>7 DEF FeedOnce
    <2>11. ToCome' => ToCome /\ ev # "list"
      <3>1. ToCome' <=> login.at # "none" \/ \E p \in DOMAIN v : v[p].ev = "list"
        BY <2>2, <2>8 DEF ToCome
      <3>2. ASSUME NEW p \in DOMAIN v, v[p].ev = "list" PROVE ToCome /\ ev # "list"
        BY <2>4, <2>7, <3>2 DEF ToCome, FeedOnce
      <3>3. ASSUME login.at # "none" PROVE ToCome /\ ev # "list"
        BY <2>4, <2>7, <3>3 DEF ToCome, FeedOnce
      <3> QED BY <3>1, <3>2, <3>3
    <2>12. /\ rows \in Seq(Beat) /\ Len(rows) \in Nat /\ ev \in {"beat", "list", "overwrite"}
           /\ IF ev = "beat" THEN Len(rows) = 1 ELSE Rising(rows)
      <3>1. wire[1] \in Event  BY <1>1, <2>7
      <3> QED BY <2>4, <2>7, <3>1 DEF FeedLists, Event
    <2>13. Len(Shown) < ReadLimit + Cap /\ (ToCome => Len(Shown) < Cap)
      BY DEF FeedOnce
    <2>14. ev = "list" => Len(Shown) < Cap
      BY <2>4, <2>7, <2>13 DEF ToCome
    <2>15. Len(n) < ReadLimit + Cap /\ (ToCome' => Len(n) < Cap)
      <3>1. CASE ev = "beat"
        <4>1. Len(m) = Len(Shown) + 1
          <5>1. rows[1] \in Beat  BY <2>12, <3>1
          <5> QED BY <1>1, <2>5, <3>1, <5>1 DEF Merges
        <4>2. CASE Drops(n, m)
          <5>1. Len(n) = Len(m) - 1  BY <1>1, <2>5, <4>2 DEF Drops
          <5>2. Len(n) = Len(Shown)  BY <1>1, <4>1, <5>1
          <5> QED BY <2>11, <2>13, <5>2
        <4>3. CASE n = m /\ Len(m) < Cap
          <5>1. Len(n) \in Nat  BY <2>6
          <5> QED BY <4>3, <5>1, FeedAssumption
        <4> QED BY <2>5, <3>1, <4>2, <4>3
      <3>2. CASE ev = "overwrite"
        <4>1. n = rows  BY <2>5, <3>2 DEF Merges
        <4>2. Len(n) <= ReadLimit  BY <2>12, <3>2, <4>1 DEF Rising
        <4> QED BY <2>12, <4>1, <4>2, FeedAssumption
      <3>3. CASE ev = "list"
        <4>1. n = rows \o Shown  BY <2>5, <3>3 DEF Merges
        <4>2. Len(rows) <= ReadLimit  BY <2>12, <3>3 DEF Rising
        <4>3. Len(n) = Len(rows) + Len(Shown)  BY <1>1, <2>12, <4>1
        <4>4. Len(n) < ReadLimit + Cap
          BY <1>1, <2>12, <2>14, <3>3, <4>2, <4>3, FeedAssumption
        <4> QED BY <2>11, <3>3, <4>4
      <3> QED BY <2>12, <3>1, <3>2, <3>3
    <2> QED BY <2>2, <2>6, <2>8, <2>9, <2>10, <2>15 DEF FeedOnce
  <1> QED BY <1>3, <1>4, <1>5, <1>6, <1>8, <1>9, <1>10, <1>11, <1>12, <1>13 DEF FeedNext

---------------------------------------------------------------------------
(* A step keeps the list true                                              *)

LEMMA Shrinks ==
    ASSUME NEW l, NEW w, NEW A, NEW B \in SUBSET A
    PROVE  /\ InOrder(l, w, A) => InOrder(l, w, B)
           /\ \A R : Covers(l, w, A, R) => Covers(l, w, B, R)
           /\ NoneLost(l, w, A) => NoneLost(l, w, B)
           /\ Only(l, w, B) => Only(l, w, A)
  <1>1. InOrder(l, w, A) => InOrder(l, w, B)  BY DEF InOrder
  <1>2. \A R : Covers(l, w, A, R) => Covers(l, w, B, R)  BY DEF Covers
  <1>3. NoneLost(l, w, A) => NoneLost(l, w, B)  BY DEF NoneLost
  <1>4. Only(l, w, B) => Only(l, w, A)  BY DEF Only
  <1> QED BY <1>1, <1>2, <1>3, <1>4

\* What changes nothing that is shown or on its way.
LEMMA QuietTrue ==
    ASSUME FeedTrue, UNCHANGED <<login, wire, heartbeatList, crossed>>,
           Alive' \subseteq Alive, Pending' \subseteq Pending,
           clear'.at = "none" => clear.at = "none" /\ Good \subseteq Good'
    PROVE  FeedTrue'
  <1> PICK l, w, A, B, S, T, G, H : /\ l = Shown /\ w = wire /\ A = Alive /\ B = Alive'
                                    /\ S = Pending /\ T = Pending' /\ G = Good /\ H = Good'
    OBVIOUS
  <1>1. Shown' = l /\ wire' = w /\ login' = login /\ crossed' = crossed  BY DEF Shown
  <1>2. /\ InOrder(l, w, A) => InOrder(l, w, B)
        /\ \A R : Covers(l, w, A, R) => Covers(l, w, B, R)
        /\ NoneLost(l, w, S) => NoneLost(l, w, T)
        /\ clear'.at = "none" => (Only(l, w, G) => Only(l, w, H))
    BY Shrinks
  <1>3. /\ ~crossed => InOrder(l, w, A)
        /\ login.at = "read" => Covers(l, w, A, login.rows)
        /\ \A p \in DOMAIN w : w[p].ev = "list" /\ Fresh(w, p) => Covers(l, w, A, w[p].rows)
        /\ login.at = "none" /\ (\A p \in DOMAIN w : w[p].ev = "list" => ~Fresh(w, p))
              /\ A # {} => Something(l, w)
        /\ NoneLost(l, w, S)
        /\ clear.at = "none" => Only(l, w, G)
    BY DEF FeedTrue
  <1>4. /\ ~crossed' => InOrder(l, w, B)
        /\ login'.at = "read" => Covers(l, w, B, login'.rows)
        /\ \A p \in DOMAIN w : w[p].ev = "list" /\ Fresh(w, p) => Covers(l, w, B, w[p].rows)
        /\ login'.at = "none" /\ (\A p \in DOMAIN w : w[p].ev = "list" => ~Fresh(w, p))
              /\ B # {} => Something(l, w)
        /\ NoneLost(l, w, T)
        /\ clear'.at = "none" => Only(l, w, H)
    BY <1>1, <1>2, <1>3
  <1>5. l = Shown' /\ w = wire' /\ B = Alive' /\ T = Pending' /\ H = Good'  BY <1>1
  <1> QED BY <1>4, <1>5 DEF FeedTrue

LEMMA StoresTrue ==
    ASSUME FeedTypes, FeedMade, FeedTrue, NEW b \in Beat,
           \/ \E how \in {"loop", "push"} : MakeBeat(b, how)
           \/ StoreBeat(b) \/ StoreRefused(b)
    PROVE  FeedTrue'
  <1>1. UNCHANGED <<login, clear, wire, heartbeatList, crossed>>
    BY DEF MakeBeat, StoreBeat, StoreRefused
  <1> SUFFICES /\ Alive' \subseteq Alive /\ Pending' \subseteq Pending /\ Good \subseteq Good'
    BY <1>1, QuietTrue
  <1> USE DEF Alive, Pending, Good, FeedTypes
  <1>2. ASSUME NEW how \in {"loop", "push"}, MakeBeat(b, how)
        PROVE  Alive' \subseteq Alive /\ Pending' \subseteq Pending /\ Good \subseteq Good'
    <2>1. /\ heartbeats' = heartbeats /\ beatAt[b] = "none" /\ beatAt'[b] \in {"loop", "push"}
          /\ \A c \in Beat : c # b => beatAt'[c] = beatAt[c]
      BY <1>2 DEF MakeBeat
    <2>2. b \notin heartbeats  BY <2>1 DEF FeedMade
    <2> QED BY <2>1, <2>2
  <1>3. CASE StoreBeat(b)
    <2>1. /\ heartbeats' = heartbeats \cup {b}
          /\ \/ beatAt[b] = "sent" /\ beatAt'[b] = "done"
             \/ beatAt[b] = "push" /\ beatAt'[b] = "kept"
          /\ \A c \in Beat : c # b => beatAt'[c] = beatAt[c]
      BY <1>3 DEF StoreBeat
    <2> QED BY <2>1
  <1>4. CASE StoreRefused(b)
    <2>1. /\ heartbeats' = heartbeats /\ beatAt[b] \in {"sent", "push"}
          /\ beatAt'[b] = "failed"
          /\ \A c \in Beat : c # b => beatAt'[c] = beatAt[c]
      BY <1>4 DEF StoreRefused
    <2>2. b \notin heartbeats  BY <2>1 DEF FeedMade
    <2> QED BY <2>1, <2>2
  <1> QED BY <1>2, <1>3, <1>4

LEMMA ClearsTrue ==
    ASSUME FeedTypes, FeedTrue, BeginClear \/ ReadForClear
    PROVE  FeedTrue'
  <1>1. UNCHANGED <<login, wire, heartbeatList, crossed, beatAt>>
    BY DEF BeginClear, ReadForClear
  <1>2. heartbeats' \subseteq heartbeats /\ clear'.at # "none"
    BY DEF BeginClear, ReadForClear, Calm
  <1>3. Alive' \subseteq Alive /\ Pending' \subseteq Pending  BY <1>1, <1>2 DEF Alive, Pending
  <1> QED BY <1>1, <1>2, <1>3, QuietTrue

LEMMA JoinTrue == ASSUME FeedOnce, Join PROVE FeedTrue'
  <1>1. /\ wire' = <<>> /\ heartbeatList' = Unsent
        /\ login' = [Calm EXCEPT !.at = "joined"]
    BY DEF Join, FeedOnce
  <1>2. Shown' = <<>> /\ login'.at = "joined"  BY <1>1 DEF Shown, Calm
  <1>3. Place(<<>>) = {0} /\ At(<<>>, <<>>, 0) = <<>> /\ DOMAIN <<>> = {}
    BY DEF Place, At
  <1>4. \A A : InOrder(<<>>, <<>>, A)  BY <1>3 DEF InOrder
  <1>5. \A p \in Place(<<>>) : \A b : ~Has(<<>>, <<>>, p, b)  BY <1>3 DEF Has
  <1>6. \A S : NoneLost(<<>>, <<>>, S) /\ Only(<<>>, <<>>, S)
    BY <1>5 DEF NoneLost, Only
  <1>7. InOrder(Shown', wire', Alive') /\ NoneLost(Shown', wire', Pending')
        /\ Only(Shown', wire', Good')
    BY <1>1, <1>2, <1>4, <1>6
  <1>8. \A p \in DOMAIN wire' : FALSE  BY <1>1
  <1> QED BY <1>2, <1>7, <1>8 DEF FeedTrue

\* What is on its way to the browser, or there already, will be shown beside the
\* rows that a login reads.
LEMMA ReadTrue ==
    ASSUME FeedTypes, FeedLists, FeedOnce, ~overtaken => FeedTrue, ReadForLogin, ~overtaken'
    PROVE  FeedTrue'
  <1>1. /\ login.at = "joined" /\ login' = [at |-> "read", rows |-> Newest(heartbeats)]
        /\ UNCHANGED <<beatAt, heartbeats, clear, wire, heartbeatList, crossed>>
        /\ ~overtaken
        /\ \A b \in Pending : ~ (/\ heartbeatList = Unsent \/ b \notin ToSet(heartbeatList)
                                 /\ \A i \in DOMAIN wire : wire[i] # BeatEvent(b))
    BY DEF ReadForLogin, FeedTypes
  <1>2. FeedTrue  BY <1>1
  <1> PICK l, w, A, S, rows : /\ l = Shown /\ w = wire /\ A = Alive /\ S = Pending
                              /\ rows = Newest(heartbeats)
    OBVIOUS
  <1>3. Shown' = l /\ wire' = w /\ Alive' = A /\ Pending' = S /\ Good' = Good
    BY <1>1 DEF Shown, Alive, Pending, Good
  <1>4. w \in Seq(Event) /\ 0 \in Place(w) /\ \A i \in DOMAIN w : i \in Place(w) /\ i # 0
    <2>1. w \in Seq(Event)  BY DEF FeedTypes
    <2> QED BY <2>1 DEF Place
  <1>5. \A p \in DOMAIN w : w[p].ev # "list"  BY <1>1 DEF FeedOnce
  <1>6. ASSUME NEW b \in Beat, beatAt[b] = "sent" PROVE Seen(l, w, b)
    <2>1. b \in Pending /\ b \in S  BY <1>6 DEF Pending
    <2>2. \E p \in Place(w) : Has(l, w, p, b) /\ ~ListAt(w, p)
      <3>1. CASE heartbeatList # Unsent /\ b \in ToSet(heartbeatList)
        <4>1. l = heartbeatList  BY <3>1 DEF Shown
        <4>2. \E k \in DOMAIN l : l[k] = b  BY <3>1, <4>1 DEF ToSet
        <4>3. Has(l, w, 0, b)  BY <4>2 DEF Has, At
        <4>4. ~ListAt(w, 0)  BY <1>4 DEF ListAt
        <4> QED BY <1>4, <4>3, <4>4
      <3>2. CASE \E i \in DOMAIN w : w[i] = BeatEvent(b)
        <4>1. PICK i \in DOMAIN w : w[i] = BeatEvent(b)  BY <3>2
        <4>2. w[i].rows = <<b>> /\ i # 0 /\ i \in Place(w)  BY <1>4, <4>1 DEF BeatEvent
        <4>3. 1 \in DOMAIN <<b>> /\ <<b>>[1] = b  OBVIOUS
        <4>4. Has(l, w, i, b)  BY <4>2, <4>3 DEF Has, At
        <4> QED BY <1>5, <4>2, <4>4 DEF ListAt
      <3> QED BY <1>1, <2>1, <3>1, <3>2
    <2>3. PICK p \in Place(w) : Has(l, w, p, b) /\ ~ListAt(w, p)  BY <2>2
    <2>4. NoneLost(l, w, S)  BY <1>2 DEF FeedTrue
    <2>5. Fresh(w, p)  BY <2>1, <2>3, <2>4 DEF NoneLost
    <2> QED BY <2>3, <2>5 DEF Seen, Lives
  <1>7. Covers(l, w, A, rows)
    <2>1. heartbeats \in SUBSET Beat  BY DEF FeedTypes
    <2>2. \A b \in heartbeats : \/ \E i \in DOMAIN rows : rows[i] = b
                                \/ DOMAIN rows # {} /\ \A i \in DOMAIN rows : b < rows[i]
      BY <2>1, NewestRows
    <2>3. \A b \in A : (b \in Beat /\ beatAt[b] = "sent") \/ b \in heartbeats
      BY DEF Alive
    <2> QED BY <1>6, <2>2, <2>3 DEF Covers
  <1>8. login'.at = "read" /\ login'.rows = rows  BY <1>1
  <1>9. /\ ~crossed' => InOrder(l, w, A)
        /\ NoneLost(l, w, S)
        /\ clear'.at = "none" => Only(l, w, Good)
    BY <1>1, <1>2 DEF FeedTrue
  <1>10. /\ login'.at = "read" => Covers(l, w, A, login'.rows)
         /\ \A p \in DOMAIN w : w[p].ev = "list" /\ Fresh(w, p) => Covers(l, w, A, w[p].rows)
         /\ login'.at # "none"
    BY <1>5, <1>7, <1>8
  <1> QED BY <1>3, <1>9, <1>10 DEF FeedTrue

LEMMA SendLoginTrue ==
    ASSUME FeedTypes, FeedLists, FeedOnce, ~overtaken => FeedTrue, SendLoginList, ~overtaken'
    PROVE  FeedTrue'
  <1>1. /\ login.at = "read" /\ login' = Calm /\ Emit(ListEvent(login.rows, FALSE))
        /\ UNCHANGED <<beatAt, heartbeats, clear, heartbeatList, crossed>>
        /\ ~overtaken /\ ToSet(login.rows) \subseteq heartbeats
    BY DEF SendLoginList, FeedTypes
  <1>2. FeedTrue  BY <1>1
  <1> PICK l, w, v, e, A, S, G, rows :
             /\ l = Shown /\ w = wire /\ v = wire' /\ e = ListEvent(login.rows, FALSE)
             /\ A = Alive /\ S = Pending /\ G = Good /\ rows = login.rows
    OBVIOUS
  <1>3. Shown' = l /\ Alive' = A /\ Pending' = S /\ Good' = G
    BY <1>1 DEF Shown, Alive, Pending, Good
  <1>4. /\ w \in Seq(Event) /\ rows \in Seq(Beat) /\ e \in Event /\ e.ev = "list"
        /\ e.rows = rows
    <2>1. login.rows \in Seq(Beat) /\ wire \in Seq(Event) /\ FALSE \in BOOLEAN
      BY DEF FeedTypes
    <2>2. e \in Event  BY <2>1, NewList
    <2> QED BY <2>1, <2>2 DEF ListEvent
  <1>5. inRoom /\ \A p \in DOMAIN w : w[p].ev # "list"  BY <1>1 DEF FeedOnce, FeedTypes
  <1>6. Sends(v, w, e)  BY <1>1, <1>4, <1>5, EmitIs
  <1>7. /\ Len(v) \in DOMAIN v /\ v[Len(v)] = e
        /\ \A p \in DOMAIN v : p = Len(v) \/ p \in DOMAIN w
        /\ \A p \in DOMAIN w : v[p] = w[p]
    BY ONLY <1>4, <1>6, SentWire
  <1>8. Fresh(v, Len(v))  BY ONLY <1>4, <1>6, SentPlaces
  <1>9. \A p \in DOMAIN v : v[p].ev = "list" => p = Len(v)  BY <1>5, <1>7
  <1>10. ~crossed => InOrder(l, v, A)
    <2>1. ~crossed => InOrder(l, w, A)  BY <1>2 DEF FeedTrue
    <2>2. InOrder(l, w, A) => InOrder(l, v, A)  BY ONLY <1>4, <1>6, ListSent
    <2> QED BY <2>1, <2>2
  <1>11. Covers(l, v, A, rows)
    <2>1. Covers(l, w, A, rows)  BY <1>1, <1>2 DEF FeedTrue
    <2>2. \A R : Covers(l, w, A, R) => Covers(l, v, A, R)  BY ONLY <1>4, <1>6, ListSent
    <2> QED BY <2>1, <2>2
  <1>12. NoneLost(l, v, S)
    <2>1. NoneLost(l, w, S)  BY <1>2 DEF FeedTrue
    <2>2. e.ev # "overwrite"  BY <1>4
    <2> QED BY ONLY <1>4, <1>6, <2>1, <2>2, SentRest
  <1>13. clear.at = "none" => Only(l, v, G)
    <2>1. clear.at = "none" => Only(l, w, G)  BY <1>2 DEF FeedTrue
    <2>2. \A i \in DOMAIN e.rows : e.rows[i] \in G
      <3>1. \A i \in DOMAIN rows : rows[i] \in heartbeats  BY <1>1 DEF ToSet
      <3>2. heartbeats \subseteq G  BY DEF Good, FeedTypes
      <3> QED BY <1>4, <3>1, <3>2
    <2>3. Only(l, w, G) => Only(l, v, G)  BY ONLY <1>4, <1>6, <2>2, SentRest
    <2> QED BY <2>1, <2>3
  <1>14. \A p \in DOMAIN v : v[p].ev = "list" /\ Fresh(v, p) => Covers(l, v, A, v[p].rows)
    BY <1>4, <1>7, <1>9, <1>11
  <1>15. ~ \A p \in DOMAIN v : v[p].ev = "list" => ~Fresh(v, p)
    BY <1>4, <1>7, <1>8
  <1>16. login'.at = "none" /\ crossed' = crossed /\ clear' = clear  BY <1>1 DEF Calm
  <1> QED BY <1>3, <1>10, <1>12, <1>13, <1>14, <1>15, <1>16 DEF FeedTrue

\* Which beats a sent one joins.
LEMMA SendBeatSets ==
    ASSUME FeedTypes, FeedMade, NEW b \in Beat, SendBeat(b)
    PROVE  /\ Alive' \subseteq Alive \cup {b} /\ Good \subseteq Good'
           /\ \A c \in Pending' : \/ c \in Pending
                                  \/ c = b /\ \A p \in Place(wire) : ~Has(Shown, wire, p, b)
           /\ ~overtaken' => b \in Good'
           /\ ~crossed' => \A h \in Alive' : ~(h > b)
  <1>1. /\ heartbeats' = heartbeats /\ beatAt[b] \in {"loop", "kept"}
        /\ beatAt'[b] = IF beatAt[b] = "loop" THEN "sent" ELSE "done"
        /\ \A c \in Beat : c # b => beatAt'[c] = beatAt[c]
        /\ crossed' = (crossed \/ \E c \in Beat : c > b /\ beatAt[c] \in {"sent", "done"})
        /\ overtaken' = (overtaken \/ (beatAt[b] = "kept" /\ b \notin heartbeats))
    BY DEF SendBeat, FeedTypes
  <1>2. beatAt[b] = "loop" => b \notin heartbeats  BY DEF FeedMade
  <1>3. Alive' \subseteq Alive \cup {b}  BY <1>1 DEF Alive
  <1>4. Good \subseteq Good'  BY <1>1, <1>2 DEF Good
  <1>5. ASSUME NEW c \in Pending', c \notin Pending
        PROVE  c = b /\ \A p \in Place(wire) : ~Has(Shown, wire, p, b)
    <2>1. c = b /\ beatAt[b] = "loop"  BY <1>1, <1>5 DEF Pending
    <2> QED BY <2>1 DEF FeedMade, Made
  <1>6. ~overtaken' => b \in Good'  BY <1>1 DEF Good
  <1>7. ASSUME ~crossed', NEW h \in Alive', h > b PROVE FALSE
    <2>1. h \in Alive /\ h \in Beat
      <3>1. b \in Int  BY FeedAssumption DEF Beat
      <3> QED BY <1>3, <1>7, <3>1 DEF Alive
    <2>2. beatAt[h] \in {"sent", "done"}
      BY <2>1 DEF Alive, FeedMade
    <2> QED BY <1>1, <1>7, <2>1, <2>2
  <1> QED BY <1>3, <1>4, <1>5, <1>6, <1>7

LEMMA SendBeatTrue ==
    ASSUME FeedTypes, FeedMade, NEW b \in Beat, ~overtaken => FeedTrue,
           SendBeat(b), inRoom, ~overtaken'
    PROVE  FeedTrue'
  <1>1. /\ Emit(BeatEvent(b)) /\ ~overtaken
        /\ UNCHANGED <<login, clear, heartbeatList>>
        /\ crossed' = (crossed \/ \E c \in Beat : c > b /\ beatAt[c] \in {"sent", "done"})
    BY DEF SendBeat
  <1>2. FeedTrue  BY <1>1
  <1> PICK l, w, v, e, A, B, S, T, G, H :
             /\ l = Shown /\ w = wire /\ v = wire' /\ e = BeatEvent(b)
             /\ A = Alive /\ B = Alive' /\ S = Pending /\ T = Pending' /\ G = Good /\ H = Good'
    OBVIOUS
  <1>3. Shown' = l  BY <1>1 DEF Shown
  <1>4. /\ w \in Seq(Event) /\ e \in Event /\ e.ev = "beat" /\ DOMAIN e.rows = {1}
        /\ e.rows[1] = b
    <2>1. wire \in Seq(Event) /\ DOMAIN <<b>> = {1} /\ <<b>>[1] = b  BY DEF FeedTypes
    <2>2. e \in Event  BY NewRow
    <2> QED BY <2>1, <2>2 DEF BeatEvent
  <1>5. Sends(v, w, e)  BY <1>1, <1>4, EmitIs
  <1>6. /\ B \in SUBSET (A \cup {b}) /\ G \in SUBSET H /\ b \in H
        /\ \A c \in T : c \in S \/ \A p \in Place(w) : ~Has(l, w, p, c)
        /\ ~crossed' => \A h \in B : ~(h > b)
    BY SendBeatSets
  <1>7. /\ Len(v) \in DOMAIN v /\ v[Len(v)] = e
        /\ \A p \in DOMAIN v : p = Len(v) \/ p \in DOMAIN w
        /\ \A p \in DOMAIN w : p \in DOMAIN v /\ v[p] = w[p]
    BY ONLY <1>4, <1>5, SentWire
  <1>8. \A p \in DOMAIN w : Fresh(v, p) <=> Fresh(w, p)
    <2>1. \A p \in DOMAIN w : p \in Place(w)  BY <1>4 DEF Place
    <2>2. \A p \in Place(w) : Fresh(v, p) <=> Fresh(w, p)
      <3>1. e.ev # "overwrite"  BY <1>4
      <3> QED BY ONLY <1>4, <1>5, <3>1, SentPlaces
    <2> QED BY <2>1, <2>2
  <1>9. /\ InOrder(l, w, A) /\ (\A h \in B : ~(h > b)) => InOrder(l, v, B)
        /\ \A R : Covers(l, w, A, R) => Covers(l, v, B, R)
        /\ Seen(l, v, b)
    <2>4. Joined(A, b, B)  BY <1>6 DEF Joined
    <2>1. InOrder(l, w, A) /\ (\A h \in B : ~(h > b)) => InOrder(l, v, B)
      BY ONLY <1>4, <1>5, <2>4, b \in Beat, BeatSent
    <2>2. Seen(l, v, b)
      BY ONLY <1>4, <1>5, <2>4, b \in Beat, BeatSent
    <2>3. ASSUME NEW R, Covers(l, w, A, R) PROVE Covers(l, v, B, R)
      BY ONLY <1>4, <1>5, <2>3, <2>4, b \in Beat, BeatCovers
    <2> QED BY <2>1, <2>2, <2>3
  <1>10. ~crossed' => InOrder(l, v, B)
    <2>1. ~crossed => InOrder(l, w, A)  BY <1>2 DEF FeedTrue
    <2> QED BY <1>1, <1>6, <1>9, <2>1
  <1>11. login'.at = "read" => Covers(l, v, B, login'.rows)
    <2>1. login.at = "read" => Covers(l, w, A, login.rows)  BY <1>2 DEF FeedTrue
    <2> QED BY <1>1, <1>9, <2>1
  <1>12. \A p \in DOMAIN v : v[p].ev = "list" /\ Fresh(v, p) => Covers(l, v, B, v[p].rows)
    <2>1. \A p \in DOMAIN w : w[p].ev = "list" /\ Fresh(w, p) => Covers(l, w, A, w[p].rows)
      BY <1>2 DEF FeedTrue
    <2> SUFFICES ASSUME NEW p \in DOMAIN v, v[p].ev = "list", Fresh(v, p)
                 PROVE  Covers(l, v, B, v[p].rows)
      OBVIOUS
    <2>2. p \in DOMAIN w /\ v[p] = w[p]  BY <1>4, <1>7
    <2>3. Covers(l, w, A, w[p].rows)  BY <1>8, <2>1, <2>2
    <2> QED BY <1>9, <2>2, <2>3
  <1>13. Something(l, v)  BY <1>9 DEF Something
  <1>14. NoneLost(l, v, T)
    <2>1. NoneLost(l, w, S)  BY <1>2 DEF FeedTrue
    <2>2. e.ev # "overwrite"  BY <1>4
    <2> QED BY ONLY <1>4, <1>5, <1>6, <2>1, <2>2, SentRest
  <1>15. clear.at = "none" => Only(l, v, H)
    <2>1. clear.at = "none" => Only(l, w, G)  BY <1>2 DEF FeedTrue
    <2>2. Only(l, w, G) => Only(l, w, H)  BY ONLY <1>6, Shrinks
    <2>3. Only(l, w, H) => Only(l, v, H)
      <3>1. \A i \in DOMAIN e.rows : e.rows[i] \in H  BY <1>4, <1>6
      <3> QED BY ONLY <1>4, <1>5, <3>1, SentRest
    <2> QED BY <2>1, <2>2, <2>3
  <1> QED BY <1>1, <1>3, <1>10, <1>11, <1>12, <1>13, <1>14, <1>15 DEF FeedTrue

\* A list that a clear sends makes the browser's true, whatever that was.
LEMMA SendClearTrue ==
    ASSUME FeedTypes, FeedLists, FeedMade, SendClearList, inRoom, ~overtaken'
    PROVE  FeedTrue'
  <1>1. /\ Emit(ListEvent(clear.rows, TRUE)) /\ clear' = Calm
        /\ UNCHANGED <<beatAt, heartbeats, login, heartbeatList, crossed>>
        /\ \A b \in (heartbeats \cup Pending) \ ToSet(clear.rows) : beatAt[b] = "kept"
    BY DEF SendClearList
  <1> PICK l, v, w, e, A, S, G, rows :
             /\ l = Shown /\ w = wire /\ v = wire' /\ e = ListEvent(clear.rows, TRUE)
             /\ A = Alive /\ S = Pending /\ G = Good /\ rows = clear.rows
    OBVIOUS
  <1>2. Shown' = l /\ Alive' = A /\ Pending' = S /\ Good' = G
    BY <1>1 DEF Shown, Alive, Pending, Good
  <1>3. /\ w \in Seq(Event) /\ e \in Event /\ e.ev = "overwrite" /\ e.rows = rows
        /\ Rising(rows) /\ \A i \in DOMAIN rows : rows[i] \in heartbeats
    <2>1. clear.rows \in Seq(Beat) /\ wire \in Seq(Event) /\ TRUE \in BOOLEAN
      BY DEF FeedTypes
    <2>2. e \in Event  BY <2>1, NewList
    <2> QED BY <2>1, <2>2 DEF ListEvent, FeedLists
  <1>4. Sends(v, w, e)  BY <1>1, <1>3, EmitIs
  <1>5. \A b \in A : \E i \in DOMAIN rows : rows[i] = b
    <2> SUFFICES ASSUME NEW b \in A PROVE b \in ToSet(rows)
      BY DEF ToSet
    <2>1. b \in heartbeats \cup Pending /\ beatAt[b] # "kept"  BY DEF Alive, Pending
    <2> QED BY <1>1, <2>1
  <1>6. S = {}
    <2> SUFFICES ASSUME NEW b \in S PROVE FALSE
      OBVIOUS
    <2>1. b \in A /\ beatAt[b] = "sent"  BY DEF Pending, Alive
    <2>2. b \in heartbeats  BY <1>3, <1>5, <2>1
    <2> QED BY <2>1, <2>2 DEF FeedMade
  <1>7. /\ InOrder(l, v, A)
        /\ \A b \in A : Seen(l, v, b)
        /\ \A p \in Place(v) : Fresh(v, p) => p = Len(v)
        /\ At(l, v, Len(v)) = e.rows
    <2>1. Rising(e.rows) /\ Holds(e.rows, A)  BY <1>3, <1>5 DEF Holds
    <2> QED BY ONLY <1>3, <1>4, <2>1, OverwriteSent
  <1>8. \A R : Covers(l, v, A, R)  BY <1>7 DEF Covers
  <1>9. A # {} => Something(l, v)  BY <1>7 DEF Something
  <1>10. NoneLost(l, v, S)  BY <1>6 DEF NoneLost
  <1>11. Only(l, v, G)
    <2>1. heartbeats \subseteq G  BY DEF Good, FeedTypes
    <2> QED BY <1>3, <1>7, <2>1 DEF Only, Has
  <1> QED BY <1>1, <1>2, <1>7, <1>8, <1>9, <1>10, <1>11 DEF FeedTrue

LEMMA TakenCovers ==
    ASSUME NEW l \in Seq(Beat), NEW w \in Seq(Event), NEW v, Takes(v, w), NEW m,
           w[1].ev = "beat" => Len(w[1].rows) = 1,
           Merges(m, l, w[1].ev, w[1].rows), NEW A, NEW R, Covers(l, w, A, R)
    PROVE  Covers(m, v, A, R)
  <1>1. \A b : Seen(l, w, b) => Seen(m, v, b)  BY TakenSeen
  <1> QED BY <1>1 DEF Covers

LEMMA ReceiveTrue ==
    ASSUME FeedTypes, FeedLists, FeedOnce, ~overtaken => FeedTrue, Receive, ~overtaken'
    PROVE  FeedTrue'
  <1>1. /\ Takes(wire', wire) /\ wire' \in Seq(Event) /\ heartbeatList' \in Seq(Beat)
        /\ ~overtaken
        /\ \E m \in Seq(Beat) :
             /\ Merges(m, Shown, wire[1].ev, wire[1].rows)
             /\ \/ heartbeatList' = m
                \/ Drops(heartbeatList', m) /\ Len(m) >= Cap /\ ~ListToCome
    BY ReceiveIs
  <1>2. FeedTrue  BY <1>1
  <1>3. UNCHANGED <<beatAt, heartbeats, login, clear, crossed>>  BY DEF Receive
  <1> PICK l, w, v, n, A, S, G :
             /\ l = Shown /\ w = wire /\ v = wire' /\ n = heartbeatList'
             /\ A = Alive /\ S = Pending /\ G = Good
    OBVIOUS
  <1>4. /\ w \in Seq(Event) /\ l \in Seq(Beat) /\ v \in Seq(Event) /\ n \in Seq(Beat)
        /\ Takes(v, w) /\ A \in SUBSET Beat
    BY <1>1, ShownIs DEF FeedTypes, Alive
  <1>5. PICK m \in Seq(Beat) : /\ Merges(m, l, w[1].ev, w[1].rows)
                               /\ n = m \/ (Drops(n, m) /\ Len(m) >= Cap /\ ~ListToCome)
    BY <1>1
  <1>6. Shown' = n /\ Alive' = A /\ Pending' = S /\ Good' = G
    <2>1. Unsent \notin Seq(Beat)  BY ShownIs
    <2> QED BY <1>1, <1>3, <2>1 DEF Shown, Alive, Pending, Good
  <1>7. /\ 1 \in DOMAIN w
        /\ \A p \in DOMAIN v : p + 1 \in DOMAIN w /\ p + 1 # 1 /\ v[p] = w[p + 1]
    BY ONLY <1>4, TakenWire
  <1>8. /\ IF w[1].ev = "beat" THEN Len(w[1].rows) = 1 ELSE Rising(w[1].rows)
        /\ w[1].ev = "beat" => Len(w[1].rows) = 1
    BY <1>7 DEF FeedLists
  <1>9. \A p \in DOMAIN v : Fresh(v, p) <=> Fresh(w, p + 1)
    <2>1. \A p \in DOMAIN v : p \in Place(v)  BY <1>4 DEF Place
    <2> QED BY ONLY <1>4, <2>1, TakenPlaces
  <1>10. /\ ~crossed => InOrder(l, w, A)
         /\ login.at = "read" => Covers(l, w, A, login.rows)
         /\ \A p \in DOMAIN w : w[p].ev = "list" /\ Fresh(w, p) => Covers(l, w, A, w[p].rows)
         /\ login.at = "none" /\ (\A p \in DOMAIN w : w[p].ev = "list" => ~Fresh(w, p))
               /\ A # {} => Something(l, w)
         /\ NoneLost(l, w, S)
         /\ clear.at = "none" => Only(l, w, G)
    BY <1>2 DEF FeedTrue
  <1>11. ~crossed => InOrder(m, v, A)
    <2> SUFFICES ASSUME InOrder(l, w, A) PROVE InOrder(m, v, A)
      BY <1>10
    <2>1. w[1].ev = "list" /\ Fresh(w, 1) => Covers(l, w, A, w[1].rows)  BY <1>7, <1>10
    <2> QED BY <1>4, <1>5, <1>8, <2>1, TakenOrder
  <1>12. ASSUME NEW R, Covers(l, w, A, R) PROVE Covers(m, v, A, R)
    BY ONLY <1>4, <1>5, <1>8, <1>12, TakenCovers
  <1>13. login.at = "read" => Covers(m, v, A, login.rows)  BY <1>10, <1>12
  <1>14. ASSUME NEW p \in DOMAIN v, v[p].ev = "list", Fresh(v, p)
         PROVE  Covers(m, v, A, v[p].rows)
    <2>1. p + 1 \in DOMAIN w /\ v[p] = w[p + 1]  BY <1>7
    <2>2. Fresh(w, p + 1)  BY <1>9, <1>14
    <2>3. Covers(l, w, A, v[p].rows)  BY <1>10, <1>14, <2>1, <2>2
    <2> QED BY <1>12, <2>3
  <1>15. /\ \A T : NoneLost(l, w, T) => NoneLost(m, v, T)
         /\ \A T : Only(l, w, T) => Only(m, v, T)
         /\ Something(l, w) => Something(m, v)
    BY ONLY <1>4, <1>5, <1>8, TakenRest
  <1>16. ASSUME login.at = "none", \A p \in DOMAIN v : v[p].ev = "list" => ~Fresh(v, p), A # {}
         PROVE  Something(m, v)
    <2>1. CASE w[1].ev = "list" /\ Fresh(w, 1)
      <3>1. Covers(l, w, A, w[1].rows)  BY <1>7, <1>10, <2>1
      <3> QED BY <1>4, <1>5, <1>16, <2>1, <3>1, TakenSomething
    <2>2. CASE ~(w[1].ev = "list" /\ Fresh(w, 1))
      <3>1. ASSUME NEW p \in DOMAIN w, w[p].ev = "list", Fresh(w, p) PROVE FALSE
        <4>1. p # 1  BY <2>2, <3>1
        <4> DEFINE q == p - 1
        <4>2. q \in DOMAIN v /\ q + 1 = p
          <5>1. Len(v) = Len(w) - 1 /\ Len(w) \in Nat  BY <1>4 DEF Takes
          <5>2. DOMAIN v = 1 .. Len(w) - 1 /\ DOMAIN w = 1 .. Len(w)  BY <1>4, <5>1
          <5> QED BY <4>1, <5>1, <5>2
        <4> HIDE DEF q
        <4>3. v[q].ev = "list" /\ Fresh(v, q)  BY <1>7, <1>9, <3>1, <4>2
        <4> QED BY <1>16, <4>2, <4>3
      <3> QED BY <1>10, <1>15, <1>16, <3>1
    <2> QED BY <2>1, <2>2
  <1>17. /\ NoneLost(m, v, S) /\ (clear.at = "none" => Only(m, v, G))  BY <1>10, <1>15
  <1>18. /\ login' = login /\ clear' = clear /\ crossed' = crossed  BY <1>3
  <1>19. CASE n = m
    BY <1>6, <1>11, <1>13, <1>14, <1>16, <1>17, <1>18, <1>19 DEF FeedTrue
  <1>20. CASE Drops(n, m) /\ Len(m) >= Cap /\ ~ListToCome
    <2>1. Len(m) > 1
      <3>1. Len(m) \in Nat  BY <1>5
      <3> QED BY <1>20, <3>1, FeedAssumption
    <2>2. login.at = "none"  BY <1>20 DEF ListToCome, Calm
    <2>3. \A p \in DOMAIN v : v[p].ev # "list"
      <3>1. \A p \in DOMAIN w : w[p].ev # "list"  BY <1>20 DEF ListToCome
      <3> QED BY <1>7, <3>1
    <2>4. /\ \A B : InOrder(m, v, B) => InOrder(n, v, B)
          /\ \A T : NoneLost(m, v, T) => NoneLost(n, v, T)
          /\ \A T : Only(m, v, T) => Only(n, v, T)
          /\ Something(m, v) => Something(n, v)
      BY ONLY <1>4, <1>5, <1>20, <2>1, Dropped
    <2>5. ~crossed => InOrder(n, v, A)  BY <1>11, <2>4
    <2>6. NoneLost(n, v, S) /\ (clear.at = "none" => Only(n, v, G))  BY <1>17, <2>4
    <2>7. A # {} => Something(n, v)  BY <1>16, <2>2, <2>3, <2>4
    <2> QED BY <1>6, <1>18, <2>2, <2>3, <2>5, <2>6, <2>7 DEF FeedTrue
  <1> QED BY <1>5, <1>19, <1>20

LEMMA TrueKept ==
    ASSUME FeedInv, [FeedNext]_feedVars, inRoom', ~overtaken'
    PROVE  FeedTrue'
  <1> USE DEF FeedInv
  <1>1. ASSUME NEW b \in Beat, NEW how \in {"loop", "push"}, MakeBeat(b, how)
        PROVE  FeedTrue'
    <2>1. inRoom /\ ~overtaken  BY <1>1 DEF MakeBeat
    <2> QED BY <1>1, <2>1, StoresTrue
  <1>2. ASSUME NEW b \in Beat, StoreBeat(b) \/ StoreRefused(b) PROVE FeedTrue'
    <2>1. CASE StoreBeat(b)
      <3>1. inRoom /\ ~overtaken  BY <2>1 DEF StoreBeat
      <3> QED BY <2>1, <3>1, StoresTrue
    <2>2. CASE StoreRefused(b)
      <3>1. inRoom /\ ~overtaken  BY <2>2 DEF StoreRefused
      <3> QED BY <2>2, <3>1, StoresTrue
    <2> QED BY <1>2, <2>1, <2>2
  <1>3. ASSUME NEW b \in Beat, SendBeat(b) PROVE FeedTrue'
    <2>1. inRoom  BY <1>3 DEF SendBeat
    <2> QED BY <1>3, <2>1, SendBeatTrue
  <1>4. CASE Join  BY <1>4, JoinTrue
  <1>5. CASE ReadForLogin
    <2>1. inRoom  BY <1>5 DEF ReadForLogin
    <2> QED BY <1>5, <2>1, ReadTrue
  <1>6. CASE SendLoginList
    <2>1. inRoom  BY <1>6 DEF SendLoginList
    <2> QED BY <1>6, <2>1, SendLoginTrue
  <1>7. CASE Disconnected  BY <1>7 DEF Disconnected
  <1>8. CASE BeginClear \/ ReadForClear
    <2>1. UNCHANGED <<inRoom, overtaken>>  BY <1>8 DEF BeginClear, ReadForClear
    <2>2. inRoom /\ ~overtaken  BY <2>1
    <2> QED BY <1>8, <2>2, ClearsTrue
  <1>9. CASE SendClearList
    <2>1. inRoom  BY <1>9 DEF SendClearList
    <2> QED BY <1>9, <2>1, SendClearTrue
  <1>10. CASE Receive
    <2>1. inRoom  BY <1>10 DEF Receive
    <2> QED BY <1>10, <2>1, ReceiveTrue
  <1>11. CASE UNCHANGED feedVars
    <2>1. UNCHANGED <<beatAt, heartbeats, inRoom, login, clear, wire, heartbeatList,
                      overtaken, crossed>>
      BY <1>11 DEF feedVars
    <2>2. FeedTrue /\ Alive' = Alive /\ Pending' = Pending /\ Good' = Good
      BY <2>1 DEF Alive, Pending, Good
    <2> QED BY <2>1, <2>2, QuietTrue
  <1> QED BY <1>1, <1>2, <1>3, <1>4, <1>5, <1>6, <1>7, <1>8, <1>9, <1>10, <1>11 DEF FeedNext

LEMMA FeedStart == FeedInit => FeedInv
  <1> SUFFICES ASSUME FeedInit PROVE FeedInv
    OBVIOUS
  <1> USE DEF FeedInit
  <1>1. <<>> \in Seq(Beat) /\ <<>> \in Seq(Event)  OBVIOUS
  <1>2. Shown = <<>> /\ Place(wire) = {0} /\ At(Shown, wire, 0) = <<>> /\ Len(Shown) = 0
    BY DEF Shown, Place, At
  <1>3. FeedTypes
    <2>1. beatAt \in [Beat -> {"none", "loop", "push", "sent", "kept", "done", "failed"}]
      OBVIOUS
    <2>2. /\ login \in [at : {"none", "joined", "read"}, rows : Seq(Beat)]
          /\ clear \in [at : {"none", "deleted", "read"}, rows : Seq(Beat)]
      BY <1>1 DEF Calm
    <2> QED BY <1>1, <2>1, <2>2 DEF FeedTypes
  <1>4. FeedLists
    <2>1. Rising(<<>>)  BY FeedAssumption DEF Rising
    <2> QED BY <2>1 DEF FeedLists, Calm
  <1>5. FeedMade
    <2>1. \A p \in Place(wire) : \A b : ~Has(Shown, wire, p, b)  BY <1>2 DEF Has
    <2>2. \A b \in heartbeats : beatAt[b] \in {"kept", "done"}  OBVIOUS
    <2>3. login.rows = <<>>  BY DEF Calm
    <2> QED BY <2>1, <2>2, <2>3 DEF FeedMade
  <1>6. FeedOnce
    <2>1. login.at = "none" /\ \A p \in DOMAIN wire : FALSE  BY DEF Calm
    <2>2. ~ToCome  BY <2>1 DEF ToCome
    <2>3. 0 < ReadLimit + Cap  BY FeedAssumption
    <2> QED BY <1>2, <2>1, <2>2, <2>3 DEF FeedOnce
  <1> QED BY <1>3, <1>4, <1>5, <1>6 DEF FeedInv

LEMMA FeedStep == FeedInv /\ [FeedNext]_feedVars => FeedInv'
  BY TypesKept, ListsKept, MadeKept, OnceKept, TrueKept DEF FeedInv

\* In a list that is true nothing is missing and the last is the newest, once
\* nothing is on its way.
LEMMA FeedAtRest == FeedInv => FeedTruthful
  <1> SUFFICES ASSUME FeedInv PROVE FeedTruthful
    OBVIOUS
  <1>1. FeedTypes /\ FeedMade /\ FeedOnce /\ (inRoom /\ ~overtaken => FeedTrue)
    BY DEF FeedInv
  <1>2. heartbeatList # Unsent => Len(heartbeatList) < ReadLimit + Cap
    BY <1>1, ShownIs DEF FeedOnce
  <1> SUFFICES ASSUME FeedRests, inRoom, ~overtaken
               PROVE  LET shown == ToSet(heartbeatList)
                          last  == heartbeatList[Len(heartbeatList)]
                          Since(b) == \E first \in shown : first <= b
                      IN  /\ \A b \in shown \ heartbeats : beatAt[b] = "failed"
                          /\ ~crossed /\ heartbeats # {} =>
                                /\ {b \in heartbeats : Since(b)} \subseteq shown
                                /\ beatAt[last] = "failed" \/ \A b \in heartbeats : b <= last
    BY <1>2 DEF FeedTruthful
  <1>3. /\ login.at = "none" /\ clear.at = "none" /\ wire = <<>>
        /\ \A b \in Beat : beatAt[b] \in {"none", "done", "failed"}
    BY DEF FeedRests, Calm
  <1> PICK l : l = heartbeatList  OBVIOUS
  <1>4. heartbeatList # Unsent
    <2>1. ~ToCome  BY <1>3 DEF ToCome
    <2> QED BY <1>1, <2>1 DEF FeedOnce
  <1>5. l = Shown /\ l \in Seq(Beat)  BY <1>1, <1>4, ShownIs
  <1>6. /\ DOMAIN l = 1 .. Len(l) /\ Len(l) \in Nat
        /\ \A i \in DOMAIN l : l[i] \in Beat /\ l[i] \in Int
    BY <1>5, RowsAre
  <1>7. /\ Place(<<>>) = {0} /\ At(l, <<>>, 0) = l /\ Fresh(<<>>, 0) /\ Lives(<<>>, 0)
    BY DEF Place, At, Fresh, Lives, ListAt
  <1>8. FeedTrue  BY <1>1
  <1>9. ToSet(l) = {l[i] : i \in DOMAIN l}  BY DEF ToSet
  <1>10. ASSUME NEW b \in ToSet(l), b \notin heartbeats PROVE beatAt[b] = "failed"
    <2>1. Only(l, <<>>, Good)  BY <1>3, <1>5, <1>8 DEF FeedTrue
    <2>2. Has(l, <<>>, 0, b)  BY <1>7, <1>9 DEF Has
    <2>3. b \in Good  BY <1>7, <2>1, <2>2 DEF Only
    <2> QED BY <1>3, <1>10, <2>3 DEF Good
  <1>11. ASSUME ~crossed, heartbeats # {}
         PROVE  /\ \A b \in heartbeats, f \in ToSet(l) : f <= b => b \in ToSet(l)
                /\ \A b \in heartbeats : b <= l[Len(l)]
    <2>1. heartbeats \subseteq Alive
      BY <1>1, <1>3 DEF Alive, FeedTypes, FeedMade
    <2>2. InOrder(l, <<>>, Alive) /\ Something(l, <<>>)
      <3>1. Alive # {}  BY <1>11, <2>1
      <3>2. \A p \in DOMAIN <<>> : FALSE  OBVIOUS
      <3> QED BY <1>3, <1>5, <1>8, <1>11, <3>1, <3>2 DEF FeedTrue
    <2>3. \A b \in heartbeats : b \in Int  BY <1>1, FeedAssumption DEF FeedTypes, Beat
    <2>4. ASSUME NEW j \in DOMAIN l, NEW h \in heartbeats, h > l[j]
          PROVE  \E k \in DOMAIN l : k > j /\ l[k] = h
      <3>1. After(l, <<>>, 0, j, h)  BY <1>7, <2>1, <2>2, <2>4 DEF InOrder
      <3> QED BY <1>7, <3>1 DEF After
    <2>5. ASSUME NEW b \in heartbeats, NEW f \in ToSet(l), f <= b PROVE b \in ToSet(l)
      <3>1. PICK j \in DOMAIN l : l[j] = f  BY <1>9
      <3>2. b = f \/ b > l[j]  BY <1>6, <2>3, <2>5, <3>1
      <3> QED BY <1>9, <2>4, <3>1, <3>2
    <2>6. Len(l) \in DOMAIN l
      <3>1. PICK b, p : p \in Place(<<>>) /\ Has(l, <<>>, p, b)
        BY <2>2 DEF Something, Seen
      <3>2. \E k : k \in DOMAIN l  BY <1>7, <3>1 DEF Has
      <3> QED BY <1>6, <3>2
    <2>7. ASSUME NEW b \in heartbeats PROVE b <= l[Len(l)]
      <3>1. ~(b > l[Len(l)])  BY <1>6, <2>4, <2>6
      <3> QED BY <1>6, <2>3, <2>6, <3>1
    <2> QED BY <2>5, <2>7
  <1> QED BY <1>10, <1>11

\* What a browser shows of a monitor is true once all has come to rest: nothing
\* is missing from its first beat on, nothing else is in it but what could not be
\* stored, the last is the newest, and it has a bound - for any number of beats,
\* clears, logins and broken connections, and any limits (server/client.js,
\* sendHeartbeatList; src/mixins/socket.js).
THEOREM FeedTellsTheTruth == FeedSpec => []FeedTruthful
  <1>1. FeedSpec => []FeedInv  BY FeedStart, FeedStep, PTL DEF FeedSpec
  <1> QED BY <1>1, FeedAtRest, PTL
=============================================================================
