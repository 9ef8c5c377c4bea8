---- MODULE DomainExpiry ----
(***************************************************************************)
(* server/model/domain_expiry.js, as the beats of the monitors of one      *)
(* domain use it (server/model/monitor.js 1121-1143): each beat looks at   *)
(* the row of the domain, asks the registry if it has never been asked,    *)
(* and starts a sendNotifications that nobody waits for.  Days are counted *)
(* down to the expiry; the deadlines are the setting                       *)
(* domainExpiryNotifyDays.                                                 *)
(***************************************************************************)
EXTENDS Integers, FiniteSets

CONSTANTS
    Watcher,      \* the monitors of the domain
    Sender,       \* calls of sendNotifications that can be under way
    NotifyDays,   \* the deadlines, in days
    FirstExpiry,  \* days to the expiry at the start
    Renewals,     \* bound on the renewals of the domain
    Outages,      \* bound on the stores lost
    MaxOverlaps,  \* bound on the pairs of calls under way together
    NotSent       \* no call, no row, no deadline announced yet

\* A row of the table, and a call of sendNotifications with the row it loaded,
\* the deadline it tried last and the one it announced.
DomainRow == [expiry : Int, lastSent : NotifyDays \cup {NotSent}]

DomainCall == [row : DomainRow, daysRemaining : Int, tried : Nat,
               sent : NotifyDays \cup {NotSent}]

\* NotSent is none of the values it stands for the lack of.
ASSUME DomainAssumption ==
    /\ NotifyDays \subseteq Nat \ {0} /\ FirstExpiry \in Nat
    /\ Renewals \in Nat /\ Outages \in Nat /\ MaxOverlaps \in Nat
    /\ IsFiniteSet(Sender)
    /\ NotSent \notin Nat /\ NotSent \notin DomainRow /\ NotSent \notin DomainCall

VARIABLES
    domainRow,    \* [expiry, lastSent], or NotSent: lastCheck is set with it
    registry,     \* [day, renewed]: the expiry RDAP would answer, the renewals
    today,        \* days since the start
    checks,       \* per monitor: where its checkExpiry stands
    senders,      \* calls of sendNotifications
    announced,    \* per deadline: how often some provider accepted a message
    overlaps,     \* senders that started while another was under way
    outages       \* stores refused, or cut off by a restart after a message

domainVars == <<domainRow, registry, today, checks, senders, announced,
                overlaps, outages>>

\* What the row holds when RDAP gave no date: "Invalid Date".
NoDate == -1

DomainInit ==
    /\ domainRow = NotSent
    /\ registry = [day |-> FirstExpiry, renewed |-> 0]
    /\ today = 0
    /\ checks = [m \in Watcher |-> "idle"]
    /\ senders = [s \in Sender |-> NotSent]
    /\ announced = [d \in NotifyDays |-> 0]
    /\ overlaps = 0
    /\ outages = 0

StoreLost == outages < Outages /\ outages' = outages + 1

---------------------------------------------------------------------------
\* The guard of the re-check: the date of the last check minus now is never
\* a day or more.
CheckedRecently(row) == row # NotSent

\* A beat finds the row of the domain, or none.
CheckExpiry(m) ==
    /\ checks[m] = "idle"
    /\ checks' = [checks EXCEPT ![m] = IF CheckedRecently(domainRow) THEN "known"
                                       ELSE "asking"]
    /\ UNCHANGED <<domainRow, registry, today, senders, announced, overlaps, outages>>

\* RDAP answers, or fails, and the bean is stored: a new row, which the
\* unique index of the domain or the database may refuse.
RegistryAnswers(m, answers) ==
    /\ checks[m] = "asking"
    /\ \/ /\ domainRow = NotSent
          /\ domainRow' = [expiry |-> IF answers THEN registry.day ELSE NoDate,
                           lastSent |-> NotSent]
          /\ checks' = [checks EXCEPT ![m] = IF answers THEN "known" ELSE "idle"]
          /\ UNCHANGED outages
       \/ /\ IF domainRow = NotSent THEN StoreLost ELSE UNCHANGED outages
          /\ checks' = [checks EXCEPT ![m] = "idle"]
          /\ UNCHANGED domainRow
    /\ UNCHANGED <<registry, today, senders, announced, overlaps>>

---------------------------------------------------------------------------
\* Days to the expiry the row has.
DaysRemaining(row) == row.expiry - today

\* Mutant: a guard that takes the deadline announced last for one still to announce.
AnnounceableAgain(d, daysRemaining, lastSent) ==
    /\ daysRemaining <= d
    /\ lastSent # NotSent => lastSent >= d

\* A deadline is due, and none as close was announced before.
Announceable(d, daysRemaining, lastSent) ==
    /\ daysRemaining <= d
    /\ lastSent # NotSent => lastSent > d

\* The least of the deadlines still to try, in ascending order.
NextTarget(call) ==
    LET open == {d \in NotifyDays : d > call.tried
                     /\ Announceable(d, call.daysRemaining, call.row.lastSent)}
    IN IF open = {} THEN NotSent ELSE CHOOSE d \in open : \A e \in open : d <= e

\* The beat goes on: sendNotifications loads the row once more, or the
\* monitor has nobody to notify or the row no date.
SendNotifications(m, s) ==
    LET row == domainRow
        call == [row |-> row, daysRemaining |-> DaysRemaining(row),
                 tried |-> 0, sent |-> NotSent]
    IN /\ checks[m] = "known"
       /\ senders[s] = NotSent
       /\ row.expiry # NoDate
       /\ checks' = [checks EXCEPT ![m] = "idle"]
       /\ IF NextTarget(call) = NotSent THEN UNCHANGED <<senders, overlaps>>
          ELSE /\ senders' = [senders EXCEPT ![s] = call]
               /\ overlaps' = overlaps
                     + Cardinality({t \in Sender : senders[t] # NotSent})
               /\ overlaps' <= MaxOverlaps
       /\ UNCHANGED <<domainRow, registry, today, announced, outages>>

NobodyToNotify(m) ==
    /\ checks[m] = "known"
    /\ checks' = [checks EXCEPT ![m] = "idle"]
    /\ UNCHANGED <<domainRow, registry, today, senders, announced, overlaps, outages>>

\* sendDomainNotificationByTargetDays: all providers are tried; one that
\* accepts is enough, none sends the loop to the next deadline.
SendTarget(s, accepted) ==
    LET call == senders[s]
        target == NextTarget(call)
    IN /\ call # NotSent
       /\ call.sent = NotSent
       /\ target # NotSent
       /\ senders' = [senders EXCEPT ![s].tried = target,
                                     ![s].sent = IF accepted THEN target ELSE @]
       /\ announced' = IF accepted THEN [announced EXCEPT ![target] = @ + 1]
                       ELSE announced
       /\ UNCHANGED <<domainRow, registry, today, checks, overlaps, outages>>

\* The bean, read before the messages, is stored after them.
StoreSent(s) ==
    /\ senders[s] # NotSent
    /\ senders[s].sent # NotSent
    /\ \/ /\ domainRow' = [senders[s].row EXCEPT !.lastSent = senders[s].sent]
          /\ UNCHANGED outages
       \/ StoreLost /\ UNCHANGED domainRow
    /\ senders' = [senders EXCEPT ![s] = NotSent]
    /\ UNCHANGED <<registry, today, checks, announced, overlaps>>

\* No deadline is left to try.
SendEnds(s) ==
    /\ senders[s] # NotSent
    /\ senders[s].sent = NotSent
    /\ NextTarget(senders[s]) = NotSent
    /\ senders' = [senders EXCEPT ![s] = NotSent]
    /\ UNCHANGED <<domainRow, registry, today, checks, announced, overlaps, outages>>

---------------------------------------------------------------------------
\* The server crashes, or is stopped, and begins anew: what was under way is
\* gone.  A message may have been sent whose deadline was not stored yet.
ServerRestarts ==
    /\ IF \E s \in Sender : senders[s] # NotSent /\ senders[s].sent # NotSent
       THEN StoreLost ELSE UNCHANGED outages
    /\ checks' = [m \in Watcher |-> "idle"]
    /\ senders' = [s \in Sender |-> NotSent]
    /\ UNCHANGED <<domainRow, registry, today, announced, overlaps>>

\* The owner renews the domain.
Renew ==
    /\ registry.renewed < Renewals
    /\ registry' = [day |-> registry.day + FirstExpiry, renewed |-> registry.renewed + 1]
    /\ UNCHANGED <<domainRow, today, checks, senders, announced, overlaps, outages>>

\* A day passes, up to the day after the first expiry.
NextDay ==
    /\ today <= FirstExpiry
    /\ today' = today + 1
    /\ UNCHANGED <<domainRow, registry, checks, senders, announced, overlaps, outages>>

DomainNext ==
    \/ \E m \in Watcher : \/ CheckExpiry(m)
                          \/ \E answers \in BOOLEAN : RegistryAnswers(m, answers)
                          \/ \E s \in Sender : SendNotifications(m, s)
                          \/ NobodyToNotify(m)
    \/ \E s \in Sender : \/ \E accepted \in BOOLEAN : SendTarget(s, accepted)
                         \/ StoreSent(s)
                         \/ SendEnds(s)
    \/ ServerRestarts
    \/ Renew
    \/ NextDay

DomainSpec == DomainInit /\ [][DomainNext]_domainVars

---------------------------------------------------------------------------
\* A deadline is announced once, however the days and the beats of several
\* monitors fall and wherever the server restarts, but for one time more for
\* each pair of calls of sendNotifications that were under way together, and
\* for each store that did not follow its message because it was refused or
\* the server stopped first (domain_expiry.js 258-297).
DeadlineOnce ==
    \A d \in NotifyDays : announced[d] <= 1 + overlaps + outages
====
