---- MODULE BgpBridge ----
(***************************************************************************)
(* iris-bgp/bridge/index.js: alerts of BGPalerter become two gauges and a  *)
(* counter, each alert starting a timer that nothing cancels, and a poll   *)
(* of BGPalerter's health every minute that may outlive its minute.        *)
(***************************************************************************)
EXTENDS Integers, FiniteSets

CONSTANTS
    AlertType,   \* what channelToType makes of a channel
    Prefix,      \* an AS and a prefix
    HalfHour,    \* ticks to the automatic resolution
    MaxAlerts,   \* bound on the alerts of a behaviour
    MaxPolls,    \* bound on the polls under way
    Unseen       \* no alert, no prefix of that name yet

ASSUME BridgeAssumption ==
    /\ HalfHour \in Nat \ {0} /\ MaxAlerts \in Nat /\ MaxPolls \in Nat
    /\ Unseen \notin {0, 1}

VARIABLES
    alertState,       \* per type and prefix: the gauge, or Unseen
    prefixHealth,     \* per prefix: the gauge, or Unseen
    timers,           \* the running timers: [key, left]
    alertTotal,       \* the counter
    alerterHealthy,   \* the gauge of BGPalerter itself
    polls             \* polls under way

bridgeVars == <<alertState, prefixHealth, timers, alertTotal, alerterHealthy, polls>>

AlertKey == AlertType \X Prefix

BridgeInit ==
    /\ alertState = [k \in AlertKey |-> Unseen]
    /\ prefixHealth = [p \in Prefix |-> Unseen]
    /\ timers = {}
    /\ alertTotal = 0
    /\ alerterHealthy = 0
    /\ polls = 1

\* Mutant: an alert starts a timer only when it was not active before.
ProcessAlertOnce(k) ==
    /\ alertTotal < MaxAlerts
    /\ alertState' = [alertState EXCEPT ![k] = 1]
    /\ prefixHealth' = [prefixHealth EXCEPT ![k[2]] = 0]
    /\ alertTotal' = alertTotal + 1
    /\ timers' = IF alertState[k] # Unseen THEN timers
                 ELSE timers \cup {[key |-> k, left |-> HalfHour]}
    /\ UNCHANGED <<alerterHealthy, polls>>

\* An alert: both gauges, the counter, and one more timer.  Two timers of a
\* key that end together do the same.
ProcessAlert(k) ==
    /\ alertTotal < MaxAlerts
    /\ alertState' = [alertState EXCEPT ![k] = 1]
    /\ prefixHealth' = [prefixHealth EXCEPT ![k[2]] = 0]
    /\ alertTotal' = alertTotal + 1
    /\ timers' = timers \cup {[key |-> k, left |-> HalfHour]}
    /\ UNCHANGED <<alerterHealthy, polls>>

\* A timer ends.  An alert that is still active is resolved, and its prefix
\* with it, whatever came after the alert that started the timer.
AutoResolve(timer) ==
    LET k == timer.key IN
    /\ timer.left = 0
    /\ timers' = timers \ {timer}
    /\ IF alertState[k] = 1
          THEN /\ alertState' = [alertState EXCEPT ![k] = 0]
               /\ prefixHealth' = [prefixHealth EXCEPT ![k[2]] = 1]
          ELSE UNCHANGED <<alertState, prefixHealth>>
    /\ UNCHANGED <<alertTotal, alerterHealthy, polls>>

\* The interval starts a poll whether or not the last one has ended; answers
\* come in any order.
StartPoll ==
    /\ polls < MaxPolls
    /\ polls' = polls + 1
    /\ UNCHANGED <<alertState, prefixHealth, timers, alertTotal, alerterHealthy>>

CheckAlerterHealth(healthy) ==
    /\ polls > 0
    /\ polls' = polls - 1
    /\ alerterHealthy' = healthy
    /\ UNCHANGED <<alertState, prefixHealth, timers, alertTotal>>

BridgeTick ==
    /\ \A timer \in timers : timer.left > 0
    /\ timers' = {[timer EXCEPT !.left = @ - 1] : timer \in timers}
    /\ UNCHANGED <<alertState, prefixHealth, alertTotal, alerterHealthy, polls>>

BridgeNext ==
    \/ \E k \in AlertKey : ProcessAlert(k)
    \/ \E timer \in timers : AutoResolve(timer)
    \/ StartPoll
    \/ \E healthy \in {0, 1} : CheckAlerterHealth(healthy)
    \/ BridgeTick

BridgeSpec == BridgeInit /\ [][BridgeNext]_bridgeVars

---------------------------------------------------------------------------
\* A prefix is reported unhealthy only while an alert about it is active, and
\* an active alert has a timer that ends it: no gauge stays down when the
\* alerts stop, whatever timers were left over (bridge/index.js 178-202).
UnhealthyForAReason ==
    /\ \A p \in Prefix : prefixHealth[p] = 0 =>
          \E t \in AlertType : alertState[<<t, p>>] = 1
    /\ \A k \in AlertKey : alertState[k] = 1 =>
          \E timer \in timers : timer.key = k /\ timer.left <= HalfHour
====
