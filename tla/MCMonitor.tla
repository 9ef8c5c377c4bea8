----------------------------- MODULE MCMonitor -----------------------------
(* Instances of Monitor for TLC.                                           *)
EXTENDS Monitor

Plain(max, resend) == [push |-> FALSE, maxretries |-> max, resendInterval |-> resend,
                       upsideDown |-> FALSE]
Flipped(c) == [c EXCEPT !.upsideDown = TRUE]
Pushed(c)  == [c EXCEPT !.push = TRUE]

NoRetry   == Plain(0, 2)
OneRetry  == Plain(1, 2)
NoResend  == Plain(1, 0)
PushOnly  == [NoRetry EXCEPT !.push = TRUE]

\* A monitor that is turned upside down, and a push monitor.
Mixed == {OneRetry, Flipped(NoRetry), Pushed(OneRetry)}
TurnOver == [c \in Settings |-> IF c.push THEN {c} ELSE {OneRetry, Flipped(NoRetry)}]

\* Only the first is edited.
EditsOnly == [c \in Settings |-> IF c.push THEN {} ELSE {"edit"}]

\* One monitor whose settings stay, under every request.
Steady == {NoResend}
Same   == [c \in Settings |-> {c}]
All    == [c \in Settings |-> Operation]

\* A push monitor that is paused, and a monitor with checks of its own.
OnePush == {PushOnly}
Pauses  == [c \in Settings |-> {"pause"}]
None    == [c \in Settings |-> {}]
=============================================================================
