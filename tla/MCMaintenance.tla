---------------------------- MODULE MCMaintenance ----------------------------
(* Instances of Maintenance for TLC: three ticks are a day.                *)
EXTENDS Maintenance

Recurring(starts, duration) ==
    [strategy |-> "recurring", starts |-> starts, duration |-> duration,
     interval |-> 1, from |-> 0, until |-> End + 1]

\* Slots one after the other; days at different times, with an end; a slot that
\* no timeout can count to the end of; a period; a switch.
Daily == Recurring({1, 3}, 2)
Later == [Recurring({2, 5}, 1) EXCEPT !.until = 4]
Month == Recurring({1}, 3)
Single == [Recurring({}, 0) EXCEPT !.strategy = "single", !.from = 1, !.until = 3]
Manual == [Recurring({}, 0) EXCEPT !.strategy = "manual"]

Five == {Daily, Later, Month, Single, Manual}

\* Every second day.
SecondDay == [Recurring({1, 3, 5}, 1) EXCEPT !.interval = 4]
Interval == {SecondDay}
=============================================================================
