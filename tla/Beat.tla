-------------------------------- MODULE Beat --------------------------------
(***************************************************************************)
(* The decisions of one heartbeat (server/model/monitor.js, beat, and      *)
(* server/routers/api-router.js, determineStatus), as operators: what      *)
(* status a check leads to, whether the change is worth a notice, and when *)
(* a lasting outage is announced again.                                    *)
(***************************************************************************)
EXTENDS Naturals

UP == "UP"
DOWN == "DOWN"
PENDING == "PENDING"
MAINTENANCE == "MAINTENANCE"

Status == {UP, DOWN, PENDING, MAINTENANCE}

\* The columns of a heartbeat that later beats read are its status, retries and
\* downCount; when there is none, "?." and "||" read them as these.
NoBeat == [status |-> "none", retries |-> 0, downCount |-> 0]

\* What the try block of a beat meets: a maintenance window, a check that
\* reports UP, PENDING (docker, group, manual) or DOWN (manual), one that
\* throws, or one whose exception must not be retried (the JSON query of
\* retry_only_on_status_code_failure).
Outcome == {"maintenance", "up", "pending", "down", "throws", "throwsFinal"}

Config == [push : BOOLEAN,        \* type = "push"
           maxretries : Nat, resendInterval : Nat, upsideDown : BOOLEAN]

\* Mutant: other statuses are forgotten.
flipStatusOnly(s) == CASE s = UP -> DOWN [] s = DOWN -> UP [] OTHER -> "undefined"

flipStatus(s) == CASE s = UP -> DOWN [] s = DOWN -> UP [] OTHER -> s

\* An exception in the try block: the check's own, or "Flip UP to DOWN".
IsError(c, o) == o \in {"throws", "throwsFinal"} \/ (o = "up" /\ c.upsideDown)

\* bean.status when the exception is caught: what it was set to at first,
\* unless the check had passed and was flipped.
StatusAtError(c, o) == IF c.upsideDown /\ o # "up" THEN UP ELSE DOWN

Reported(o) == CASE o = "maintenance" -> MAINTENANCE [] o = "pending" -> PENDING
                 [] o = "down" -> DOWN [] OTHER -> UP

\* An error that counts as a failed attempt.
IsFailure(c, o) == IsError(c, o) /\ StatusAtError(c, o) = DOWN /\ o # "throwsFinal"

\* Mutant: one attempt too few.
CheckResultEager(c, o, retries) ==
    CASE ~IsError(c, o)  -> [status  |-> IF c.upsideDown THEN flipStatus(Reported(o)) ELSE Reported(o),
                             retries |-> 0]
      [] IsFailure(c, o) -> [status  |-> IF retries + 1 < c.maxretries THEN PENDING ELSE DOWN,
                             retries |-> retries + 1]
      [] OTHER           -> [status  |-> StatusAtError(c, o), retries |-> 0]

\* The status of the beat, and the count of attempts, after the try block
\* and its catch.
CheckResult(c, o, retries) ==
    CASE ~IsError(c, o)  -> [status  |-> IF c.upsideDown THEN flipStatus(Reported(o)) ELSE Reported(o),
                             retries |-> 0]
      [] IsFailure(c, o) -> [status  |-> IF retries < c.maxretries THEN PENDING ELSE DOWN,
                             retries |-> retries + 1]
      [] OTHER           -> [status  |-> StatusAtError(c, o), retries |-> 0]

\* determineStatus: the same decision for a call of /api/push that says s.
PushResult(c, s, prev) ==
    LET status == IF c.upsideDown THEN flipStatus(s) ELSE s
        retry  == [status |-> PENDING, retries |-> prev.retries + 1]
    IN  IF status = UP THEN [status |-> UP, retries |-> 0]
        ELSE CASE prev.status \in {"none", UP, PENDING} /\ prev.retries < c.maxretries -> retry
               [] prev.status \in {"none", UP} /\ prev.retries >= c.maxretries ->
                     [status |-> DOWN, retries |-> 0]
               [] OTHER -> [status |-> DOWN, retries |-> prev.retries + 1]

\* Mutant: the end of a maintenance window is not looked at.
isImportantForNotificationNoMaintenance(prev, status) ==
    \/ prev.status = "none"
    \/ status = DOWN /\ prev.status \in {UP, PENDING}
    \/ status = UP /\ prev.status = DOWN

\* Whether a change of status is worth a notice.
isImportantForNotification(prev, status) ==
    \/ prev.status = "none"
    \/ status = DOWN /\ prev.status \in {MAINTENANCE, UP, PENDING}
    \/ status = UP /\ prev.status = DOWN

\* Whether it is one that is marked in the log.
isImportantBeat(prev, status) ==
    \/ isImportantForNotification(prev, status)
    \/ status = MAINTENANCE /\ prev.status \in {DOWN, UP}
    \/ status = UP /\ prev.status = MAINTENANCE

\* sendNotification keeps silent about a first beat that is not DOWN.
Sends(prev, status) ==
    isImportantForNotification(prev, status) /\ (prev.status # "none" \/ status = DOWN)

Counts(c, status) == status = DOWN /\ c.resendInterval > 0

\* Mutant: one heartbeat too late.
AnnouncementLate(c, prev, status, reset) ==
    LET again == Counts(c, status) /\ prev.downCount + 1 > c.resendInterval
    IN  IF reset
        THEN [sent |-> Sends(prev, status), downCount |-> 0]
        ELSE [sent |-> again,
              downCount |-> IF again THEN 0
                            ELSE prev.downCount + IF Counts(c, status) THEN 1 ELSE 0]

\* Whether a beat is announced, and the down count it is stored with; reset
\* says that the count starts anew.
Announcement(c, prev, status, reset) ==
    LET again == Counts(c, status) /\ prev.downCount + 1 >= c.resendInterval
    IN  IF reset
        THEN [sent |-> Sends(prev, status), downCount |-> 0]
        ELSE [sent |-> again,
              downCount |-> IF again THEN 0
                            ELSE prev.downCount + IF Counts(c, status) THEN 1 ELSE 0]
=============================================================================
