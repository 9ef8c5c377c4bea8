----------------------------- MODULE Leftovers -----------------------------
(***************************************************************************)
(* What iris-sync leaves behind.  It deletes the rows it knows of, those   *)
(* that its mapping names, so a row whose mapping was lost stays on the    *)
(* probe unless a wanted monitor of its name adopts it.  strayed remembers *)
(* those rows beside the behaviour of Reconciler: it restrains no step.    *)
(***************************************************************************)
EXTENDS Reconciler

VARIABLE strayed   \* strayed[pr]: rows the service has lost track of

Restarts == Crash \/ Shutdown \/ \E pr \in Probe : CrashWhileSaving(pr)

\* The row was added and its id never came back, or the mapping that named it
\* died with the process or with the file.
LosesTrackOf(pr, p) ==
    \/ p = nextId[pr] /\ \E parent \in cyc[pr].asked : CreateUnanswered(pr, parent)
    \/ mem[pr].p2m[p] # NoId /\ Restarts

\* A row that is adopted, or deleted, is a stray no more.
Strays ==
    strayed' = [pr \in Probe |->
        {p \in ProbeId : /\ probe'[pr][p] # NoMonitor
                         /\ mem'[pr].p2m[p] = NoId
                         /\ p \in strayed[pr] \/ LosesTrackOf(pr, p)}]

TrackingSpec ==
    /\ Init /\ strayed = [pr \in Probe |-> {}]
    /\ [][Next /\ Strays]_<<vars, strayed>>
    /\ Fairness

\* iris-sync/README.md:97 promises "If monitor exists in Probe but not Master
\* -> DELETE".  That holds of the rows the service has kept track of: whatever
\* requests are refused or time out, in the end such a row is one the probe is
\* meant to run.  It does not hold of the others: ComputeSyncPlan looks for
\* orphans in its mapping alone (reconciler.go:181).
NoLeftovers ==
    <>[](\A pr \in Probe : \A p \in Rows(pr) \ strayed[pr] :
            \E m \in WantedBy(pr) : probe[pr][p].name = master[m].name)
=============================================================================
