---------------------------- MODULE MCJobRunner ----------------------------
(* Small instances of JobRunner.  Paths are interchangeable, and so are    *)
(* calls of submit; liveness cannot be checked with TLC's symmetry, so     *)
(* NamedSpec has one of the behaviours that differ in names only: the      *)
(* first call to begin is FirstRequest, and it names FirstPath.            *)
EXTENDS JobRunner

CONSTANTS FirstRequest, FirstPath

InOrder(r, p) ==
    IF r = FirstRequest THEN p = FirstPath ELSE submit[FirstRequest].pc # "idle"

NamedNext ==
    \/ \E t \in Threads : HandlerStep(t)
    \/ \E r \in Requests : \/ \E p \in Paths : InOrder(r, p) /\ Submit(r, p)
                           \/ InSubmitStep(r)
                           \/ HandleCancel(r)
                           \/ CancelStep(r)
    \/ \E j \in JobIds : OwnerStep(j)
    \/ Destroy

NamedSpec == Init /\ [][NamedNext]_vars /\ Fairness

=============================================================================
