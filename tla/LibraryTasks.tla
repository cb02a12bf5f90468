---------------------------- MODULE LibraryTasks ----------------------------
(***************************************************************************)
(* The tasks of module Measurements and, as one more, the offline checks of   *)
(* statements and models, which use neither a database nor a capture.          *)
(***************************************************************************)
EXTENDS Measurements, SchemaChecks

vars == <<measureVars, audit>>

Init == MeasureInit /\ IndexChecksInit

Measure == MeasureNext /\ UNCHANGED audit

Audit ==
    /\ task = "audit" /\ audit = NoAudit
    /\ \/ \E table \in Tables : \/ \E q \in Queries : CheckSelect(q, table)
                                \/ \E w \in Writes : CheckWrite(w, table)
       \/ \E m \in AppModels, catalog \in Catalogs : CheckModel(m, catalog)
    /\ UNCHANGED measureVars

Next == Measure \/ Audit

\* A call goes on as soon as it can: database/sql serves the requests for a
\* connection in their order, so a call that waits is not passed over forever.
\* The others give their connections back, and the context of a wait, which
\* must have a deadline, ends.
Fairness ==
    /\ SF_vars(CallStep /\ UNCHANGED audit)
    /\ WF_vars(PoolReturned /\ UNCHANGED audit)
    /\ WF_vars(ContextEnds /\ task = "wait" /\ UNCHANGED audit)

Spec == Init /\ [][Next]_vars
FairSpec == Spec /\ Fairness

---------------------------------------------------------------------------

\* Every call returns: the observers of a comparison use the pool its own
\* connection came from, however small it is, and a wait for replicas that are
\* never ready ends with its deadline.
CallsEnd == Running ~> ~Running
=============================================================================
