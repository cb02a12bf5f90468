----------------------------- MODULE Readiness -----------------------------
(***************************************************************************)
(* TiFlash preparation: InspectReplica, WaitReplicaReady and                 *)
(* ProbeCapabilities.  Each query takes a connection of the pool for its own *)
(* duration, while TiDB builds the replica and the context's deadline runs.  *)
(***************************************************************************)
EXTENDS Sessions, Integers, Sequences

CONSTANTS
    Null,
    Replicas,     \* what information_schema can answer: sequences of rows
    Capabilities  \* the probes, in order; one of them is "settings"

ASSUME ReadinessAssumption == Capabilities \in Seq(STRING)

VARIABLES
    replica,  \* the rows of the table's replica now
    wait,     \* the call of WaitReplicaReady
    seen,     \* history: what its last successful inspection saw
    probe     \* the call of ProbeCapabilities

readyVars == <<replica, wait, seen, probe>>

\* last carries the schema and the table alone until an inspection succeeds.
Named == [configured |-> FALSE, count |-> 0, available |-> FALSE]
NoWait == [pc |-> "rest", last |-> Named, err |-> "none"]
NoProbe == [pc |-> "rest", next |-> 1, state |-> <<>>, err |-> FALSE]

ReadyInit ==
    /\ replica \in Replicas
    /\ wait = NoWait /\ seen = Named /\ probe = NoProbe

---------------------------------------------------------------------------
(* InspectReplica: one statement, one visible base table.                     *)

ValidRow(row) ==
    IF row.count = Null
    THEN row.available = Null /\ row.progress = Null
    ELSE /\ row.count >= 0
         /\ row.available \in {0, 1}
         /\ row.progress # Null /\ row.progress \in 0..100

Readable(rows) == Len(rows) = 1 /\ ValidRow(rows[1])

InspectError(rows) == IF rows = <<>> THEN "not found" ELSE "invalid"

Inspected(row) ==
    IF row.count = Null THEN Named
    ELSE [configured |-> row.count > 0, count |-> row.count, available |-> row.available = 1]

---------------------------------------------------------------------------
(* WaitReplicaReady.                                                          *)

Answer(last, err) == [pc |-> "answered", last |-> last, err |-> err]

\* No deadline, a negative interval or an ended context: nothing is sent.
RefuseWait ==
    /\ wait.pc = "rest"
    /\ wait' = Answer(Named, "refused")
    /\ seen' = Named
    /\ UNCHANGED <<sessionVars, replica, probe>>

StartWait ==
    /\ wait.pc = "rest" /\ ~cancelled
    /\ wait' = [NoWait EXCEPT !.pc = "inspect"]
    /\ seen' = Named
    /\ UNCHANGED <<sessionVars, replica, probe>>

\* Mutant: the answer is the failed inspection, not the last good one.
InspectionFailsEmpty ==
    /\ wait.pc = "inspect"
    /\ \/ cancelled /\ wait' = Answer(Named, "context")
       \/ idle # {} /\ wait' = Answer(Named, "query")
       \/ idle # {} /\ ~Readable(replica) /\ wait' = Answer(Named, InspectError(replica))
    /\ UNCHANGED <<sessionVars, replica, seen, probe>>

\* The context ends while the query waits for a connection or runs, the query
\* fails, or its rows are not one valid description.
InspectionFails ==
    /\ wait.pc = "inspect"
    /\ \/ cancelled /\ wait' = Answer(wait.last, "context")
       \/ idle # {} /\ wait' = Answer(wait.last, "query")
       \/ idle # {} /\ ~Readable(replica) /\ wait' = Answer(wait.last, InspectError(replica))
    /\ UNCHANGED <<sessionVars, replica, seen, probe>>

Inspection ==
    /\ wait.pc = "inspect" /\ ~cancelled /\ idle # {} /\ Readable(replica)
    /\ LET now == Inspected(replica[1])
       IN  /\ seen' = now
           /\ wait' = CASE ~now.configured -> Answer(now, "not configured")
                        [] now.configured /\ now.available -> Answer(now, "none")
                        [] OTHER -> [wait EXCEPT !.pc = "timer", !.last = now]
    /\ UNCHANGED <<sessionVars, replica, probe>>

TimerFires ==
    /\ wait.pc = "timer"
    /\ wait' = [wait EXCEPT !.pc = "inspect"]
    /\ UNCHANGED <<sessionVars, replica, seen, probe>>

DeadlinePasses ==
    /\ wait.pc = "timer" /\ cancelled
    /\ wait' = Answer(wait.last, "context")
    /\ UNCHANGED <<sessionVars, replica, seen, probe>>

---------------------------------------------------------------------------
(* ProbeCapabilities.                                                         *)

StartProbes ==
    /\ probe.pc = "rest" /\ ~cancelled
    /\ probe' = [NoProbe EXCEPT !.pc = "probe", !.state = [i \in DOMAIN Capabilities |-> "unknown"]]
    /\ UNCHANGED <<sessionVars, replica, wait, seen>>

\* Only SHOW VARIABLES can tell that a capability is unsupported.
Outcomes(capability) ==
    {"supported", "unknown"} \cup (IF capability = "settings" THEN {"unsupported"} ELSE {})

ProbeOne ==
    /\ probe.pc = "probe" /\ probe.next <= Len(Capabilities) /\ ~cancelled /\ idle # {}
    /\ \E state \in Outcomes(Capabilities[probe.next]) :
          probe' = [probe EXCEPT !.next = @ + 1, !.state[probe.next] = state,
                                 !.err = @ \/ state = "unknown"]
    /\ UNCHANGED <<sessionVars, replica, wait, seen>>

\* The context ends between two probes; a probe that had started fails first.
StopProbes ==
    /\ probe.pc = "probe"
    /\ \/ probe.next > Len(Capabilities) /\ probe' = [probe EXCEPT !.pc = "answered"]
       \/ probe.next <= Len(Capabilities) /\ cancelled
          /\ probe' = [probe EXCEPT !.pc = "answered", !.err = TRUE]
    /\ UNCHANGED <<sessionVars, replica, wait, seen>>

---------------------------------------------------------------------------

\* TiDB and the operator of the cluster.
ReplicaChanges ==
    /\ replica' \in Replicas \ {replica}
    /\ UNCHANGED <<sessionVars, wait, seen, probe>>

Prepare ==
    \/ InspectionFails \/ Inspection \/ TimerFires \/ DeadlinePasses
    \/ ProbeOne \/ StopProbes

---------------------------------------------------------------------------

\* The answer of the wait is what its last successful inspection saw, also when
\* a later inspection failed or the deadline passed in between; it is a success
\* only for replicas that exist and are available, and a capability whose probe
\* failed or never ran is unknown and makes the call fail.
PreparationAnswersWhatItSaw ==
    /\ wait.pc = "answered" =>
          /\ wait.last = seen
          /\ wait.err = "none" => seen.count > 0 /\ seen.available
          /\ wait.err = "context" => cancelled
    /\ probe.pc = "answered" /\ ~probe.err =>
          \A i \in DOMAIN Capabilities : probe.state[i] # "unknown"
=============================================================================
