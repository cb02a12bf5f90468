---------------------------- MODULE Measurements ----------------------------
(***************************************************************************)
(* The parts of the library that measure and prepare, each in its own task:   *)
(* the migration session, the wait for TiFlash replicas, the capability        *)
(* probes, the comparison of an aggregate's variants with the export of its    *)
(* samples, and the analysis of captures.  Calls that use the database share a  *)
(* pool with the other goroutines of the application.                          *)
(***************************************************************************)
EXTENDS Comparisons

CONSTANT Tasks  \* what a behaviour is about

VARIABLE task

measureVars == <<task, sessionVars, readyVars, compareVars, captureVars>>

Online == {"session", "wait", "probe", "compare"}

\* A task starts with everything that does not concern it at one value.
MeasureInit ==
    /\ task \in Tasks
    /\ SessionsInit /\ ReadyInit /\ CompareInit /\ CapturesInit
    /\ task \notin Online => idle = Connections
    /\ task # "session" => lock = Nobody /\ home = [c \in Connections |-> Utc]
    /\ task # "wait" => replica = CHOOSE rows \in Replicas : TRUE
    /\ task # "offline" => baseline = NoBaseline

---------------------------------------------------------------------------

SessionStep == RunSession /\ UNCHANGED <<readyVars, compareVars>>
PrepareStep == Prepare /\ UNCHANGED compareVars

\* A call of the library takes its next step.
CallStep ==
    /\ \/ task = "session" /\ SessionStep
       \/ task \in {"wait", "probe"} /\ PrepareStep
       \/ task = "compare" /\ CompareStep
    /\ UNCHANGED <<task, captureVars>>

\* The application starts a call.
CallStarts ==
    /\ \/ task = "session" /\ (\E c \in Connections : Connect(c)) /\ UNCHANGED <<readyVars, compareVars>>
       \/ task = "wait" /\ (RefuseWait \/ StartWait) /\ UNCHANGED compareVars
       \/ task = "probe" /\ StartProbes /\ UNCHANGED compareVars
       \/ task = "compare" /\ (RefuseCompare \/ \E kind \in Executors : StartCompare(kind))
    /\ UNCHANGED <<task, captureVars>>

Running ==
    \/ run.pc # "rest" \/ wait.pc \in {"inspect", "timer"} \/ probe.pc = "probe"
    \/ compare.pc \notin {"rest", "returned"}

\* The context of the call ends: its deadline, or the caller's cancellation.
ContextEnds ==
    /\ task \in Online /\ Running /\ ~cancelled
    /\ cancelled' = TRUE
    /\ UNCHANGED <<task, idle, others, home, zone, lock, run, readyVars, compareVars, captureVars>>

\* Other goroutines of the application.
PoolTaken ==
    /\ task \in Online
    /\ \E c \in Connections : OthersUse(c)
    /\ UNCHANGED <<task, captureVars>>

PoolReturned ==
    /\ \E c \in Connections : OthersReturn(c)
    /\ UNCHANGED <<task, readyVars, compareVars, captureVars>>

\* Other sessions, other writers, and TiDB.
ServerChanges ==
    /\ \/ task = "session" /\ LockElsewhere /\ UNCHANGED <<readyVars, compareVars>>
       \/ task = "wait" /\ ReplicaChanges /\ UNCHANGED compareVars
       \/ task = "compare" /\ DataChanges
    /\ UNCHANGED <<task, captureVars>>

---------------------------------------------------------------------------

\* A behaviour ends with the answer of an analysis, and has one baseline.
Offline ==
    /\ report.of # "analyze"
    /\ \/ /\ task = "offline"
          /\ \/ \E scope \in Scopes, kind \in Kinds \cup LaterKinds : Capture(scope, kind)
             \/ NewCapture
       \/ \E workload \in Workloads :
             ~later /\ log # <<>> /\ (MakeBaseline(workload) \/ WriteBaselineFails(workload))
       \/ \E request \in Requests : log # <<>> /\ Analyze(request)
    /\ UNCHANGED <<task, sessionVars, readyVars, compareVars>>

Export == task = "compare" /\ (\E v \in Variants : WriteCapture(v)) /\ UNCHANGED task

MeasureNext ==
    \/ CallStarts \/ CallStep \/ ContextEnds
    \/ PoolTaken \/ PoolReturned \/ ServerChanges
    \/ Offline \/ Export

MeasureSpec == MeasureInit /\ [][MeasureNext]_measureVars
=============================================================================
