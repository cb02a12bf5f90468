------------------------ MODULE MigrateRefinesLedger ------------------------
(***************************************************************************)
(* Any number of invocations, with crashes, lost connections and late      *)
(* statements, do to the database what one sequence of attempts does.      *)
(***************************************************************************)
EXTENDS MigrateRunner

\* A record operation on its way in a session that still holds the lock.
RecordInFlight(r) == \E o \in orphan[r] : o.phase \in {"insert", "delete"}

\* The statements an invocation has still to see executed.
ToDo(r) ==
    IF cursor[r].phase = "record" THEN <<>>
    ELSE SubSeq(Statements(r),
                IF reply[r] = "succeeded" THEN cursor[r].stmt + 1 ELSE cursor[r].stmt,
                Len(Statements(r)))

\* The lock owner is in the middle of a file: before its record is done and
\* before an error ends the attempt.
InAttempt(r) ==
    /\ job[r].op \in {"up", "down"}
    /\ cursor[r].phase \in {"sql", "record"}
    /\ \/ pc[r] \in {"emit", "exec"}
       \/ pc[r] = "ack" /\ reply[r] = "succeeded" /\ cursor[r].phase = "sql"
       \/ RecordInFlight(r)

Attempt ==
    {[version |-> Version(r), direction |-> job[r].op, todo |-> ToDo(r)] :
        r \in {q \in Runners : lockOwner = q /\ InAttempt(q)}}

Stray == UNION {UNION {o.stmt : o \in orphan[r]} : r \in Runners}

\* What a file can contain: what people write, what was there at the start, and
\* what Init makes of a schema.
InitialBodies ==
    {[up |-> [i \in DOMAIN s |-> [op |-> "create", obj |-> s[i], guarded |-> FALSE]],
      down |-> <<>>] :
        s \in UNION {Bijection(1 .. Cardinality(S), S) : S \in SUBSET Objects}}

Contents ==
    [v \in Versions |->
        Bodies[v] \cup (IF v \in DOMAIN InitialFiles THEN {InitialFiles[v]} ELSE {})
                  \cup (IF v = InitialVersion THEN InitialBodies ELSE {})]

Ledger == INSTANCE MigrationLedger
             WITH attempt <- Attempt, stray <- Stray, Bodies <- Contents

\* The invocations implement the ledger: no interleaving, crash or lost reply
\* records a version whose statements did not run, runs two files at once, skips
\* a statement, or reverts anything but the latest registration.
ImplementsLedger == Ledger!LedgerSpec

=============================================================================
