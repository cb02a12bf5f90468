--------------------------- MODULE MigrateRunner ---------------------------
(***************************************************************************)
(* Invocations of the runner of package migrate against one database: the  *)
(* operations Apply (up and down), Baseline, Init, Dump, Status and Plan,  *)
(* each from its first file read to the release of the advisory lock, with *)
(* the progress events the command line persists.                          *)
(*                                                                         *)
(* A runner of this module is one invocation; it runs one operation, ends  *)
(* in "done" or "crashed", and leaves its log file behind.  Invocations    *)
(* meet in the database, in the advisory lock and in the file system.      *)
(* External to the code and modelled from how it uses them: the server     *)
(* (sessions, lock, statements whose reply is lost) and the people who     *)
(* edit the SQL directory.                                                 *)
(*                                                                         *)
(* Definitions marked `mutant' are deliberate errors, kept to show that    *)
(* the runs notice them; no specification uses them.                       *)
(***************************************************************************)
EXTENDS MigratePlan

CONSTANTS Runners,        \* the invocations
          NoRunner,       \* the lock is free
          Operations,     \* the operations an invocation may be asked for
          StepCounts,     \* the --steps arguments
          Bodies,         \* the contents a file of each version may have
          InitialFiles,   \* the SQL directory at the start
          InitialSchema,  \* the objects that exist at the start
          ClockSteps,     \* how the server clock may move between two inserts
          InitialVersion, \* the filename Init makes from its clock
          MaxEdits,       \* bound: changes people make to the SQL directory
          Faults          \* the kinds of fault that may occur

ASSUME RunnersAssumption == NoRunner \notin Runners
ASSUME OperationsAssumption ==
    Operations \subseteq {"up", "down", "plan up", "plan down", "baseline", "init",
                          "dump", "status"}
ASSUME StepCountsAssumption == StepCounts \subseteq Nat
ASSUME FilesAssumption ==
    /\ DOMAIN Bodies = Versions /\ \A v \in Versions : Bodies[v] \subseteq Body
    /\ IsDirectory(InitialFiles)
    /\ InitialVersion \in Versions
ASSUME SchemaAssumption == InitialSchema \subseteq Objects
ASSUME BoundsAssumption == MaxEdits \in Nat /\ ClockSteps \subseteq Int /\ 0 \in Times
ASSUME FaultsAssumption ==
    Faults \subseteq {"crash", "loss", "reply", "query", "log", "disk"}

VARIABLES
    \* file system
    files,       \* the SQL directory
    schemaFile,  \* schema.sql: the objects it lists; a set of such sets, {} or a singleton
    edits,       \* changes people made to the directory so far
    \* database
    schema,      \* the application's objects
    managed,     \* the version table exists
    history,     \* the version table: version -> created_at
    clock,       \* created_at of the latest insert
    sess,        \* the server's view of each pinned connection
    lockOwner,   \* the invocation whose session holds the advisory lock
    orphan,      \* operations sent over a connection that broke, not yet resolved
    \* the invocations
    pc,          \* where the invocation is
    job,         \* what it was asked for
    loaded,      \* the files it read
    snap,        \* the latest captured snapshot
    plan,        \* the steps of buildPlan
    cursor,      \* the operation it is at: phase, step and statement
    reply,       \* how the driver answered that operation
    sent,        \* the positions of the SQL events sent so far
    result,      \* Result: registrations, completed versions, SnapshotUpdated
    err,         \* the parts of the joined error
    log          \* the entries of its log file

fsVars  == <<files, schemaFile, edits>>
dbVars  == <<schema, managed, history, clock>>
srvVars == <<sess, lockOwner, orphan>>
jobVars == <<job, loaded>>
runVars == <<jobVars, snap, plan, cursor, reply, sent, result, err, log>>
vars    == <<fsVars, dbVars, srvVars, pc, runVars>>

---------------------------------------------------------------------------
(* Types.                                                                  *)

Active    == {"load", "connect", "lock", "inspect", "emit", "exec", "ack", "flush",
              "capture", "create", "output", "release"}
PCs       == Active \cup {"start", "done", "crashed"}
\* Between the acquisition and the release of the lock.
Working   == {"inspect", "emit", "exec", "ack", "flush", "capture", "create",
              "output", "release"}
Phases    == {"history", "sql", "record"}
States    == {"started", "succeeded", "failed", "unknown", "unexecuted"}
Entry     == [phase : Phases, version : SUBSET Versions, stmt : Nat, state : States]
Failures  == {"load", "connect", "lock", "locked", "inspect", "plan", "check",
              "operation", "log", "snapshot", "create", "release"}
Operation == [phase : {"history", "sql", "insert", "delete"},
              version : SUBSET Versions, stmt : SUBSET Statement]
Replies   == {"none", "succeeded", "failed", "unknown"}
Sessions  == {"none", "open", "broken", "dead"}
Job       == [op : Operations \cup {"none"}, steps : Nat]
Cursor    == [phase : Phases, step : Nat, stmt : Nat]
Outcome   == [stack : Seq(Versions), completed : SUBSET Versions, updated : BOOLEAN]
AreDirectories(l) ==
    l = [r \in Runners |-> l[r]] /\ \A r \in Runners : IsDirectory(l[r])
NoJob     == [op |-> "none", steps |-> 0]
NoCursor  == [phase |-> "history", step |-> 0, stmt |-> 0]
NoResult  == [stack |-> <<>>, completed |-> {}, updated |-> FALSE]

FilesTypeOK ==
    IsDirectory(files) /\ schemaFile \in SUBSET SUBSET Objects /\ edits \in 0 .. MaxEdits

DatabaseTypeOK ==
    schema \in SUBSET Objects /\ managed \in BOOLEAN /\ IsHistory(history) /\ clock \in Times

ServerTypeOK ==
    /\ sess \in [Runners -> Sessions]
    /\ lockOwner \in Runners \cup {NoRunner}
    /\ orphan \in [Runners -> SUBSET Operation]

RunnerTypeOK ==
    /\ pc \in [Runners -> PCs]
    /\ job \in [Runners -> Job]
    /\ AreDirectories(loaded)
    /\ snap \in [Runners -> Snapshot]
    /\ plan \in [Runners -> Seq(Step)]
    /\ cursor \in [Runners -> Cursor]
    /\ reply \in [Runners -> Replies]
    /\ sent \in [Runners -> SUBSET (Nat \X Nat)]
    /\ result \in [Runners -> Outcome]
    /\ err \in [Runners -> SUBSET Failures]
    /\ log \in [Runners -> SUBSET Entry]

TypeOK == FilesTypeOK /\ DatabaseTypeOK /\ ServerTypeOK /\ RunnerTypeOK

---------------------------------------------------------------------------
(* The server: statements, sessions and the advisory lock.                 *)

\* The server executes o without an error.
Accepts(o) ==
    CASE o.phase = "history" -> ~managed
      [] o.phase = "sql"     -> \A s \in o.stmt : ~Rejected(schema, s)
      [] o.phase = "insert"  -> managed /\ o.version \cap DOMAIN history = {}
      [] o.phase = "delete"  -> managed

\* Its effect.  created_at defaults to the server's clock.
Commit(o) ==
    /\ schema' = IF o.phase = "sql" THEN UNION {Executed(schema, s) : s \in o.stmt}
                                    ELSE schema
    /\ managed' = (managed \/ o.phase = "history")
    /\ IF o.phase = "insert"
       THEN \E d \in ClockSteps :
               /\ clock + d \in Times
               /\ clock' = clock + d
               /\ history' = [v \in DOMAIN history \cup o.version |->
                                 IF v \in DOMAIN history THEN history[v] ELSE clock + d]
       ELSE /\ history' = IF o.phase = "delete"
                          THEN Restrict(history, DOMAIN history \ o.version) ELSE history
            /\ UNCHANGED clock

\* A session ends at the server: idle timeout, kill, or a server that restarts.
\* Its advisory lock goes with it; the client learns at its next statement.
SessionDies(r) ==
    /\ "loss" \in Faults
    /\ sess[r] = "open"
    /\ sess' = [sess EXCEPT ![r] = "dead"]
    /\ lockOwner' = IF lockOwner = r THEN NoRunner ELSE lockOwner
    /\ UNCHANGED <<fsVars, dbVars, orphan, pc, runVars>>

\* The server notices that the client of a session is gone.  A record statement
\* still running in that session ends with it; a DDL job does not.
Reap(r) ==
    /\ sess[r] = "broken"
    /\ sess' = [sess EXCEPT ![r] = "dead"]
    /\ lockOwner' = IF lockOwner = r THEN NoRunner ELSE lockOwner
    /\ orphan' = [orphan EXCEPT ![r] = {o \in @ : o.phase \in {"history", "sql"}}]
    /\ UNCHANGED <<fsVars, dbVars, pc, runVars>>

\* An operation whose reply was lost takes effect, or is found to be an error.
Land(r) ==
    \E o \in orphan[r] :
        /\ orphan' = [orphan EXCEPT ![r] = {}]
        /\ IF Accepts(o) THEN Commit(o) ELSE UNCHANGED dbVars
        /\ UNCHANGED <<fsVars, sess, lockOwner, pc, runVars>>

---------------------------------------------------------------------------
(* The people who edit the SQL directory: a new or changed file, or one    *)
(* taken away.                                                             *)

Edit ==
    /\ edits < MaxEdits
    /\ edits' = edits + 1
    /\ \/ \E v \in Versions : \E b \in Bodies[v] :
             files' = [w \in DOMAIN files \cup {v} |-> IF w = v THEN b ELSE files[w]]
       \/ \E v \in DOMAIN files : files' = Restrict(files, DOMAIN files \ {v})
    /\ UNCHANGED <<schemaFile, dbVars, srvVars, pc, runVars>>

---------------------------------------------------------------------------
(* The session: load, pin a connection, take the lock.                     *)

Alive(r)     == sess[r] = "open"
Goto(r, l)   == pc' = [pc EXCEPT ![r] = l]
Add(f, r, e) == [f EXCEPT ![r] = @ \cup {e}]

\* The command line invokes the runner.  Init and Dump read no files before
\* they hold the lock.
Start(r) ==
    /\ pc[r] = "start"
    /\ \E o \in Operations, k \in StepCounts :
          /\ job' = [job EXCEPT ![r] = [op |-> o, steps |-> k]]
          /\ Goto(r, IF o \in {"init", "dump"} THEN "connect" ELSE "load")
    /\ UNCHANGED <<fsVars, dbVars, srvVars, loaded, snap, plan, cursor, reply, sent, result,
                   err, log>>

\* Baseline takes one file without a Down section.
BaselineFiles(fs) == \E v \in DOMAIN fs : DOMAIN fs = {v} /\ ~Reversible(fs[v])

Load(r) ==
    /\ pc[r] = "load"
    /\ loaded' = [loaded EXCEPT ![r] = files]
    /\ \/ /\ job[r].op = "baseline" => BaselineFiles(files)
          /\ Goto(r, "connect")
          /\ UNCHANGED err
       \/ /\ "disk" \in Faults \/ (job[r].op = "baseline" /\ ~BaselineFiles(files))
          /\ Goto(r, "done")
          /\ err' = Add(err, r, "load")
    /\ UNCHANGED <<fsVars, dbVars, srvVars, job, snap, plan, cursor, reply, sent, result, log>>

\* Pin a connection and inspect it.
Connect(r) ==
    /\ pc[r] = "connect"
    /\ \/ /\ sess' = [sess EXCEPT ![r] = "open"]
          /\ Goto(r, "lock")
          /\ UNCHANGED err
       \/ /\ "query" \in Faults
          /\ Goto(r, "done")
          /\ err' = Add(err, r, "connect")
          /\ UNCHANGED sess
    /\ UNCHANGED <<fsVars, dbVars, lockOwner, orphan, jobVars, snap, plan, cursor, reply, sent,
                   result, log>>

AcquireLock(r) ==
    /\ pc[r] = "lock"
    /\ Alive(r)
    /\ lockOwner = NoRunner
    /\ lockOwner' = r
    /\ Goto(r, "inspect")
    /\ UNCHANGED <<fsVars, dbVars, sess, orphan, runVars>>

\* mutant: the answer of GET_LOCK is not looked at.
LockAssumed(r) ==
    /\ pc[r] = "lock" /\ Alive(r)
    /\ lockOwner \notin {NoRunner, r}
    /\ Goto(r, "inspect")
    /\ UNCHANGED <<fsVars, dbVars, srvVars, runVars>>

\* GET_LOCK waited for LockTimeout and returned 0.
LockTimesOut(r) ==
    /\ pc[r] = "lock"
    /\ Alive(r)
    /\ lockOwner \notin {NoRunner, r}
    /\ sess' = [sess EXCEPT ![r] = "none"]
    /\ err' = Add(err, r, "locked")
    /\ Goto(r, "done")
    /\ UNCHANGED <<fsVars, dbVars, lockOwner, orphan, jobVars, snap, plan, cursor, reply, sent,
                   result, log>>

\* mutant: after a failed GET_LOCK the connection goes back to the pool.
LockLeaked(r) ==
    /\ pc[r] = "lock" /\ "reply" \in Faults /\ Alive(r)
    /\ sess' = [sess EXCEPT ![r] = "none"]
    /\ lockOwner' \in {lockOwner, IF lockOwner = NoRunner THEN r ELSE lockOwner}
    /\ err' = Add(err, r, "lock")
    /\ Goto(r, "done")
    /\ UNCHANGED <<fsVars, dbVars, orphan, jobVars, snap, plan, cursor, reply, sent, result, log>>

\* GET_LOCK failed: the connection is discarded, whether the server granted the
\* lock or not.
LockFails(r) ==
    /\ pc[r] = "lock"
    /\ \/ /\ ~Alive(r)
          /\ UNCHANGED <<sess, lockOwner>>
       \/ /\ "reply" \in Faults
          /\ Alive(r)
          /\ sess' = [sess EXCEPT ![r] = "broken"]
          /\ lockOwner' \in {lockOwner, IF lockOwner = NoRunner THEN r ELSE lockOwner}
    /\ err' = Add(err, r, "lock")
    /\ Goto(r, "done")
    /\ UNCHANGED <<fsVars, dbVars, orphan, jobVars, snap, plan, cursor, reply, sent, result, log>>

---------------------------------------------------------------------------
(* Under the lock: read the schema and the version table, then whatever    *)
(* the operation decides before it changes anything.                       *)

Direction(r) == IF job[r].op \in {"up", "plan up"} THEN "up" ELSE "down"
Current    == [objs |-> schema, managed |-> managed]
At(p, i, k) == [phase |-> p, step |-> i, stmt |-> k]

\* The first operation that changes the database.
FirstPhase(r) == IF managed
                 THEN IF job[r].op = "baseline" THEN "record" ELSE "sql"
                 ELSE "history"

\* The snapshot that Baseline compares is the one file's Up.
Matches(body, objs) ==
    /\ \A i \in DOMAIN body.up : body.up[i].op = "create" /\ ~body.up[i].guarded
    /\ {body.up[i].obj : i \in DOMAIN body.up} = objs
    /\ \A i, j \in DOMAIN body.up : body.up[i].obj = body.up[j].obj => i = j

\* A query of inspect or capture fails, or the version table cannot be read.
InspectFails(r) ==
    /\ pc[r] = "inspect"
    /\ ~Alive(r) \/ "query" \in Faults
    /\ err' = Add(err, r, "inspect")
    /\ Goto(r, "release")
    /\ UNCHANGED <<fsVars, dbVars, srvVars, jobVars, snap, plan, cursor, reply, sent, result, log>>

\* Apply: buildPlan, then checkOutput, then the first operation.  Plan stops
\* after buildPlan.
InspectApply(r) ==
    /\ pc[r] = "inspect" /\ Alive(r)
    /\ job[r].op \in {"up", "down", "plan up", "plan down"}
    /\ snap' = [snap EXCEPT ![r] = Current]
    /\ \E applied \in RegistrationOrder(history),
          versions \in Candidates(Direction(r), loaded[r], history) :
          /\ result' = [result EXCEPT ![r].stack = applied]
          /\ IF PlanFails(Direction(r), job[r].steps, loaded[r], Current, versions)
             THEN /\ err' = Add(err, r, "plan")
                  /\ Goto(r, "release")
                  /\ UNCHANGED <<plan, cursor>>
             ELSE /\ plan' = [plan EXCEPT ![r] =
                         PlanSteps(Direction(r), job[r].steps, loaded[r], versions)]
                  /\ cursor' = [cursor EXCEPT ![r] = At(FirstPhase(r), 1, 1)]
                  /\ \/ /\ Goto(r, IF job[r].op \notin {"up", "down"} THEN "release"
                                  ELSE IF plan'[r] = <<>> THEN "output" ELSE "emit")
                        /\ UNCHANGED err
                     \/ /\ "disk" \in Faults /\ job[r].op \in {"up", "down"}
                        /\ err' = Add(err, r, "check")
                        /\ Goto(r, "flush")
    /\ UNCHANGED <<fsVars, dbVars, srvVars, jobVars, reply, sent, log>>

\* Baseline: no applied record, some tables, and the reviewed file matches.
InspectBaseline(r) ==
    /\ pc[r] = "inspect" /\ Alive(r)
    /\ job[r].op = "baseline"
    /\ snap' = [snap EXCEPT ![r] = Current]
    /\ \E v \in DOMAIN loaded[r] :
          IF DOMAIN history = {} /\ schema # {} /\ Matches(loaded[r][v], schema)
          THEN /\ plan' = [plan EXCEPT ![r] = <<[version |-> v, statements |-> <<>>]>>]
               /\ cursor' = [cursor EXCEPT ![r] = At(FirstPhase(r), 1, 1)]
               /\ \/ Goto(r, "emit") /\ UNCHANGED err
                  \/ "disk" \in Faults /\ err' = Add(err, r, "check") /\ Goto(r, "release")
          ELSE /\ err' = Add(err, r, "plan")
               /\ Goto(r, "release")
               /\ UNCHANGED <<plan, cursor>>
    /\ UNCHANGED <<fsVars, dbVars, srvVars, jobVars, reply, sent, result, log>>

\* mutant: the directory is checked, the version table is not.
InitUnchecked(r) ==
    /\ pc[r] = "inspect" /\ Alive(r)
    /\ job[r].op = "init" /\ DOMAIN files = {} /\ schema # {}
    /\ snap' = [snap EXCEPT ![r] = Current]
    /\ Goto(r, "create")
    /\ UNCHANGED <<fsVars, dbVars, srvVars, jobVars, plan, cursor, reply, sent, result, err, log>>

\* Init: only here are the files read under the lock.
InspectInit(r) ==
    /\ pc[r] = "inspect" /\ Alive(r)
    /\ job[r].op = "init"
    /\ loaded' = [loaded EXCEPT ![r] = files]
    /\ snap' = [snap EXCEPT ![r] = Current]
    /\ \/ /\ DOMAIN files = {} /\ ~managed /\ schema # {}
          /\ Goto(r, "create")
          /\ UNCHANGED err
       \/ /\ DOMAIN files # {} \/ managed \/ schema = {} \/ "disk" \in Faults
          /\ err' = Add(err, r, "plan")
          /\ Goto(r, "release")
    /\ UNCHANGED <<fsVars, dbVars, srvVars, job, plan, cursor, reply, sent, result, log>>

\* Dump and Status change no table.
InspectRead(r) ==
    /\ pc[r] = "inspect" /\ Alive(r)
    /\ job[r].op \in {"dump", "status"}
    /\ snap' = [snap EXCEPT ![r] = Current]
    /\ \E applied \in RegistrationOrder(history) :
          result' = [result EXCEPT ![r].stack = applied]
    /\ Goto(r, IF job[r].op = "dump" THEN "output" ELSE "release")
    /\ UNCHANGED <<fsVars, dbVars, srvVars, jobVars, plan, cursor, reply, sent, err, log>>

\* createInitialMigration: an empty directory, checked again, and a new file of
\* the captured schema without Down.
CreateInitial(r) ==
    /\ pc[r] = "create"
    /\ \/ /\ DOMAIN files = {}
          /\ \E s \in Bijection(1 .. Cardinality(snap[r].objs), snap[r].objs) :
                files' = [w \in {InitialVersion} |->
                    [up |-> [i \in DOMAIN s |->
                               [op |-> "create", obj |-> s[i], guarded |-> FALSE]],
                     down |-> <<>>]]
          /\ Goto(r, "output")
          /\ UNCHANGED err
       \/ /\ DOMAIN files # {} \/ "disk" \in Faults
          /\ err' = Add(err, r, "create")
          /\ Goto(r, "release")
          /\ UNCHANGED files
    /\ UNCHANGED <<schemaFile, edits, dbVars, srvVars, jobVars, snap, plan, cursor, reply, sent,
                   result, log>>

---------------------------------------------------------------------------
(* One operation against the database: a started event, the statement, and *)
(* an event for its outcome.  An error of any of the three stops the run.  *)

Version(r)    == plan[r][cursor[r].step].version
Statements(r) == plan[r][cursor[r].step].statements
Position(r)   == <<cursor[r].step, cursor[r].stmt>>

Sent(r) ==
    CASE cursor[r].phase = "history" ->
            [phase |-> "history", version |-> {}, stmt |-> {}]
      [] cursor[r].phase = "sql" ->
            [phase |-> "sql", version |-> {Version(r)}, stmt |-> {Statements(r)[cursor[r].stmt]}]
      [] cursor[r].phase = "record" ->
            [phase |-> IF job[r].op = "down" THEN "delete" ELSE "insert",
             version |-> {Version(r)}, stmt |-> {}]

\* mutant: numbered from zero.
ZeroBasedEvent(r, state) ==
    [phase   |-> cursor[r].phase,
     version |-> IF cursor[r].phase = "history" THEN {} ELSE {Version(r)},
     stmt    |-> (IF cursor[r].phase = "sql" THEN cursor[r].stmt ELSE 0) - 1,
     state   |-> state]

Event(r, state) ==
    [phase   |-> cursor[r].phase,
     version |-> IF cursor[r].phase = "history" THEN {} ELSE {Version(r)},
     stmt    |-> IF cursor[r].phase = "sql" THEN cursor[r].stmt ELSE 0,
     state   |-> state]

\* Where a failed operation leads: Apply reports the unexecuted SQL first.
Abort(r) == Goto(r, IF job[r].op \in {"up", "down"} THEN "flush" ELSE "release")

\* mutant: the statement is sent without its started event.
SendUnlogged(r) ==
    /\ pc[r] = "emit"
    /\ Goto(r, "exec")
    /\ UNCHANGED <<fsVars, dbVars, srvVars, runVars>>

\* The start is written and synced before anything is sent.
EmitStarted(r) ==
    /\ pc[r] = "emit"
    /\ \/ /\ log' = Add(log, r, Event(r, "started"))
          /\ Goto(r, "exec")
          /\ UNCHANGED err
       \/ /\ "log" \in Faults
          /\ log' \in {log, Add(log, r, Event(r, "started"))}
          /\ err' = Add(err, r, "log")
          /\ Abort(r)
    /\ UNCHANGED <<fsVars, dbVars, srvVars, jobVars, snap, plan, cursor, reply, sent, result>>

\* mutant: the statement is not counted.
Uncounted(r) == UNCHANGED sent

\* sent++ comes before the statement.
MarkSent(r) ==
    sent' = IF cursor[r].phase = "sql" THEN Add(sent, r, Position(r)) ELSE sent

\* mutant: Down drops the first registration from the stack.
ConfirmFromFront(r) ==
    result' =
        IF cursor[r].phase # "record" THEN result
        ELSE [result EXCEPT
                ![r].completed = @ \cup {Version(r)},
                ![r].stack = IF job[r].op = "down" THEN Tail(@) ELSE Append(@, Version(r))]

\* What a confirmed record does to Result.
Confirm(r) ==
    result' =
        IF cursor[r].phase # "record" THEN result
        ELSE [result EXCEPT
                ![r].completed = @ \cup {Version(r)},
                ![r].stack = IF job[r].op = "down" THEN SubSeq(@, 1, Len(@) - 1)
                                                   ELSE Append(@, Version(r))]

\* The server executes the operation and the reply arrives.  A DELETE that
\* finds no row is an error of the runner, not of the server.
ExecSucceeds(r) ==
    /\ pc[r] = "exec" /\ Alive(r)
    /\ Accepts(Sent(r))
    /\ Commit(Sent(r))
    /\ MarkSent(r)
    /\ IF Sent(r).phase = "delete" /\ Version(r) \notin DOMAIN history
       THEN reply' = [reply EXCEPT ![r] = "unknown"] /\ UNCHANGED result
       ELSE reply' = [reply EXCEPT ![r] = "succeeded"] /\ Confirm(r)
    /\ Goto(r, "ack")
    /\ UNCHANGED <<fsVars, srvVars, jobVars, snap, plan, cursor, err, log>>

\* The server answers with an error, for a reason of the statement or its own.
ExecFails(r) ==
    /\ pc[r] = "exec" /\ Alive(r)
    /\ ~Accepts(Sent(r)) \/ "query" \in Faults
    /\ MarkSent(r)
    /\ reply' = [reply EXCEPT ![r] = "failed"]
    /\ Goto(r, "ack")
    /\ UNCHANGED <<fsVars, dbVars, srvVars, jobVars, snap, plan, cursor, result, err, log>>

\* No answer: the connection is gone, or breaks with the operation on its way.
ExecLost(r) ==
    /\ pc[r] = "exec"
    /\ \/ /\ ~Alive(r)
          /\ UNCHANGED <<sess, orphan>>
       \/ /\ "reply" \in Faults
          /\ Alive(r)
          /\ sess' = [sess EXCEPT ![r] = "broken"]
          /\ orphan' \in {orphan, Add(orphan, r, Sent(r))}
    /\ MarkSent(r)
    /\ reply' = [reply EXCEPT ![r] = "unknown"]
    /\ Goto(r, "ack")
    /\ UNCHANGED <<fsVars, dbVars, lockOwner, jobVars, snap, plan, cursor, result, err, log>>

\* mutant: the loop over the statements ends one short.
AfterSQLShort(r) ==
    IF cursor[r].stmt < Len(Statements(r)) - 1
    THEN At("sql", cursor[r].step, cursor[r].stmt + 1)
    ELSE At("record", cursor[r].step, 1)

\* The next statement of the file, or its record.
AfterSQL(r) ==
    IF cursor[r].stmt < Len(Statements(r))
    THEN At("sql", cursor[r].step, cursor[r].stmt + 1)
    ELSE At("record", cursor[r].step, 1)

\* The operation after a successful one.
Advance(r) ==
    \/ /\ cursor[r].phase = "history"
       /\ cursor' = [cursor EXCEPT ![r].phase =
                        IF job[r].op = "baseline" THEN "record" ELSE "sql"]
       /\ Goto(r, "emit")
    \/ /\ cursor[r].phase = "sql"
       /\ cursor' = [cursor EXCEPT ![r] = AfterSQL(r)]
       /\ Goto(r, "emit")
    \/ /\ cursor[r].phase = "record"
       /\ Goto(r, IF job[r].op = "baseline" THEN "output" ELSE "capture")
       /\ UNCHANGED cursor

EmitOutcome(r) ==
    /\ pc[r] = "ack"
    /\ reply' = [reply EXCEPT ![r] = "none"]
    /\ \E written \in {TRUE} \cup (IF "log" \in Faults THEN {FALSE} ELSE {}) :
          LET failed == (IF reply[r] = "succeeded" THEN {} ELSE {"operation"})
                        \cup (IF written THEN {} ELSE {"log"}) IN
          /\ log' \in {Add(log, r, Event(r, reply[r]))} \cup (IF written THEN {} ELSE {log})
          /\ err' = [err EXCEPT ![r] = @ \cup failed]
          /\ IF failed = {} THEN Advance(r) ELSE Abort(r) /\ UNCHANGED cursor
    /\ UNCHANGED <<fsVars, dbVars, srvVars, jobVars, snap, plan, sent, result>>

\* After an error of Apply: an event for every SQL statement not sent.  Each
\* may fail to be written without keeping the next from being tried.
Unsent(r) ==
    {e \in UNION {{i} \X (1 .. Len(plan[r][i].statements)) : i \in DOMAIN plan[r]} :
        e \notin sent[r]}

Unexecuted(r, e) ==
    [phase |-> "sql", version |-> {plan[r][e[1]].version}, stmt |-> e[2],
     state |-> "unexecuted"]

Flush(r) ==
    /\ pc[r] = "flush"
    /\ \E lost \in SUBSET Unsent(r) :
          /\ lost # {} => "log" \in Faults
          /\ log' = [log EXCEPT ![r] = @ \cup {Unexecuted(r, e) : e \in Unsent(r) \ lost}]
          /\ err' = [err EXCEPT ![r] = @ \cup (IF lost = {} THEN {} ELSE {"log"})]
    /\ Goto(r, "release")
    /\ UNCHANGED <<fsVars, dbVars, srvVars, jobVars, snap, plan, cursor, reply, sent, result>>

---------------------------------------------------------------------------
(* The snapshot file, the end of the session, and crashes.                 *)

\* A snapshot failure after a record is ErrSnapshot.
Capture(r) ==
    /\ pc[r] = "capture"
    /\ \/ /\ Alive(r)
          /\ snap' = [snap EXCEPT ![r] = Current]
          /\ Goto(r, "output")
          /\ UNCHANGED err
       \/ /\ ~Alive(r) \/ "query" \in Faults
          /\ err' = Add(err, r, "snapshot")
          /\ Goto(r, "flush")
          /\ UNCHANGED snap
    /\ UNCHANGED <<fsVars, dbVars, srvVars, jobVars, plan, cursor, reply, sent, result, log>>

\* writeSnapshot replaces the file by a rename.  Apply then takes its next file,
\* and says again that the snapshot is not up to date.
Output(r) ==
    /\ pc[r] = "output"
    /\ \/ /\ schemaFile' = {snap[r].objs}
          /\ IF job[r].op \in {"up", "down"} /\ cursor[r].step < Len(plan[r])
             THEN /\ result' = [result EXCEPT ![r].updated = FALSE]
                  /\ cursor' = [cursor EXCEPT ![r] = At("sql", cursor[r].step + 1, 1)]
                  /\ Goto(r, "emit")
             ELSE /\ result' = [result EXCEPT ![r].updated = TRUE]
                  /\ Goto(r, "release")
                  /\ UNCHANGED cursor
          /\ UNCHANGED err
       \/ /\ "disk" \in Faults
          /\ err' = Add(err, r, "snapshot")
          /\ Abort(r)
          /\ UNCHANGED <<schemaFile, cursor, result>>
    /\ UNCHANGED <<files, edits, dbVars, srvVars, jobVars, snap, plan, reply, sent, log>>

\* mutant: the answer of RELEASE_LOCK is not looked at.
ReleaseUnchecked(r) ==
    /\ pc[r] = "release"
    /\ Goto(r, "done")
    /\ lockOwner' = IF lockOwner = r THEN NoRunner ELSE lockOwner
    /\ sess' = [sess EXCEPT ![r] = IF Alive(r) THEN "none" ELSE @]
    /\ UNCHANGED <<fsVars, dbVars, orphan, runVars>>

\* The deferred RELEASE_LOCK.  Without its confirmation the connection is
\* discarded and the operation is an error.
Release(r) ==
    /\ pc[r] = "release"
    /\ Goto(r, "done")
    /\ \/ /\ Alive(r) /\ lockOwner = r
          /\ lockOwner' = NoRunner
          /\ sess' = [sess EXCEPT ![r] = "none"]
          /\ UNCHANGED err
       \/ /\ Alive(r)
          /\ "reply" \in Faults \/ lockOwner # r
          /\ lockOwner' \in {lockOwner, IF lockOwner = r THEN NoRunner ELSE lockOwner}
          /\ sess' = [sess EXCEPT ![r] = "broken"]
          /\ err' = Add(err, r, "release")
       \/ /\ ~Alive(r)
          /\ err' = Add(err, r, "release")
          /\ UNCHANGED <<sess, lockOwner>>
    /\ UNCHANGED <<fsVars, dbVars, orphan, jobVars, snap, plan, cursor, reply, sent, result, log>>

\* The process dies; an operation on its way may still arrive.
Crash(r) ==
    /\ "crash" \in Faults
    /\ pc[r] \in Active
    /\ Goto(r, "crashed")
    /\ sess' = [sess EXCEPT ![r] = IF @ = "open" THEN "broken" ELSE @]
    /\ orphan' \in {orphan} \cup (IF pc[r] = "exec" /\ Alive(r)
                                  THEN {Add(orphan, r, Sent(r))} ELSE {})
    /\ UNCHANGED <<fsVars, dbVars, lockOwner, runVars>>

---------------------------------------------------------------------------
(* The specification.                                                      *)

Init ==
    /\ files = InitialFiles /\ schemaFile = {} /\ edits = 0
    /\ schema = InitialSchema /\ managed = FALSE /\ history = <<>> /\ clock = 0
    /\ sess = [r \in Runners |-> "none"]
    /\ lockOwner = NoRunner
    /\ orphan = [r \in Runners |-> {}]
    /\ pc = [r \in Runners |-> "start"]
    /\ job = [r \in Runners |-> NoJob]
    /\ loaded = [r \in Runners |-> <<>>]
    /\ snap = [r \in Runners |-> [objs |-> {}, managed |-> FALSE]]
    /\ plan = [r \in Runners |-> <<>>]
    /\ cursor = [r \in Runners |-> NoCursor]
    /\ reply = [r \in Runners |-> "none"]
    /\ sent = [r \in Runners |-> {}]
    /\ result = [r \in Runners |-> NoResult]
    /\ err = [r \in Runners |-> {}]
    /\ log = [r \in Runners |-> {}]

\* The steps the invocation's own process takes until it ends.
Proceed(r) ==
    \/ Load(r) \/ Connect(r)
    \/ AcquireLock(r) \/ LockTimesOut(r) \/ LockFails(r)
    \/ InspectFails(r) \/ InspectApply(r) \/ InspectBaseline(r) \/ InspectInit(r)
    \/ InspectRead(r) \/ CreateInitial(r)
    \/ EmitStarted(r) \/ ExecSucceeds(r) \/ ExecFails(r) \/ ExecLost(r)
    \/ EmitOutcome(r) \/ Flush(r)
    \/ Capture(r) \/ Output(r) \/ Release(r)

Next ==
    \/ \E r \in Runners :
          \/ Start(r) \/ Proceed(r) \/ Crash(r)
          \/ SessionDies(r) \/ Reap(r) \/ Land(r)
    \/ Edit

Spec == Init /\ [][Next]_vars

\* A process keeps running (every call of the session has a deadline), and the
\* server notices in the end that a client is gone.
Fairness == \A r \in Runners : WF_vars(Proceed(r)) /\ WF_vars(Reap(r))

FairSpec == Spec /\ Fairness

---------------------------------------------------------------------------
(* Properties.                                                             *)

\* While an invocation works on a session that is still alive, it owns the lock:
\* no path of session() reaches the work without GET_LOCK = 1, and no path keeps
\* working on a session whose lock another invocation could have taken.
LockHeldByWorker == \A r \in Runners : pc[r] \in Working /\ Alive(r) => lockOwner = r

\* Hence two cooperating invocations never work on live sessions at once
\* ("serializes operations with a database-scoped advisory lock").
OneWorker ==
    \A r, q \in Runners :
        pc[r] \in Working /\ Alive(r) /\ pc[q] \in Working /\ Alive(q) => r = q

\* A record is written only when the log shows that every statement of the file
\* was acknowledged: the loop of Apply has no path to the record around an error.
RecordAfterSQL ==
    \A r \in Runners :
        /\ pc[r] \in {"emit", "exec"}
        /\ cursor[r].phase = "record"
        /\ job[r].op \in {"up", "down"}
        => \A k \in 1 .. Len(Statements(r)) :
              [phase |-> "sql", version |-> {Version(r)}, stmt |-> k, state |-> "succeeded"]
                  \in log[r]

\* A version on which some log shows SQL started without showing its record done.
Unsettled(v) ==
    \E r \in Runners :
        /\ \E e \in log[r] : e.phase = "sql" /\ e.version = {v} /\ e.state = "started"
        /\ [phase |-> "record", version |-> {v}, stmt |-> 0, state |-> "succeeded"]
              \notin log[r]

ObjectsOf(v) == UNION {{b.up[i].obj : i \in DOMAIN b.up} : b \in Bodies[v]}

\* DDL and record writes are not atomic, but the logs alone name every version
\* whose record and objects may disagree, across crashes, lost replies, sessions
\* that die and DDL that lands late: what no log leaves open is exactly recorded.
LogsNameEveryDivergence ==
    \A v \in Versions :
        ~Unsettled(v) =>
            IF v \in DOMAIN history THEN ObjectsOf(v) \subseteq schema
                                    ELSE ObjectsOf(v) \cap schema \subseteq InitialSchema

\* The log of a finished up or down gives each planned statement exactly one
\* fate (succeeded, failed, unknown or unexecuted), unless the log itself failed.
LogAccountsForPlan ==
    \A r \in Runners :
        /\ pc[r] = "done"
        /\ job[r].op \in {"up", "down"}
        /\ "log" \notin err[r]
        => \A i \in DOMAIN plan[r] : \A k \in DOMAIN plan[r][i].statements :
              Cardinality({e \in log[r] : /\ e.phase = "sql"
                                          /\ e.version = {plan[r][i].version}
                                          /\ e.stmt = k
                                          /\ e.state # "started"}) = 1

\* Result.Version "reflects recorded state": while the invocation holds the lock
\* on a live session, it names the latest registration of the version table,
\* although it was computed from the first read and the steps since.  The server
\* clock must move forward between registrations.
ResultIsRecordedState ==
    \A r \in Runners :
        /\ pc[r] \in Working \ {"inspect"}
        /\ Alive(r)
        /\ job[r].op \notin {"init", "baseline"}
        /\ "inspect" \notin err[r]
        => \A s \in RegistrationOrder(history) : Latest(result[r].stack) = Latest(s)

\* Down reverses registration order: a record that goes was the latest one, in
\* every interleaving of invocations and whatever file names came later.
DownReversesRegistration ==
    [][\A v \in DOMAIN history \ DOMAIN history' :
          \A w \in DOMAIN history : history[w] <= history[v]]_vars

\* The DELETE of v takes effect: it is the one of an invocation of Down that read a
\* Down section for v and whose log has an acknowledgement of each of its statements.
Reverts(r, v) ==
    /\ (pc[r] = "exec" /\ pc'[r] = "ack") \/ orphan'[r] # orphan[r]
    /\ job[r].op = "down" /\ v \in DOMAIN loaded[r] /\ Reversible(loaded[r][v])
    /\ \A k \in 1 .. Len(loaded[r][v].down) :
          [phase |-> "sql", version |-> {v}, stmt |-> k, state |-> "succeeded"] \in log[r]

\* Init writes its file on a live session.  DDL of an invocation that crashed or lost
\* its reply lands without the lock.
Initialises(r) ==
    /\ pc[r] = "create" /\ pc'[r] = "output" /\ Alive(r)
    /\ Faults \cap {"crash", "reply"} = {}

\* Adopting a database survives the other invocations and the people who edit the
\* directory.  When Init writes the initial file, what it checked under the lock still
\* holds and Baseline would accept the file.  That file has no Down section, and
\* "its absent Down section stops down before touching its record": what is reverted
\* is reverted by a Down that read how and ran it, whatever others have loaded.
AdoptionHolds ==
    [][/\ \A v \in DOMAIN history \ DOMAIN history' : \E r \in Runners : Reverts(r, v)
       /\ \A r \in Runners : Initialises(r) =>
             ~managed /\ Matches(files'[InitialVersion], schema)]_vars

\* Once everything is quiet after some success, schema.sql shows the database,
\* or an invocation crashed or returned an error that tells the operator.
\* A late writer whose session was lost is the case that could break it.
Quiet == \A r \in Runners : pc[r] \in {"start", "done", "crashed"} /\ orphan[r] = {}

StaleSnapshotIsReported ==
    /\ Quiet
    /\ \E r \in Runners : pc[r] = "done" /\ err[r] = {} /\ result[r].updated
    /\ schemaFile # {schema}
    => \E r \in Runners :
          pc[r] = "crashed" \/ err[r] \cap {"operation", "log", "snapshot", "release"} # {}

\* Every invocation ends and leaves the advisory lock to others, whichever
\* statement, reply or release failed in it and whether or not it was killed.
Termination ==
    \A r \in Runners : pc[r] \in Active ~> (pc[r] \in {"done", "crashed"} /\ lockOwner # r)

\* migrate/plan.go:14: "Apply reloads files and records under the lock."  What
\* Apply holds when it takes the lock would be what the directory holds then.
AppliesFilesUnderLock ==
    [][\A r \in Runners :
          pc[r] = "lock" /\ pc'[r] = "inspect" /\ job[r].op \in {"up", "down"}
              => loaded[r] = files]_vars

=============================================================================
