---------------------------- MODULE MigratePlan ----------------------------
(***************************************************************************)
(* The pure part of package migrate: the SQL directory, the version table, *)
(* the effect of one statement on the database, and the selection that     *)
(* buildPlan makes from them.  The modules of the runner are built on it.  *)
(*                                                                         *)
(* A version stands for a filename; the integers carry the filename order. *)
(* A file is a pair of statement lists (Load rejects an empty section);    *)
(* an empty `down' is a file without a Down section.  A statement creates  *)
(* or drops one object (a table, a column, an index), with or without an   *)
(* existence guard.                                                        *)
(*                                                                         *)
(* Definitions marked `mutant' are deliberate errors; no specification     *)
(* uses them.                                                              *)
(***************************************************************************)
EXTENDS Integers, Sequences, FiniteSets, Functions

CONSTANTS Versions,     \* the filenames that may appear in the directory
          Objects,      \* the database objects that SQL creates and drops
          Times         \* the values of the database clock

ASSUME VersionsAssumption == Versions \subseteq Int /\ IsFiniteSet(Versions)
ASSUME ObjectsAssumption == IsFiniteSet(Objects)
ASSUME TimesAssumption == Times \subseteq Int

---------------------------------------------------------------------------
(* The data.                                                               *)

Statement == [op : {"create", "drop"}, obj : Objects, guarded : BOOLEAN]
Body      == [up : Seq(Statement) \ {<<>>}, down : Seq(Statement)]

IsDirectory(fs) == DOMAIN fs \subseteq Versions /\ fs \in [DOMAIN fs -> Body]
IsHistory(h)    == DOMAIN h \subseteq Versions /\ h \in [DOMAIN h -> Times]

Step      == [version : Versions, statements : Seq(Statement)]
Snapshot  == [objs : SUBSET Objects, managed : BOOLEAN]

Reversible(body) == body.down # <<>>

\* What the server does with a statement: an unguarded CREATE of an object
\* that exists and an unguarded DROP of one that does not are errors without
\* effect; a guarded one does nothing then.
Rejected(schema, stmt) ==
    ~stmt.guarded /\ (stmt.op = "create" <=> stmt.obj \in schema)

Executed(schema, stmt) ==
    IF stmt.op = "create" THEN schema \cup {stmt.obj} ELSE schema \ {stmt.obj}

---------------------------------------------------------------------------
(* The two orders.  Each set below has exactly one member; naming it by a  *)
(* bounded \E keeps the definitions free of recursion.                     *)

\* Load sorts the files by version.
Ascending(S) ==
    {s \in Bijection(1 .. Cardinality(S), S) :
        \A i, j \in DOMAIN s : i < j => s[i] < s[j]}

\* mutant: the records in filename order.
ByFilename(hist) == Ascending(DOMAIN hist)

\* readState: ORDER BY created_at, version.
RegistrationOrder(hist) ==
    {s \in Bijection(1 .. Cardinality(DOMAIN hist), DOMAIN hist) :
        \A i, j \in DOMAIN s : i < j =>
            \/ hist[s[i]] < hist[s[j]]
            \/ hist[s[i]] = hist[s[j]] /\ s[i] < s[j]}

\* historyState.version: the latest registration, or none.
Latest(applied) ==
    IF applied = <<>> THEN {} ELSE {applied[Len(applied)]}

\* mutant: the loop that collects the records for Down runs forwards.
Forwards(s) == s

Backwards(s) == [i \in 1 .. Len(s) |-> s[Len(s) + 1 - i]]

---------------------------------------------------------------------------
(* buildPlan.                                                              *)

Pending(files, hist) == DOMAIN files \ DOMAIN hist

\* The candidate versions in execution order.
Candidates(direction, files, hist) ==
    IF direction = "up"
    THEN Ascending(Pending(files, hist))
    ELSE {Backwards(s) : s \in RegistrationOrder(hist)}

Count(steps, versions) == IF steps = 0 THEN Len(versions) ELSE steps

Selected(steps, versions) == {versions[i] : i \in 1 .. Count(steps, versions)}

\* mutant: a missing Down section is derived from Up.
DerivedSQL(direction, body) ==
    IF direction = "up" THEN body.up
    ELSE IF Reversible(body) THEN body.down
    ELSE [i \in DOMAIN body.up |-> [body.up[i] EXCEPT !.op = "drop"]]

SQLOf(direction, body) == IF direction = "up" THEN body.up ELSE body.down

\* The tables of a database without a version table are ErrUnmanaged; a selected
\* version needs its file and SQL for the direction.
PlanFails(direction, steps, files, snap, versions) ==
    \/ direction = "down" /\ steps = 0
    \/ snap.objs # {} /\ ~snap.managed
    \/ steps > Len(versions)
    \/ \E v \in Selected(steps, versions) :
          v \notin DOMAIN files \/ SQLOf(direction, files[v]) = <<>>

PlanSteps(direction, steps, files, versions) ==
    [i \in 1 .. Count(steps, versions) |->
        [version |-> versions[i], statements |-> SQLOf(direction, files[versions[i]])]]

\* Plan.TargetVersion, for a plan that succeeded.
TargetVersion(direction, steps, versions, applied) ==
    IF Count(steps, versions) = 0 THEN Latest(applied)
    ELSE IF direction = "up" THEN {versions[Count(steps, versions)]}
    ELSE Latest(SubSeq(applied, 1, Len(applied) - Count(steps, versions)))

---------------------------------------------------------------------------
(* Runner.Status: one line per local file or recorded version.             *)

StatusOf(files, hist) ==
    [v \in DOMAIN files \cup DOMAIN hist |->
        IF v \notin DOMAIN hist THEN "pending"
        ELSE IF v \in DOMAIN files THEN "applied" ELSE "applied_missing"]

=============================================================================
