------------------------ MODULE MigrateRunnerProofs ------------------------
(* Theorems about MigrateRunner, for every value of its constants. *)
EXTENDS MigrateRunner, SequenceTheorems, FiniteSetTheorems, TLAPS

---------------------------------------------------------------------------
(* The orders and the plan.                                                *)

\* A bijection from an initial segment of the numbers is a sequence.
LEMMA BijectionIsSeq ==
    ASSUME NEW S, IsFiniteSet(S), NEW s \in Bijection(1 .. Cardinality(S), S)
    PROVE  s \in Seq(S)
<1>1. Cardinality(S) \in Nat
  BY FS_CardinalityType
<1>2. s \in [1 .. Cardinality(S) -> S]
  BY DEF Bijection, Injection
<1> QED
  BY <1>1, <1>2

LEMMA RegistrationOrderType ==
    ASSUME NEW h, IsHistory(h), NEW s \in RegistrationOrder(h)
    PROVE  s \in Seq(Versions)
<1>1. DOMAIN h \in SUBSET Versions /\ IsFiniteSet(DOMAIN h)
  BY VersionsAssumption, FS_Subset DEF IsHistory
<1>2. s \in Seq(DOMAIN h)
  BY <1>1, BijectionIsSeq DEF RegistrationOrder
<1> QED
  BY <1>1, <1>2, SeqMonotonic

\* What buildPlan selects from are versions, in both directions.
LEMMA CandidatesType ==
    ASSUME NEW fs, IsDirectory(fs), NEW h, IsHistory(h), NEW d,
           NEW s \in Candidates(d, fs, h)
    PROVE  s \in Seq(Versions)
<1>1. CASE d = "up"
  <2>1. Pending(fs, h) \in SUBSET Versions /\ IsFiniteSet(Pending(fs, h))
    BY VersionsAssumption, FS_Subset DEF IsDirectory, Pending
  <2>2. s \in Seq(Pending(fs, h))
    BY <1>1, <2>1, BijectionIsSeq DEF Candidates, Ascending
  <2> QED
    BY <2>1, <2>2, SeqMonotonic
<1>2. CASE d # "up"
  <2>1. PICK t \in RegistrationOrder(h) : s = Backwards(t)
    BY <1>2 DEF Candidates
  <2>2. t \in Seq(Versions) /\ Len(t) \in Nat
    BY RegistrationOrderType, LenProperties
  <2>3. \A i \in 1 .. Len(t) : t[Len(t) + 1 - i] \in Versions
    BY <2>2, ElementOfSeq
  <2> QED
    BY <2>1, <2>2, <2>3 DEF Backwards
<1> QED
  BY <1>1, <1>2

\* A plan that buildPlan accepts has one step per selected file, each with SQL.
LEMMA PlanStepsType ==
    ASSUME NEW fs, IsDirectory(fs), NEW d \in {"up", "down"}, NEW k \in Nat,
           NEW sn, NEW s \in Seq(Versions), ~PlanFails(d, k, fs, sn, s)
    PROVE  /\ PlanSteps(d, k, fs, s) \in Seq(Step)
           /\ \A i \in DOMAIN PlanSteps(d, k, fs, s) :
                 PlanSteps(d, k, fs, s)[i].statements # <<>>
<1> DEFINE n == Count(k, s)
<1>1. n \in Nat /\ n <= Len(s) /\ Len(s) \in Nat
  BY LenProperties DEF Count, PlanFails
<1>2. \A i \in 1 .. n : s[i] \in Versions /\ s[i] \in Selected(k, s)
  BY <1>1, ElementOfSeq DEF Selected
<1>3. \A i \in 1 .. n : s[i] \in DOMAIN fs /\ SQLOf(d, fs[s[i]]) # <<>>
  BY <1>2 DEF PlanFails
<1>4. \A i \in 1 .. n : fs[s[i]] \in Body
  BY <1>3 DEF IsDirectory
<1> DEFINE st(i) == SQLOf(d, fs[s[i]])
<1>5. \A i \in 1 .. n : st(i) \in Seq(Statement) /\ st(i) # <<>>
  BY <1>3, <1>4 DEF Body, SQLOf
<1>6. \A i \in 1 .. n : [version |-> s[i], statements |-> st(i)] \in Step
  BY <1>2, <1>5 DEF Step
<1>7. PlanSteps(d, k, fs, s) = [i \in 1 .. n |-> [version |-> s[i], statements |-> st(i)]]
  BY DEF PlanSteps
<1> HIDE DEF n, st
<1> QED
  BY <1>1, <1>5, <1>6, <1>7

---------------------------------------------------------------------------
(* The lock.                                                               *)

LockInv ==
    /\ pc \in [Runners -> PCs]
    /\ sess \in [Runners -> Sessions]
    /\ LockHeldByWorker

\* Whoever works on a live session owns the lock, so cooperating invocations are
\* serialised: for any number of invocations and any faults.
THEOREM LockSafety == Spec => []LockHeldByWorker
<1>1. Init => LockInv
  BY DEF Sessions, Init, LockInv, LockHeldByWorker, PCs, Working
<1>2. LockInv /\ [Next]_vars => LockInv'
  <2> SUFFICES ASSUME LockInv, [Next]_vars PROVE LockInv'
    OBVIOUS
  <2> USE RunnersAssumption
  <2>0. CASE UNCHANGED vars
    BY <2>0 DEF LockInv, LockHeldByWorker, Working, Alive, vars, srvVars
  <2>1. CASE Edit
    BY <2>1 DEF Edit, LockInv, LockHeldByWorker, Working, Alive, srvVars
  <2> USE DEF LockInv, LockHeldByWorker, Working, Alive, PCs, Active, Goto, Abort, Add, srvVars, Sessions
  <2>2. ASSUME NEW r \in Runners, Start(r) PROVE LockInv'
    BY <2>2 DEF Start
  <2>3. ASSUME NEW r \in Runners, Load(r) PROVE LockInv'
    BY <2>3 DEF Load
  <2>4. ASSUME NEW r \in Runners, Connect(r) PROVE LockInv'
    BY <2>4 DEF Connect
  <2>5. ASSUME NEW r \in Runners, AcquireLock(r) PROVE LockInv'
    BY <2>5 DEF AcquireLock
  <2>6. ASSUME NEW r \in Runners, LockTimesOut(r) PROVE LockInv'
    BY <2>6 DEF LockTimesOut
  <2>7. ASSUME NEW r \in Runners, LockFails(r) PROVE LockInv'
    BY <2>7 DEF LockFails
  <2>8. ASSUME NEW r \in Runners, InspectFails(r) PROVE LockInv'
    BY <2>8 DEF InspectFails
  <2>9. ASSUME NEW r \in Runners, InspectApply(r) PROVE LockInv'
    BY <2>9 DEF InspectApply
  <2>10. ASSUME NEW r \in Runners, InspectBaseline(r) PROVE LockInv'
    BY <2>10 DEF InspectBaseline
  <2>11. ASSUME NEW r \in Runners, InspectInit(r) PROVE LockInv'
    BY <2>11 DEF InspectInit
  <2>12. ASSUME NEW r \in Runners, InspectRead(r) PROVE LockInv'
    BY <2>12 DEF InspectRead
  <2>13. ASSUME NEW r \in Runners, CreateInitial(r) PROVE LockInv'
    BY <2>13 DEF CreateInitial
  <2>14. ASSUME NEW r \in Runners, EmitStarted(r) PROVE LockInv'
    BY <2>14 DEF EmitStarted
  <2>15. ASSUME NEW r \in Runners, ExecSucceeds(r) PROVE LockInv'
    BY <2>15 DEF ExecSucceeds
  <2>16. ASSUME NEW r \in Runners, ExecFails(r) PROVE LockInv'
    BY <2>16 DEF ExecFails
  <2>17. ASSUME NEW r \in Runners, ExecLost(r) PROVE LockInv'
    BY <2>17 DEF ExecLost
  <2>18. ASSUME NEW r \in Runners, EmitOutcome(r) PROVE LockInv'
    <3>1. UNCHANGED srvVars /\ pc[r] = "ack"
      BY <2>18 DEF EmitOutcome
    <3>2. \/ Advance(r)
          \/ Abort(r)
      BY <2>18 DEF EmitOutcome
    <3>3. \E l \in {"emit", "output", "capture", "flush", "release"} : Goto(r, l)
      BY <3>2 DEF Advance
    <3> QED
      BY <3>1, <3>3
  <2>19. ASSUME NEW r \in Runners, Flush(r) PROVE LockInv'
    BY <2>19 DEF Flush
  <2>20. ASSUME NEW r \in Runners, Capture(r) PROVE LockInv'
    BY <2>20 DEF Capture
  <2>21. ASSUME NEW r \in Runners, Output(r) PROVE LockInv'
    BY <2>21 DEF Output
  <2>22. ASSUME NEW r \in Runners, Release(r) PROVE LockInv'
    BY <2>22 DEF Release
  <2>23. ASSUME NEW r \in Runners, Crash(r) PROVE LockInv'
    BY <2>23 DEF Crash
  <2>24. ASSUME NEW r \in Runners, SessionDies(r) PROVE LockInv'
    BY <2>24 DEF SessionDies
  <2>25. ASSUME NEW r \in Runners, Reap(r) PROVE LockInv'
    BY <2>25 DEF Reap
  <2>26. ASSUME NEW r \in Runners, Land(r) PROVE LockInv'
    BY <2>26 DEF Land
  <2> QED
    BY <2>0, <2>1, <2>2, <2>3, <2>4, <2>5, <2>6, <2>7, <2>8, <2>9, <2>10, <2>11, <2>12, <2>13, <2>14, <2>15, <2>16, <2>17, <2>18, <2>19, <2>20, <2>21, <2>22, <2>23, <2>24, <2>25, <2>26 DEF Next, Proceed
<1>3. LockInv => LockHeldByWorker
  BY DEF LockInv
<1> QED
  BY <1>1, <1>2, <1>3, PTL DEF Spec

\* In particular two invocations never work on live sessions at once.
THEOREM Serialised == Spec => []OneWorker
<1>1. LockHeldByWorker => OneWorker
  BY DEF LockHeldByWorker, OneWorker
<1> QED
  BY <1>1, LockSafety, PTL

---------------------------------------------------------------------------
(* Types, and where an invocation can be in its plan.                      *)

AtOperation == {"emit", "exec", "ack"}

\* At an operation the cursor is inside the plan, and SQL is only run by Apply.
CursorInv ==
    \A r \in Runners : pc[r] \in AtOperation =>
        /\ job[r].op \in {"up", "down", "baseline"}
        /\ cursor[r].step \in 1 .. Len(plan[r])
        /\ cursor[r].phase = "sql" => job[r].op \in {"up", "down"}
        /\ job[r].op \in {"up", "down"} =>
              cursor[r].stmt \in 1 .. Len(plan[r][cursor[r].step].statements)

\* Every step of an Apply has SQL.
PlanInv ==
    \A r \in Runners :
        /\ pc[r] = "start" => plan[r] = <<>>
        /\ job[r].op \in {"up", "down"} =>
              \A i \in 1 .. Len(plan[r]) : plan[r][i].statements # <<>>

\* Init writes a file only for a database with tables.
CreateInv == \A r \in Runners : pc[r] = "create" => snap[r].objs # {}

\* After an operation its answer is known.
AnswerInv == \A r \in Runners : pc[r] = "ack" => reply[r] \in States

Shape == TypeOK /\ CursorInv /\ AnswerInv /\ PlanInv /\ CreateInv

LEMMA ShapeInit == Init => Shape
<1> SUFFICES ASSUME Init PROVE Shape
  OBVIOUS
<1>1. FilesTypeOK
  BY FilesAssumption, BoundsAssumption DEF Init, FilesTypeOK
<1>2. DatabaseTypeOK
  <2>1. IsHistory(<<>>)
    BY DEF IsHistory
  <2>2. schema \in SUBSET Objects /\ managed \in BOOLEAN /\ clock \in Times
    BY SchemaAssumption, BoundsAssumption DEF Init
  <2> QED
    BY <2>1, <2>2 DEF Init, DatabaseTypeOK
<1>3. ServerTypeOK
  BY DEF Init, ServerTypeOK, Sessions
<1>4. RunnerTypeOK
  <2>1. NoJob \in Job /\ NoCursor \in Cursor /\ NoResult \in Outcome
    BY DEF NoJob, Job, NoCursor, Cursor, Phases, NoResult, Outcome
  <2>2. [objs |-> {}, managed |-> FALSE] \in Snapshot
    BY DEF Snapshot
  <2>3. AreDirectories(loaded)
    BY DEF Init, AreDirectories, IsDirectory
  <2>4. "start" \in PCs /\ "none" \in Replies
    BY DEF PCs, Replies
  <2> QED
    BY <2>1, <2>2, <2>3, <2>4 DEF Init, RunnerTypeOK
<1>5. CursorInv /\ AnswerInv /\ PlanInv /\ CreateInv
  BY DEF Init, CursorInv, AnswerInv, PlanInv, CreateInv, AtOperation, NoJob
<1> QED
  BY <1>1, <1>2, <1>3, <1>4, <1>5 DEF Shape, TypeOK

---------------------------------------------------------------------------
(* What the pieces of the actions produce.                                 *)

LEMMA AddFailure ==
    ASSUME err \in [Runners -> SUBSET Failures], NEW r \in Runners, NEW e \in Failures
    PROVE  Add(err, r, e) \in [Runners -> SUBSET Failures]
BY DEF Add

LEMMA AddEntry ==
    ASSUME log \in [Runners -> SUBSET Entry], NEW r \in Runners, NEW e \in Entry
    PROVE  Add(log, r, e) \in [Runners -> SUBSET Entry]
BY DEF Add

LEMMA AddOperation ==
    ASSUME orphan \in [Runners -> SUBSET Operation], NEW r \in Runners, NEW o \in Operation
    PROVE  Add(orphan, r, o) \in [Runners -> SUBSET Operation]
BY DEF Add

\* At an operation the cursor names a step of the plan.
LEMMA AtStep ==
    ASSUME Shape, NEW r \in Runners, pc[r] \in AtOperation
    PROVE  Version(r) \in Versions /\ Statements(r) \in Seq(Statement)
<1>1. plan[r] \in Seq(Step) /\ cursor[r].step \in 1 .. Len(plan[r])
  BY DEF Shape, TypeOK, RunnerTypeOK, CursorInv
<1>2. plan[r][cursor[r].step] \in Step
  BY <1>1, ElementOfSeq
<1> QED
  BY <1>2 DEF Step, Version, Statements

\* What is sent to the server is an operation.
LEMMA SentType ==
    ASSUME Shape, NEW r \in Runners, pc[r] \in AtOperation
    PROVE  Sent(r) \in Operation
<1>1. cursor[r] \in Cursor
  BY DEF Shape, TypeOK, RunnerTypeOK
<1>2. Version(r) \in Versions /\ Statements(r) \in Seq(Statement)
  BY AtStep
<1>3. CASE cursor[r].phase = "sql"
  <2>1. cursor[r].stmt \in 1 .. Len(Statements(r))
    BY <1>3 DEF Shape, CursorInv, Statements
  <2>2. Statements(r)[cursor[r].stmt] \in Statement
    BY <1>2, <2>1, ElementOfSeq
  <2> QED
    BY <1>2, <1>3, <2>2 DEF Sent, Operation
<1>4. CASE cursor[r].phase = "history"
  BY <1>4 DEF Sent, Operation
<1>5. CASE cursor[r].phase = "record"
  BY <1>2, <1>5 DEF Sent, Operation
<1> QED
  BY <1>1, <1>3, <1>4, <1>5 DEF Cursor, Phases

\* What is logged about it is an entry.
LEMMA EventType ==
    ASSUME Shape, NEW r \in Runners, pc[r] \in AtOperation, NEW s \in States
    PROVE  Event(r, s) \in Entry
<1>1. cursor[r] \in Cursor
  BY DEF Shape, TypeOK, RunnerTypeOK
<1>2. Version(r) \in Versions
  BY AtStep
<1> QED
  BY <1>1, <1>2 DEF Event, Entry, Cursor

\* The unexecuted events.
LEMMA UnsentType ==
    ASSUME Shape, NEW r \in Runners, NEW e \in Unsent(r)
    PROVE  Unexecuted(r, e) \in Entry
<1>1. plan[r] \in Seq(Step)
  BY DEF Shape, TypeOK, RunnerTypeOK
<1>2. PICK i \in DOMAIN plan[r] : e \in {i} \X (1 .. Len(plan[r][i].statements))
  BY DEF Unsent
<1>3. plan[r][i] \in Step
  BY <1>1
<1>4. Len(plan[r][i].statements) \in Nat
  BY <1>3, LenProperties DEF Step
<1>5. e[1] = i /\ e[2] \in Nat
  BY <1>2, <1>4
<1> QED
  BY <1>3, <1>5 DEF Unexecuted, Entry, Step, Phases, States

\* What the server does to the database.
LEMMA CommitType ==
    ASSUME DatabaseTypeOK, NEW o \in Operation, Commit(o)
    PROVE  DatabaseTypeOK'
<1>1. schema' \in SUBSET Objects
  <2>1. \A s \in o.stmt : Executed(schema, s) \in SUBSET Objects
    BY DEF DatabaseTypeOK, Operation, Statement, Executed
  <2> QED
    BY <2>1 DEF Commit, DatabaseTypeOK
<1>2. managed' \in BOOLEAN
  BY DEF Commit, DatabaseTypeOK
<1>3. CASE o.phase = "insert"
  <2>1. PICK now \in Times :
           /\ clock' = now
           /\ history' = [v \in DOMAIN history \cup o.version |->
                             IF v \in DOMAIN history THEN history[v] ELSE now]
    BY <1>3 DEF Commit
  <2>2. \A v \in DOMAIN history : history[v] \in Times
    BY DEF DatabaseTypeOK, IsHistory
  <2>3. DOMAIN history \cup o.version \subseteq Versions
    BY DEF DatabaseTypeOK, IsHistory, Operation
  <2> QED
    BY <1>1, <1>2, <2>1, <2>2, <2>3 DEF DatabaseTypeOK, IsHistory
<1>4. CASE o.phase # "insert"
  <2>1. UNCHANGED clock
    BY <1>4 DEF Commit
  <2>2. \/ history' = history
        \/ history' = [v \in DOMAIN history \ o.version |-> history[v]]
    BY <1>4 DEF Commit, Restrict
  <2>3. IsHistory(history)'
    BY <2>2 DEF DatabaseTypeOK, IsHistory
  <2> QED
    BY <1>1, <1>2, <2>1, <2>3 DEF DatabaseTypeOK
<1> QED
  BY <1>3, <1>4

LEMMA MarkSentType ==
    ASSUME RunnerTypeOK, NEW r \in Runners, MarkSent(r)
    PROVE  sent' \in [Runners -> SUBSET (Nat \X Nat)]
<1>1. sent \in [Runners -> SUBSET (Nat \X Nat)] /\ cursor[r] \in Cursor
  BY DEF RunnerTypeOK
<1>2. Position(r) \in Nat \X Nat
  BY <1>1 DEF Position, Cursor
<1>3. sent' = sent \/ sent' = [sent EXCEPT ![r] = @ \cup {Position(r)}]
  BY DEF MarkSent, Add
<1> QED
  BY <1>1, <1>2, <1>3

LEMMA ConfirmType ==
    ASSUME Shape, NEW r \in Runners, pc[r] \in AtOperation,
           Confirm(r) \/ UNCHANGED result
    PROVE  result' \in [Runners -> Outcome]
<1>1. result \in [Runners -> Outcome]
  BY DEF Shape, TypeOK, RunnerTypeOK
<1>2. Version(r) \in Versions
  BY AtStep
<1>3. result[r].stack \in Seq(Versions) /\ result[r].completed \in SUBSET Versions
  BY <1>1 DEF Outcome
<1> DEFINE st == IF job[r].op = "down"
                 THEN SubSeq(result[r].stack, 1, Len(result[r].stack) - 1)
                 ELSE Append(result[r].stack, Version(r))
<1>4. st \in Seq(Versions)
  <2>1. Len(result[r].stack) \in Nat
    BY <1>3, LenProperties
  <2>2. \A i \in 1 .. Len(result[r].stack) - 1 : result[r].stack[i] \in Versions
    BY <1>3, <2>1, ElementOfSeq
  <2>3. SubSeq(result[r].stack, 1, Len(result[r].stack) - 1) \in Seq(Versions)
    BY <1>3, <2>1, <2>2, SubSeqProperties
  <2> QED
    BY <1>2, <1>3, <2>3, AppendProperties
<1>5. \/ result' = result
      \/ result' = [result EXCEPT ![r].completed = @ \cup {Version(r)}, ![r].stack = st]
  BY DEF Confirm
<1> HIDE DEF st
<1> QED
  <2>1. [completed |-> result[r].completed \cup {Version(r)}, stack |-> st,
         updated |-> result[r].updated] \in Outcome
    BY <1>1, <1>2, <1>3, <1>4 DEF Outcome
  <2>2. \/ result' = result
        \/ result' = [result EXCEPT ![r] =
              [completed |-> result[r].completed \cup {Version(r)}, stack |-> st,
               updated |-> result[r].updated]]
    BY <1>1, <1>5 DEF Outcome
  <2> QED
    BY <1>1, <2>1, <2>2

---------------------------------------------------------------------------
(* Every action keeps the types.                                           *)

LEMMA TypeStep == Shape /\ [Next]_vars => TypeOK'
<1> SUFFICES ASSUME Shape, [Next]_vars PROVE TypeOK'
  OBVIOUS
<1> USE DEF Shape, TypeOK, Goto, Abort
<1>files. IsDirectory(files)
  BY DEF FilesTypeOK
<1>pc. pc \in [Runners -> PCs]
  BY DEF RunnerTypeOK
<1>job. job \in [Runners -> Job]
  BY DEF RunnerTypeOK
<1>loaded. AreDirectories(loaded)
  BY DEF RunnerTypeOK
<1>snap. snap \in [Runners -> Snapshot]
  BY DEF RunnerTypeOK
<1>plan. plan \in [Runners -> Seq(Step)]
  BY DEF RunnerTypeOK
<1>cursor. cursor \in [Runners -> Cursor]
  BY DEF RunnerTypeOK
<1>reply. reply \in [Runners -> Replies]
  BY DEF RunnerTypeOK
<1>result. result \in [Runners -> Outcome]
  BY DEF RunnerTypeOK
<1>err. err \in [Runners -> SUBSET Failures]
  BY DEF RunnerTypeOK
<1>log. log \in [Runners -> SUBSET Entry]
  BY DEF RunnerTypeOK
<1>0. CASE UNCHANGED vars
  BY <1>0 DEF vars, fsVars, dbVars, srvVars, jobVars, runVars, FilesTypeOK, DatabaseTypeOK,
     ServerTypeOK, RunnerTypeOK
<1>1. CASE Edit
  <2>1. DatabaseTypeOK' /\ ServerTypeOK' /\ RunnerTypeOK'
    BY <1>1 DEF Edit, DatabaseTypeOK, dbVars, ServerTypeOK, srvVars, RunnerTypeOK, runVars, jobVars
  <2>2. FilesTypeOK'
    <3>1. edits' \in 0 .. MaxEdits /\ UNCHANGED schemaFile
      BY <1>1, BoundsAssumption DEF Edit, FilesTypeOK
    <3>2. CASE \E v \in Versions : \E b \in Bodies[v] :
             files' = [w \in DOMAIN files \cup {v} |-> IF w = v THEN b ELSE files[w]]
      <4>0. PICK v \in Versions : \E b \in Bodies[v] :
               files' = [w \in DOMAIN files \cup {v} |-> IF w = v THEN b ELSE files[w]]
        BY <3>2
      <4>1. PICK b \in Bodies[v] :
               files' = [w \in DOMAIN files \cup {v} |-> IF w = v THEN b ELSE files[w]]
        BY <4>0
      <4>2. b \in Body
        BY FilesAssumption
      <4> QED
        BY <3>1, <4>1, <4>2, <1>files DEF FilesTypeOK, IsDirectory
    <3>3. CASE \E v \in DOMAIN files : files' = Restrict(files, DOMAIN files \ {v})
      BY <3>1, <3>3, <1>files DEF FilesTypeOK, IsDirectory, Restrict
    <3> QED
      BY <1>1, <3>2, <3>3 DEF Edit
  <2> QED
    BY <2>1, <2>2
<1>2. ASSUME NEW r \in Runners, Start(r) PROVE TypeOK'
  <2>1. FilesTypeOK' /\ DatabaseTypeOK' /\ ServerTypeOK'
    BY <1>2 DEF Start, FilesTypeOK, fsVars, DatabaseTypeOK, dbVars, ServerTypeOK, srvVars
  <2>2. RunnerTypeOK'
    <3>1. pc' \in [Runners -> PCs]
      BY <1>2, <1>pc DEF Start, PCs, Active
    <3>2. job' \in [Runners -> Job]
      <4>1. PICK o \in Operations, k \in StepCounts :
               job' = [job EXCEPT ![r] = [op |-> o, steps |-> k]]
        BY <1>2 DEF Start
      <4>2. [op |-> o, steps |-> k] \in Job
        BY StepCountsAssumption DEF Job
      <4> QED
        BY <4>1, <4>2, <1>job
    <3>3. UNCHANGED <<loaded, snap, plan, cursor, reply, sent, result, err, log>>
      BY <1>2 DEF Start, runVars, jobVars
    <3> QED
      BY <3>1, <3>2, <3>3 DEF RunnerTypeOK
  <2> QED
    BY <2>1, <2>2
<1>3. ASSUME NEW r \in Runners, Load(r) PROVE TypeOK'
  <2>1. FilesTypeOK' /\ DatabaseTypeOK' /\ ServerTypeOK'
    BY <1>3 DEF Load, FilesTypeOK, fsVars, DatabaseTypeOK, dbVars, ServerTypeOK, srvVars
  <2>2. RunnerTypeOK'
    <3>1. pc' \in [Runners -> PCs]
      BY <1>3, <1>pc DEF Load, PCs, Active
    <3>2. AreDirectories(loaded')
      BY <1>3, <1>loaded, <1>files DEF Load, AreDirectories
    <3>3. err' \in [Runners -> SUBSET Failures]
      BY <1>3, <1>err, AddFailure DEF Load, Failures
    <3>4. UNCHANGED <<job, snap, plan, cursor, reply, sent, result, log>>
      BY <1>3 DEF Load, runVars, jobVars
    <3> QED
      BY <3>1, <3>2, <3>3, <3>4 DEF RunnerTypeOK
  <2> QED
    BY <2>1, <2>2
<1>4. ASSUME NEW r \in Runners, Connect(r) PROVE TypeOK'
  <2>1. FilesTypeOK' /\ DatabaseTypeOK'
    BY <1>4 DEF Connect, FilesTypeOK, fsVars, DatabaseTypeOK, dbVars
  <2>2. ServerTypeOK'
    BY <1>4 DEF Connect, ServerTypeOK, srvVars, Sessions
  <2>3. RunnerTypeOK'
    <3>1. pc' \in [Runners -> PCs]
      BY <1>4, <1>pc DEF Connect, PCs, Active
    <3>2. err' \in [Runners -> SUBSET Failures]
      BY <1>4, <1>err, AddFailure DEF Connect, Failures
    <3>3. UNCHANGED <<job, loaded, snap, plan, cursor, reply, sent, result, log>>
      BY <1>4 DEF Connect, runVars, jobVars
    <3> QED
      BY <3>1, <3>2, <3>3 DEF RunnerTypeOK
  <2> QED
    BY <2>1, <2>2, <2>3
<1>5. ASSUME NEW r \in Runners, AcquireLock(r) PROVE TypeOK'
  <2>1. FilesTypeOK' /\ DatabaseTypeOK'
    BY <1>5 DEF AcquireLock, FilesTypeOK, fsVars, DatabaseTypeOK, dbVars
  <2>2. ServerTypeOK'
    BY <1>5 DEF AcquireLock, ServerTypeOK, srvVars, Sessions
  <2>3. RunnerTypeOK'
    <3>1. pc' \in [Runners -> PCs]
      BY <1>5, <1>pc DEF AcquireLock, PCs, Active
    <3>2. UNCHANGED <<job, loaded, snap, plan, cursor, reply, sent, result, err, log>>
      BY <1>5 DEF AcquireLock, runVars, jobVars
    <3> QED
      BY <3>1, <3>2 DEF RunnerTypeOK
  <2> QED
    BY <2>1, <2>2, <2>3
<1>6. ASSUME NEW r \in Runners, LockTimesOut(r) PROVE TypeOK'
  <2>1. FilesTypeOK' /\ DatabaseTypeOK'
    BY <1>6 DEF LockTimesOut, FilesTypeOK, fsVars, DatabaseTypeOK, dbVars
  <2>2. ServerTypeOK'
    BY <1>6 DEF LockTimesOut, ServerTypeOK, srvVars, Sessions
  <2>3. RunnerTypeOK'
    <3>1. pc' \in [Runners -> PCs]
      BY <1>6, <1>pc DEF LockTimesOut, PCs, Active
    <3>2. err' \in [Runners -> SUBSET Failures]
      BY <1>6, <1>err, AddFailure DEF LockTimesOut, Failures
    <3>3. UNCHANGED <<job, loaded, snap, plan, cursor, reply, sent, result, log>>
      BY <1>6 DEF LockTimesOut, runVars, jobVars
    <3> QED
      BY <3>1, <3>2, <3>3 DEF RunnerTypeOK
  <2> QED
    BY <2>1, <2>2, <2>3
<1>7. ASSUME NEW r \in Runners, LockFails(r) PROVE TypeOK'
  <2>1. FilesTypeOK' /\ DatabaseTypeOK'
    BY <1>7 DEF LockFails, FilesTypeOK, fsVars, DatabaseTypeOK, dbVars
  <2>2. ServerTypeOK'
    BY <1>7 DEF LockFails, ServerTypeOK, srvVars, Sessions
  <2>3. RunnerTypeOK'
    <3>1. pc' \in [Runners -> PCs]
      BY <1>7, <1>pc DEF LockFails, PCs, Active
    <3>2. err' \in [Runners -> SUBSET Failures]
      BY <1>7, <1>err, AddFailure DEF LockFails, Failures
    <3>3. UNCHANGED <<job, loaded, snap, plan, cursor, reply, sent, result, log>>
      BY <1>7 DEF LockFails, runVars, jobVars
    <3> QED
      BY <3>1, <3>2, <3>3 DEF RunnerTypeOK
  <2> QED
    BY <2>1, <2>2, <2>3
<1>8. ASSUME NEW r \in Runners, InspectFails(r) PROVE TypeOK'
  <2>1. FilesTypeOK' /\ DatabaseTypeOK' /\ ServerTypeOK'
    BY <1>8 DEF InspectFails, FilesTypeOK, fsVars, DatabaseTypeOK, dbVars, ServerTypeOK, srvVars
  <2>2. RunnerTypeOK'
    <3>1. pc' \in [Runners -> PCs]
      BY <1>8, <1>pc DEF InspectFails, PCs, Active
    <3>2. err' \in [Runners -> SUBSET Failures]
      BY <1>8, <1>err, AddFailure DEF InspectFails, Failures
    <3>3. UNCHANGED <<job, loaded, snap, plan, cursor, reply, sent, result, log>>
      BY <1>8 DEF InspectFails, runVars, jobVars
    <3> QED
      BY <3>1, <3>2, <3>3 DEF RunnerTypeOK
  <2> QED
    BY <2>1, <2>2
<1>9. ASSUME NEW r \in Runners, InspectApply(r) PROVE TypeOK'
  <2>1. FilesTypeOK' /\ DatabaseTypeOK' /\ ServerTypeOK'
    BY <1>9 DEF InspectApply, FilesTypeOK, fsVars, DatabaseTypeOK, dbVars, ServerTypeOK, srvVars
  <2>2. RunnerTypeOK'
    <3> DEFINE Fails(versions) ==
                   PlanFails(Direction(r), job[r].steps, loaded[r], Current, versions)
               Steps(versions) ==
                   PlanSteps(Direction(r), job[r].steps, loaded[r], versions)
    <3>a. PICK applied \in RegistrationOrder(history),
               versions \in Candidates(Direction(r), loaded[r], history) :
             /\ result' = [result EXCEPT ![r].stack = applied]
             /\ \/ err' = Add(err, r, "plan") /\ UNCHANGED <<plan, cursor>>
                \/ /\ ~Fails(versions)
                   /\ plan' = [plan EXCEPT ![r] = Steps(versions)]
                   /\ cursor' = [cursor EXCEPT ![r] = At(FirstPhase(r), 1, 1)]
                   /\ err' = err \/ err' = Add(err, r, "check")
      BY <1>9 DEF InspectApply
    <3>b. IsDirectory(loaded[r]) /\ IsHistory(history)
      BY <1>loaded DEF AreDirectories, DatabaseTypeOK
    <3>c. applied \in Seq(Versions) /\ versions \in Seq(Versions)
      BY <3>b, RegistrationOrderType, CandidatesType
    <3>d. job[r].steps \in Nat /\ Direction(r) \in {"up", "down"}
      BY <1>job DEF Job, Direction
    <3>e. ~Fails(versions) => Steps(versions) \in Seq(Step)
      BY <3>b, <3>c, <3>d, PlanStepsType
    <3>f. At(FirstPhase(r), 1, 1) \in Cursor
      BY DEF At, FirstPhase, Cursor, Phases
    <3> HIDE DEF Fails, Steps
    <3>1. pc' \in [Runners -> PCs]
      BY <1>9, <1>pc DEF InspectApply, PCs, Active
    <3>2. snap' \in [Runners -> Snapshot]
      BY <1>9, <1>snap DEF InspectApply, Snapshot, Current, DatabaseTypeOK
    <3>3. plan' \in [Runners -> Seq(Step)]
      BY <3>a, <3>e, <1>plan
    <3>4. cursor' \in [Runners -> Cursor]
      BY <3>a, <3>f, <1>cursor
    <3>5. result' \in [Runners -> Outcome]
      BY <3>a, <3>c, <1>result DEF Outcome
    <3>6. err' \in [Runners -> SUBSET Failures]
      BY <3>a, <1>err, AddFailure DEF Failures
    <3>7. UNCHANGED <<job, loaded, reply, sent, log>>
      BY <1>9 DEF InspectApply, runVars, jobVars
    <3> QED
      BY <3>1, <3>2, <3>3, <3>4, <3>5, <3>6, <3>7 DEF RunnerTypeOK
  <2> QED
    BY <2>1, <2>2
<1>10. ASSUME NEW r \in Runners, InspectBaseline(r) PROVE TypeOK'
  <2>1. FilesTypeOK' /\ DatabaseTypeOK' /\ ServerTypeOK'
    BY <1>10 DEF InspectBaseline, FilesTypeOK, fsVars, DatabaseTypeOK, dbVars, ServerTypeOK, srvVars
  <2>2. RunnerTypeOK'
    <3>a. PICK v \in DOMAIN loaded[r] :
             \/ err' = Add(err, r, "plan") /\ UNCHANGED <<plan, cursor>>
             \/ /\ plan' = [plan EXCEPT ![r] = <<[version |-> v, statements |-> <<>>]>>]
                /\ cursor' = [cursor EXCEPT ![r] = At(FirstPhase(r), 1, 1)]
                /\ err' = err \/ err' = Add(err, r, "check")
      BY <1>10 DEF InspectBaseline
    <3>b. v \in Versions
      BY <1>loaded DEF AreDirectories, IsDirectory
    <3>c. <<[version |-> v, statements |-> <<>>]>> \in Seq(Step)
      BY <3>b DEF Step
    <3>d. At(FirstPhase(r), 1, 1) \in Cursor
      BY DEF At, FirstPhase, Cursor, Phases
    <3>1. pc' \in [Runners -> PCs]
      BY <1>10, <1>pc DEF InspectBaseline, PCs, Active
    <3>2. snap' \in [Runners -> Snapshot]
      BY <1>10, <1>snap DEF InspectBaseline, Snapshot, Current, DatabaseTypeOK
    <3>3. plan' \in [Runners -> Seq(Step)]
      BY <3>a, <3>c, <1>plan
    <3>4. cursor' \in [Runners -> Cursor]
      BY <3>a, <3>d, <1>cursor
    <3>5. err' \in [Runners -> SUBSET Failures]
      BY <3>a, <1>err, AddFailure DEF Failures
    <3>6. UNCHANGED <<job, loaded, reply, sent, result, log>>
      BY <1>10 DEF InspectBaseline, runVars, jobVars
    <3> QED
      BY <3>1, <3>2, <3>3, <3>4, <3>5, <3>6 DEF RunnerTypeOK
  <2> QED
    BY <2>1, <2>2
<1>11. ASSUME NEW r \in Runners, InspectInit(r) PROVE TypeOK'
  <2>1. FilesTypeOK' /\ DatabaseTypeOK' /\ ServerTypeOK'
    BY <1>11 DEF InspectInit, FilesTypeOK, fsVars, DatabaseTypeOK, dbVars, ServerTypeOK, srvVars
  <2>2. RunnerTypeOK'
    <3>1. pc' \in [Runners -> PCs]
      BY <1>11, <1>pc DEF InspectInit, PCs, Active
    <3>2. AreDirectories(loaded')
      BY <1>11, <1>loaded, <1>files DEF InspectInit, AreDirectories
    <3>3. snap' \in [Runners -> Snapshot]
      BY <1>11, <1>snap DEF InspectInit, Snapshot, Current, DatabaseTypeOK
    <3>4. err' \in [Runners -> SUBSET Failures]
      BY <1>11, <1>err, AddFailure DEF InspectInit, Failures
    <3>5. UNCHANGED <<job, plan, cursor, reply, sent, result, log>>
      BY <1>11 DEF InspectInit, runVars, jobVars
    <3> QED
      BY <3>1, <3>2, <3>3, <3>4, <3>5 DEF RunnerTypeOK
  <2> QED
    BY <2>1, <2>2
<1>12. ASSUME NEW r \in Runners, InspectRead(r) PROVE TypeOK'
  <2>1. FilesTypeOK' /\ DatabaseTypeOK' /\ ServerTypeOK'
    BY <1>12 DEF InspectRead, FilesTypeOK, fsVars, DatabaseTypeOK, dbVars, ServerTypeOK, srvVars
  <2>2. RunnerTypeOK'
    <3>1. pc' \in [Runners -> PCs]
      BY <1>12, <1>pc DEF InspectRead, PCs, Active
    <3>2. snap' \in [Runners -> Snapshot]
      BY <1>12, <1>snap DEF InspectRead, Snapshot, Current, DatabaseTypeOK
    <3>3. result' \in [Runners -> Outcome]
      <4>1. PICK applied \in RegistrationOrder(history) :
               result' = [result EXCEPT ![r].stack = applied]
        BY <1>12 DEF InspectRead
      <4>2. applied \in Seq(Versions)
        BY RegistrationOrderType DEF DatabaseTypeOK
      <4> QED
        BY <4>1, <4>2, <1>result DEF Outcome
    <3>4. UNCHANGED <<job, loaded, plan, cursor, reply, sent, err, log>>
      BY <1>12 DEF InspectRead, runVars, jobVars
    <3> QED
      BY <3>1, <3>2, <3>3, <3>4 DEF RunnerTypeOK
  <2> QED
    BY <2>1, <2>2
<1>13. ASSUME NEW r \in Runners, CreateInitial(r) PROVE TypeOK'
  <2>1. DatabaseTypeOK' /\ ServerTypeOK'
    BY <1>13 DEF CreateInitial, DatabaseTypeOK, dbVars, ServerTypeOK, srvVars
  <2>2. FilesTypeOK'
    <3>1. CASE UNCHANGED files
      BY <1>13, <3>1 DEF CreateInitial, FilesTypeOK
    <3>2. CASE ~UNCHANGED files
      <4>1. PICK s \in Bijection(1 .. Cardinality(snap[r].objs), snap[r].objs) :
               files' = [w \in {InitialVersion} |->
                           [up |-> [i \in DOMAIN s |->
                               [op |-> "create", obj |-> s[i], guarded |-> FALSE]],
                            down |-> <<>>]]
        BY <1>13, <3>2 DEF CreateInitial
      <4>2. snap[r].objs \in SUBSET Objects /\ IsFiniteSet(snap[r].objs) /\ snap[r].objs # {}
        BY <1>13, <1>snap, ObjectsAssumption, FS_Subset DEF CreateInitial, CreateInv, Snapshot
      <4>3. Cardinality(snap[r].objs) \in Nat \ {0}
        BY <4>2, FS_CardinalityType, FS_EmptySet
      <4>4. s \in Seq(snap[r].objs) /\ DOMAIN s = 1 .. Cardinality(snap[r].objs)
        BY <4>2, BijectionIsSeq DEF Bijection, Injection
      <4>5. \A i \in DOMAIN s : s[i] \in Objects
        BY <4>2 DEF Bijection, Injection
      <4> DEFINE up == [i \in DOMAIN s |-> [op |-> "create", obj |-> s[i], guarded |-> FALSE]]
      <4>6. up \in Seq(Statement)
        <5>1. \A i \in DOMAIN s : up[i] \in Statement
          BY <4>5 DEF Statement
        <5> QED
          BY <4>3, <4>4, <5>1
      <4>7. up # <<>>
        BY <4>3, <4>4
      <4>8. [up |-> up, down |-> <<>>] \in Body
        BY <4>6, <4>7 DEF Body
      <4> HIDE DEF up
      <4>9. IsDirectory([w \in {InitialVersion} |-> [up |-> up, down |-> <<>>]])
        BY <4>8, FilesAssumption DEF IsDirectory
      <4> QED
        BY <1>13, <4>1, <4>9 DEF CreateInitial, FilesTypeOK, up
    <3> QED
      BY <3>1, <3>2
  <2>3. RunnerTypeOK'
    <3>1. pc' \in [Runners -> PCs]
      BY <1>13, <1>pc DEF CreateInitial, PCs, Active
    <3>2. err' \in [Runners -> SUBSET Failures]
      BY <1>13, <1>err, AddFailure DEF CreateInitial, Failures
    <3>3. UNCHANGED <<job, loaded, snap, plan, cursor, reply, sent, result, log>>
      BY <1>13 DEF CreateInitial, runVars, jobVars
    <3> QED
      BY <3>1, <3>2, <3>3 DEF RunnerTypeOK
  <2> QED
    BY <2>1, <2>2, <2>3
<1>14. ASSUME NEW r \in Runners, EmitStarted(r) PROVE TypeOK'
  <2>1. FilesTypeOK' /\ DatabaseTypeOK' /\ ServerTypeOK'
    BY <1>14 DEF EmitStarted, FilesTypeOK, fsVars, DatabaseTypeOK, dbVars, ServerTypeOK, srvVars
  <2>2. RunnerTypeOK'
    <3>1. pc' \in [Runners -> PCs]
      BY <1>14, <1>pc DEF EmitStarted, PCs, Active
    <3>2. err' \in [Runners -> SUBSET Failures]
      BY <1>14, <1>err, AddFailure DEF EmitStarted, Failures
    <3>3. log' \in [Runners -> SUBSET Entry]
      BY <1>14, <1>log, AddEntry, EventType DEF EmitStarted, AtOperation, States
    <3>4. UNCHANGED <<job, loaded, snap, plan, cursor, reply, sent, result>>
      BY <1>14 DEF EmitStarted, runVars, jobVars
    <3> QED
      BY <3>1, <3>2, <3>3, <3>4 DEF RunnerTypeOK
  <2> QED
    BY <2>1, <2>2
<1>15. ASSUME NEW r \in Runners, ExecSucceeds(r) PROVE TypeOK'
  <2>1. FilesTypeOK' /\ ServerTypeOK'
    BY <1>15 DEF ExecSucceeds, FilesTypeOK, fsVars, ServerTypeOK, srvVars
  <2>2. DatabaseTypeOK'
    BY <1>15, SentType, CommitType DEF ExecSucceeds, AtOperation
  <2>3. RunnerTypeOK'
    <3>1. pc' \in [Runners -> PCs]
      BY <1>15, <1>pc DEF ExecSucceeds, PCs, Active
    <3>2. reply' \in [Runners -> Replies]
      BY <1>15, <1>reply DEF ExecSucceeds, Replies
    <3>3. sent' \in [Runners -> SUBSET (Nat \X Nat)]
      BY <1>15, MarkSentType DEF ExecSucceeds
    <3>4. result' \in [Runners -> Outcome]
      BY <1>15, <1>result, ConfirmType DEF ExecSucceeds, AtOperation
    <3>5. UNCHANGED <<job, loaded, snap, plan, cursor, err, log>>
      BY <1>15 DEF ExecSucceeds, runVars, jobVars
    <3> QED
      BY <3>1, <3>2, <3>3, <3>4, <3>5 DEF RunnerTypeOK
  <2> QED
    BY <2>1, <2>2, <2>3
<1>16. ASSUME NEW r \in Runners, ExecFails(r) PROVE TypeOK'
  <2>1. FilesTypeOK' /\ DatabaseTypeOK' /\ ServerTypeOK'
    BY <1>16 DEF ExecFails, FilesTypeOK, fsVars, DatabaseTypeOK, dbVars, ServerTypeOK, srvVars
  <2>2. RunnerTypeOK'
    <3>1. pc' \in [Runners -> PCs]
      BY <1>16, <1>pc DEF ExecFails, PCs, Active
    <3>2. reply' \in [Runners -> Replies]
      BY <1>16, <1>reply DEF ExecFails, Replies
    <3>3. sent' \in [Runners -> SUBSET (Nat \X Nat)]
      BY <1>16, MarkSentType DEF ExecFails
    <3>4. UNCHANGED <<job, loaded, snap, plan, cursor, result, err, log>>
      BY <1>16 DEF ExecFails, runVars, jobVars
    <3> QED
      BY <3>1, <3>2, <3>3, <3>4 DEF RunnerTypeOK
  <2> QED
    BY <2>1, <2>2
<1>17. ASSUME NEW r \in Runners, ExecLost(r) PROVE TypeOK'
  <2>1. FilesTypeOK' /\ DatabaseTypeOK'
    BY <1>17 DEF ExecLost, FilesTypeOK, fsVars, DatabaseTypeOK, dbVars
  <2>2. ServerTypeOK'
    <3>1. Sent(r) \in Operation
      BY <1>17, SentType DEF ExecLost, AtOperation
    <3>2. orphan' = orphan \/ orphan' = Add(orphan, r, Sent(r))
      BY <1>17 DEF ExecLost
    <3>3. orphan' \in [Runners -> SUBSET Operation]
      BY <3>1, <3>2, AddOperation DEF ServerTypeOK
    <3>4. sess' \in [Runners -> Sessions] /\ UNCHANGED lockOwner
      BY <1>17 DEF ExecLost, ServerTypeOK, Sessions
    <3> QED
      BY <3>3, <3>4 DEF ServerTypeOK
  <2>3. RunnerTypeOK'
    <3>1. pc' \in [Runners -> PCs]
      BY <1>17, <1>pc DEF ExecLost, PCs, Active
    <3>2. reply' \in [Runners -> Replies]
      BY <1>17, <1>reply DEF ExecLost, Replies
    <3>3. sent' \in [Runners -> SUBSET (Nat \X Nat)]
      BY <1>17, MarkSentType DEF ExecLost
    <3>4. UNCHANGED <<job, loaded, snap, plan, cursor, result, err, log>>
      BY <1>17 DEF ExecLost, runVars, jobVars
    <3> QED
      BY <3>1, <3>2, <3>3, <3>4 DEF RunnerTypeOK
  <2> QED
    BY <2>1, <2>2, <2>3
<1>18. ASSUME NEW r \in Runners, EmitOutcome(r) PROVE TypeOK'
  <2>1. FilesTypeOK' /\ DatabaseTypeOK' /\ ServerTypeOK'
    BY <1>18 DEF EmitOutcome, FilesTypeOK, fsVars, DatabaseTypeOK, dbVars, ServerTypeOK, srvVars
  <2>2. RunnerTypeOK'
    <3>1. pc' \in [Runners -> PCs]
      <4>1. Advance(r) \/ Abort(r)
        BY <1>18 DEF EmitOutcome
      <4> QED
        BY <4>1, <1>pc DEF Advance, PCs, Active
    <3>2. cursor' \in [Runners -> Cursor]
      <4>1. Advance(r) \/ UNCHANGED cursor
        BY <1>18 DEF EmitOutcome
      <4> QED
        BY <4>1, <1>cursor DEF Advance, AfterSQL, Cursor, Phases, At
    <3>3. reply' \in [Runners -> Replies]
      BY <1>18, <1>reply DEF EmitOutcome, Replies
    <3>4. err' \in [Runners -> SUBSET Failures]
      <4>1. PICK failed \in SUBSET {"operation", "log"} :
               err' = [err EXCEPT ![r] = @ \cup failed]
        BY <1>18 DEF EmitOutcome
      <4> QED
        BY <4>1, <1>err DEF Failures
    <3>5. log' \in [Runners -> SUBSET Entry]
      <4>1. \/ log' = log
            \/ log' = Add(log, r, Event(r, reply[r]))
        BY <1>18 DEF EmitOutcome
      <4>2. Event(r, reply[r]) \in Entry
        BY <1>18, EventType DEF EmitOutcome, AtOperation, AnswerInv
      <4> QED
        BY <4>1, <4>2, <1>log, AddEntry
    <3>6. UNCHANGED <<job, loaded, snap, plan, sent, result>>
      BY <1>18 DEF EmitOutcome, runVars, jobVars
    <3> QED
      BY <3>1, <3>2, <3>3, <3>4, <3>5, <3>6 DEF RunnerTypeOK
  <2> QED
    BY <2>1, <2>2
<1>19. ASSUME NEW r \in Runners, Flush(r) PROVE TypeOK'
  <2>1. FilesTypeOK' /\ DatabaseTypeOK' /\ ServerTypeOK'
    BY <1>19 DEF Flush, FilesTypeOK, fsVars, DatabaseTypeOK, dbVars, ServerTypeOK, srvVars
  <2>2. RunnerTypeOK'
    <3>a. PICK lost \in SUBSET Unsent(r) :
             /\ log' = [log EXCEPT ![r] = @ \cup {Unexecuted(r, e) : e \in Unsent(r) \ lost}]
             /\ err' = [err EXCEPT ![r] = @ \cup (IF lost = {} THEN {} ELSE {"log"})]
      BY <1>19 DEF Flush
    <3>b. \A e \in Unsent(r) : Unexecuted(r, e) \in Entry
      BY UnsentType
    <3>1. pc' \in [Runners -> PCs]
      BY <1>19, <1>pc DEF Flush, PCs, Active
    <3>2. err' \in [Runners -> SUBSET Failures]
      BY <3>a, <1>err DEF Failures
    <3>3. log' \in [Runners -> SUBSET Entry]
      BY <3>a, <3>b, <1>log
    <3>4. UNCHANGED <<job, loaded, snap, plan, cursor, reply, sent, result>>
      BY <1>19 DEF Flush, runVars, jobVars
    <3> QED
      BY <3>1, <3>2, <3>3, <3>4 DEF RunnerTypeOK
  <2> QED
    BY <2>1, <2>2
<1>20. ASSUME NEW r \in Runners, Capture(r) PROVE TypeOK'
  <2>1. FilesTypeOK' /\ DatabaseTypeOK' /\ ServerTypeOK'
    BY <1>20 DEF Capture, FilesTypeOK, fsVars, DatabaseTypeOK, dbVars, ServerTypeOK, srvVars
  <2>2. RunnerTypeOK'
    <3>1. pc' \in [Runners -> PCs]
      BY <1>20, <1>pc DEF Capture, PCs, Active
    <3>2. snap' \in [Runners -> Snapshot]
      BY <1>20, <1>snap DEF Capture, Snapshot, Current, DatabaseTypeOK
    <3>3. err' \in [Runners -> SUBSET Failures]
      BY <1>20, <1>err, AddFailure DEF Capture, Failures
    <3>4. UNCHANGED <<job, loaded, plan, cursor, reply, sent, result, log>>
      BY <1>20 DEF Capture, runVars, jobVars
    <3> QED
      BY <3>1, <3>2, <3>3, <3>4 DEF RunnerTypeOK
  <2> QED
    BY <2>1, <2>2
<1>21. ASSUME NEW r \in Runners, Output(r) PROVE TypeOK'
  <2>1. DatabaseTypeOK' /\ ServerTypeOK'
    BY <1>21 DEF Output, DatabaseTypeOK, dbVars, ServerTypeOK, srvVars
  <2>2. FilesTypeOK'
    <3>1. schemaFile' = schemaFile \/ schemaFile' = {snap[r].objs}
      BY <1>21 DEF Output
    <3>2. snap[r].objs \in SUBSET Objects
      BY <1>snap DEF Snapshot
    <3> QED
      BY <1>21, <3>1, <3>2 DEF Output, FilesTypeOK
  <2>3. RunnerTypeOK'
    <3>1. pc' \in [Runners -> PCs]
      BY <1>21, <1>pc DEF Output, PCs, Active
    <3>2. cursor' \in [Runners -> Cursor]
      <4>1. \/ UNCHANGED cursor
            \/ cursor' = [cursor EXCEPT ![r] = At("sql", cursor[r].step + 1, 1)]
        BY <1>21 DEF Output
      <4> QED
        BY <4>1, <1>cursor DEF Cursor, Phases, At
    <3>3. result' \in [Runners -> Outcome]
      <4>1. \/ UNCHANGED result
            \/ \E b \in BOOLEAN : result' = [result EXCEPT ![r].updated = b]
        BY <1>21 DEF Output
      <4> QED
        BY <4>1, <1>result DEF Outcome
    <3>4. err' \in [Runners -> SUBSET Failures]
      BY <1>21, <1>err, AddFailure DEF Output, Failures
    <3>5. UNCHANGED <<job, loaded, snap, plan, reply, sent, log>>
      BY <1>21 DEF Output, runVars, jobVars
    <3> QED
      BY <3>1, <3>2, <3>3, <3>4, <3>5 DEF RunnerTypeOK
  <2> QED
    BY <2>1, <2>2, <2>3
<1>22. ASSUME NEW r \in Runners, Release(r) PROVE TypeOK'
  <2>1. FilesTypeOK' /\ DatabaseTypeOK'
    BY <1>22 DEF Release, FilesTypeOK, fsVars, DatabaseTypeOK, dbVars
  <2>2. ServerTypeOK'
    BY <1>22 DEF Release, ServerTypeOK, srvVars, Sessions
  <2>3. RunnerTypeOK'
    <3>1. pc' \in [Runners -> PCs]
      BY <1>22, <1>pc DEF Release, PCs, Active
    <3>2. err' \in [Runners -> SUBSET Failures]
      BY <1>22, <1>err, AddFailure DEF Release, Failures
    <3>3. UNCHANGED <<job, loaded, snap, plan, cursor, reply, sent, result, log>>
      BY <1>22 DEF Release, runVars, jobVars
    <3> QED
      BY <3>1, <3>2, <3>3 DEF RunnerTypeOK
  <2> QED
    BY <2>1, <2>2, <2>3
<1>23. ASSUME NEW r \in Runners, Crash(r) PROVE TypeOK'
  <2>1. FilesTypeOK' /\ DatabaseTypeOK'
    BY <1>23 DEF Crash, FilesTypeOK, fsVars, DatabaseTypeOK, dbVars
  <2>2. ServerTypeOK'
    <3>1. orphan' = orphan \/ (pc[r] = "exec" /\ orphan' = Add(orphan, r, Sent(r)))
      BY <1>23 DEF Crash
    <3>2. orphan' \in [Runners -> SUBSET Operation]
      BY <3>1, SentType, AddOperation DEF ServerTypeOK, AtOperation
    <3>3. sess' \in [Runners -> Sessions] /\ UNCHANGED lockOwner
      BY <1>23 DEF Crash, ServerTypeOK, Sessions
    <3> QED
      BY <3>2, <3>3 DEF ServerTypeOK
  <2>3. RunnerTypeOK'
    <3>1. pc' \in [Runners -> PCs]
      BY <1>23, <1>pc DEF Crash, PCs, Active
    <3>2. UNCHANGED <<job, loaded, snap, plan, cursor, reply, sent, result, err, log>>
      BY <1>23 DEF Crash, runVars, jobVars
    <3> QED
      BY <3>1, <3>2 DEF RunnerTypeOK
  <2> QED
    BY <2>1, <2>2, <2>3
<1>24. ASSUME NEW r \in Runners, SessionDies(r) PROVE TypeOK'
  <2>1. FilesTypeOK' /\ DatabaseTypeOK'
    BY <1>24 DEF SessionDies, FilesTypeOK, fsVars, DatabaseTypeOK, dbVars
  <2>2. ServerTypeOK'
    BY <1>24 DEF SessionDies, ServerTypeOK, srvVars, Sessions
  <2>3. RunnerTypeOK'
    BY <1>24 DEF SessionDies, RunnerTypeOK, runVars, jobVars
  <2> QED
    BY <2>1, <2>2, <2>3
<1>25. ASSUME NEW r \in Runners, Reap(r) PROVE TypeOK'
  <2>1. FilesTypeOK' /\ DatabaseTypeOK'
    BY <1>25 DEF Reap, FilesTypeOK, fsVars, DatabaseTypeOK, dbVars
  <2>2. ServerTypeOK'
    <3>1. orphan' \in [Runners -> SUBSET Operation]
      BY <1>25 DEF Reap, ServerTypeOK
    <3> QED
      BY <1>25, <3>1 DEF Reap, ServerTypeOK, Sessions
  <2>3. RunnerTypeOK'
    BY <1>25 DEF Reap, RunnerTypeOK, runVars, jobVars
  <2> QED
    BY <2>1, <2>2, <2>3
<1>26. ASSUME NEW r \in Runners, Land(r) PROVE TypeOK'
  <2>1. FilesTypeOK'
    BY <1>26 DEF Land, FilesTypeOK, fsVars
  <2>2. DatabaseTypeOK'
    <3>1. PICK o \in orphan[r] : Commit(o) \/ UNCHANGED dbVars
      BY <1>26 DEF Land
    <3>2. o \in Operation
      BY DEF ServerTypeOK
    <3> QED
      BY <3>1, <3>2, CommitType DEF DatabaseTypeOK, dbVars
  <2>3. ServerTypeOK'
    BY <1>26 DEF Land, ServerTypeOK
  <2>4. RunnerTypeOK'
    BY <1>26 DEF Land, RunnerTypeOK, runVars, jobVars
  <2> QED
    BY <2>1, <2>2, <2>3, <2>4
<1> QED
  BY <1>0, <1>1, <1>2, <1>3, <1>4, <1>5, <1>6, <1>7, <1>8, <1>9, <1>10, <1>11, <1>12, <1>13, <1>14, <1>15, <1>16, <1>17, <1>18, <1>19, <1>20, <1>21, <1>22, <1>23, <1>24, <1>25, <1>26 DEF Next, Proceed

---------------------------------------------------------------------------
(* Every action keeps the invocations' places.                             *)

LEMMA ControlStep ==
    Shape /\ TypeOK' /\ [Next]_vars => (CursorInv /\ AnswerInv /\ PlanInv /\ CreateInv)'
<1> DEFINE Control == CursorInv /\ AnswerInv /\ PlanInv /\ CreateInv
<1> SUFFICES ASSUME Shape, TypeOK', [Next]_vars PROVE Control'
  OBVIOUS
<1>pc. pc \in [Runners -> PCs]
  BY DEF Shape, TypeOK, RunnerTypeOK
<1>job. job \in [Runners -> Job]
  BY DEF Shape, TypeOK, RunnerTypeOK
<1>plan. plan \in [Runners -> Seq(Step)]
  BY DEF Shape, TypeOK, RunnerTypeOK
<1>cursor. cursor \in [Runners -> Cursor]
  BY DEF Shape, TypeOK, RunnerTypeOK
<1>reply. reply \in [Runners -> Replies]
  BY DEF Shape, TypeOK, RunnerTypeOK
<1>snap. snap \in [Runners -> Snapshot]
  BY DEF Shape, TypeOK, RunnerTypeOK
<1>inv. Control
  BY DEF Shape
<1> USE DEF Control, CursorInv, AnswerInv, PlanInv, CreateInv, AtOperation, Goto, Abort
<1>0. CASE UNCHANGED vars
  BY <1>0, <1>inv DEF vars, runVars, jobVars
<1>1. CASE Edit
  BY <1>1, <1>inv DEF Edit, runVars, jobVars
<1>2. ASSUME NEW r \in Runners, Start(r) PROVE Control'
  BY <1>2, <1>inv, <1>pc DEF Start, runVars, jobVars
<1>3. ASSUME NEW r \in Runners, Load(r) PROVE Control'
  BY <1>3, <1>inv, <1>pc DEF Load, runVars, jobVars
<1>4. ASSUME NEW r \in Runners, Connect(r) PROVE Control'
  BY <1>4, <1>inv, <1>pc DEF Connect, runVars, jobVars
<1>5. ASSUME NEW r \in Runners, AcquireLock(r) PROVE Control'
  BY <1>5, <1>inv, <1>pc DEF AcquireLock, runVars, jobVars
<1>6. ASSUME NEW r \in Runners, LockTimesOut(r) PROVE Control'
  BY <1>6, <1>inv, <1>pc DEF LockTimesOut, runVars, jobVars
<1>7. ASSUME NEW r \in Runners, LockFails(r) PROVE Control'
  BY <1>7, <1>inv, <1>pc DEF LockFails, runVars, jobVars
<1>8. ASSUME NEW r \in Runners, InspectFails(r) PROVE Control'
  BY <1>8, <1>inv, <1>pc DEF InspectFails, runVars, jobVars
<1>9. ASSUME NEW r \in Runners, InspectApply(r) PROVE Control'
  <2>1. pc[r] = "inspect" /\ UNCHANGED <<job, reply>>
    BY <1>9 DEF InspectApply, jobVars
  <2>2. \A q \in Runners \ {r} : /\ cursor'[q] = cursor[q] /\ plan'[q] = plan[q]
                                /\ snap'[q] = snap[q]
    BY <1>9, <1>cursor, <1>plan, <1>snap DEF InspectApply
  <2>3. CASE UNCHANGED <<plan, cursor>> /\ Goto(r, "release")
    BY <2>1, <2>2, <2>3, <1>inv, <1>pc
  <2>4. ASSUME NEW versions \in Candidates(Direction(r), loaded[r], history),
               ~PlanFails(Direction(r), job[r].steps, loaded[r], Current, versions),
               plan' = [plan EXCEPT ![r] =
                           PlanSteps(Direction(r), job[r].steps, loaded[r], versions)],
               cursor' = [cursor EXCEPT ![r] = At(FirstPhase(r), 1, 1)],
               job[r].op \in {"up", "down", "plan up", "plan down"},
               \/ Goto(r, "release") \/ Goto(r, "output") \/ Goto(r, "flush")
               \/ job[r].op \in {"up", "down"} /\ plan'[r] # <<>> /\ Goto(r, "emit")
        PROVE  Control'
    <3>1. IsDirectory(loaded[r]) /\ IsHistory(history)
      BY DEF Shape, TypeOK, RunnerTypeOK, AreDirectories, DatabaseTypeOK
    <3>2. versions \in Seq(Versions) /\ Direction(r) \in {"up", "down"} /\ job[r].steps \in Nat
      BY <2>4, <3>1, <1>job, CandidatesType DEF Direction, Job
    <3>3. /\ plan'[r] \in Seq(Step)
          /\ \A i \in 1 .. Len(plan'[r]) : plan'[r][i].statements # <<>>
      <4>1. plan'[r] = PlanSteps(Direction(r), job[r].steps, loaded[r], versions)
        BY <2>4, <1>plan
      <4>2. /\ plan'[r] \in Seq(Step)
            /\ \A i \in DOMAIN plan'[r] : plan'[r][i].statements # <<>>
        <5>1. ~PlanFails(Direction(r), job[r].steps, loaded[r], Current, versions)
          BY <2>4
        <5>2. LET p == PlanSteps(Direction(r), job[r].steps, loaded[r], versions)
              IN  p \in Seq(Step) /\ \A i \in DOMAIN p : p[i].statements # <<>>
          BY <3>1, <3>2, <5>1, PlanStepsType
        <5> QED
          BY <4>1, <5>2
      <4> QED
        BY <4>2, LenProperties
    <3>4. cursor'[r] = At(FirstPhase(r), 1, 1)
      BY <2>4, <1>cursor
    <3>5. plan'[r] # <<>> => /\ 1 \in 1 .. Len(plan'[r])
                             /\ 1 \in 1 .. Len(plan'[r][1].statements)
      <4>1. ASSUME plan'[r] # <<>> PROVE 1 \in 1 .. Len(plan'[r])
        BY <3>3, <4>1, EmptySeq, LenProperties
      <4>2. ASSUME plan'[r] # <<>> PROVE plan'[r][1] \in Step /\ plan'[r][1].statements # <<>>
        BY <3>3, <4>1, <4>2, ElementOfSeq
      <4>3. ASSUME plan'[r] # <<>> PROVE 1 \in 1 .. Len(plan'[r][1].statements)
        BY <4>2, <4>3, EmptySeq, LenProperties DEF Step
      <4> QED
        BY <4>1, <4>3
    <3>6. CursorInv'
      <4>1. ASSUME NEW q \in Runners, q # r, pc'[q] \in AtOperation
            PROVE  /\ pc[q] \in AtOperation
                   /\ cursor'[q] = cursor[q] /\ plan'[q] = plan[q] /\ job'[q] = job[q]
        BY <2>1, <2>2, <2>4, <4>1, <1>pc
      <4>2. pc'[r] \in AtOperation =>
               /\ job'[r].op \in {"up", "down"} /\ plan'[r] # <<>>
        BY <2>1, <2>4, <1>pc
      <4>3. cursor'[r].step = 1 /\ cursor'[r].stmt = 1
        BY <3>4 DEF At
      <4> QED
        BY <3>5, <4>1, <4>2, <4>3, <1>inv
    <3>7. PlanInv'
      <4>1. \A q \in Runners : pc'[q] = "start" => q # r /\ pc[q] = "start"
        BY <2>1, <2>4, <1>pc
      <4> QED
        BY <2>1, <2>2, <3>3, <4>1, <1>inv
    <3>8. AnswerInv' /\ CreateInv'
      BY <2>1, <2>2, <2>4, <1>inv, <1>pc
    <3> QED
      BY <3>6, <3>7, <3>8
  <2> QED
    BY <1>9, <2>3, <2>4 DEF InspectApply
<1>10. ASSUME NEW r \in Runners, InspectBaseline(r) PROVE Control'
  <2>1. pc[r] = "inspect" /\ job[r].op = "baseline" /\ UNCHANGED <<job, reply>>
    BY <1>10 DEF InspectBaseline, jobVars
  <2>2. \A q \in Runners \ {r} : /\ cursor'[q] = cursor[q] /\ plan'[q] = plan[q]
                                /\ snap'[q] = snap[q]
    BY <1>10, <1>cursor, <1>plan, <1>snap DEF InspectBaseline
  <2>3. CASE UNCHANGED <<plan, cursor>> /\ Goto(r, "release")
    BY <2>1, <2>2, <2>3, <1>inv, <1>pc
  <2>4. ASSUME NEW v,
               plan' = [plan EXCEPT ![r] = <<[version |-> v, statements |-> <<>>]>>],
               cursor' = [cursor EXCEPT ![r] = At(FirstPhase(r), 1, 1)],
               Goto(r, "emit") \/ Goto(r, "release")
        PROVE  Control'
    <3>1. Len(plan'[r]) = 1
      BY <2>4, <1>plan
    <3>2. cursor'[r].step = 1 /\ cursor'[r].phase # "sql"
      BY <2>1, <2>4, <1>cursor DEF At, FirstPhase
    <3> QED
      <4>1. ASSUME NEW q \in Runners, q # r
            PROVE  /\ pc'[q] = pc[q] /\ job'[q] = job[q] /\ reply'[q] = reply[q]
                   /\ cursor'[q] = cursor[q] /\ plan'[q] = plan[q] /\ snap'[q] = snap[q]
        BY <2>1, <2>2, <2>4, <4>1, <1>pc
      <4>2. pc'[r] \in {"emit", "release"} /\ job'[r].op = "baseline"
        BY <2>1, <2>4, <1>pc
      <4>3. CursorInv'
        BY <3>1, <3>2, <4>1, <4>2, <1>inv
      <4>4. AnswerInv' /\ PlanInv' /\ CreateInv'
        BY <4>1, <4>2, <1>inv
      <4> QED
        BY <4>3, <4>4
  <2> QED
    BY <1>10, <2>3, <2>4 DEF InspectBaseline
<1>11. ASSUME NEW r \in Runners, InspectInit(r) PROVE Control'
  BY <1>11, <1>inv, <1>pc, <1>snap DEF InspectInit, Current, runVars, jobVars
<1>12. ASSUME NEW r \in Runners, InspectRead(r) PROVE Control'
  BY <1>12, <1>inv, <1>pc DEF InspectRead, runVars, jobVars
<1>13. ASSUME NEW r \in Runners, CreateInitial(r) PROVE Control'
  BY <1>13, <1>inv, <1>pc DEF CreateInitial, runVars, jobVars
<1>14. ASSUME NEW r \in Runners, EmitStarted(r) PROVE Control'
  BY <1>14, <1>inv, <1>pc DEF EmitStarted, runVars, jobVars
<1>15. ASSUME NEW r \in Runners, ExecSucceeds(r) PROVE Control'
  BY <1>15, <1>inv, <1>pc, <1>reply DEF ExecSucceeds, States, runVars, jobVars
<1>16. ASSUME NEW r \in Runners, ExecFails(r) PROVE Control'
  BY <1>16, <1>inv, <1>pc, <1>reply DEF ExecFails, States, runVars, jobVars
<1>17. ASSUME NEW r \in Runners, ExecLost(r) PROVE Control'
  BY <1>17, <1>inv, <1>pc, <1>reply DEF ExecLost, States, runVars, jobVars
<1>18. ASSUME NEW r \in Runners, EmitOutcome(r) PROVE Control'
  <2>1. pc[r] = "ack" /\ UNCHANGED <<job, plan, snap>>
    BY <1>18 DEF EmitOutcome, jobVars
  <2>5. \A q \in Runners \ {r} : reply'[q] = reply[q]
    BY <1>18, <1>reply DEF EmitOutcome
  <2>2. CASE Abort(r) /\ UNCHANGED cursor
    BY <2>1, <2>2, <2>5, <1>inv, <1>pc
  <2>3. CASE Advance(r)
    <3>1. \/ pc' = [pc EXCEPT ![r] = "emit"]
          \/ pc' = [pc EXCEPT ![r] = "output"]
          \/ pc' = [pc EXCEPT ![r] = "capture"]
      BY <2>3 DEF Advance
    <3>2. \A q \in Runners \ {r} : pc'[q] = pc[q] /\ cursor'[q] = cursor[q]
      BY <2>3, <1>pc, <1>cursor DEF Advance
    <3>3. AnswerInv' /\ PlanInv' /\ CreateInv'
      BY <2>1, <2>5, <3>1, <3>2, <1>inv, <1>pc
    <3>4. /\ job[r].op \in {"up", "down", "baseline"}
          /\ cursor[r].step \in 1 .. Len(plan[r])
          /\ cursor[r].phase = "sql" => job[r].op \in {"up", "down"}
          /\ job[r].op \in {"up", "down"} =>
                cursor[r].stmt \in 1 .. Len(plan[r][cursor[r].step].statements)
      BY <2>1, <1>inv
    <3>5. pc'[r] = "emit" =>
             \/ cursor'[r] = [cursor[r] EXCEPT !.phase =
                                  IF job[r].op = "baseline" THEN "record" ELSE "sql"]
             \/ /\ cursor[r].phase = "sql"
                /\ cursor'[r] = AfterSQL(r)
      BY <2>3, <1>pc, <1>cursor DEF Advance
    <3>6. pc'[r] = "emit" =>
             /\ cursor'[r].step = cursor[r].step
             /\ cursor'[r].phase = "sql" => job[r].op \in {"up", "down"}
             /\ job[r].op \in {"up", "down"} =>
                   cursor'[r].stmt \in 1 .. Len(plan[r][cursor[r].step].statements)
      <4>1. cursor[r] \in Cursor
        BY <1>cursor
      <4>2. ASSUME pc'[r] = "emit",
                   cursor'[r] = [cursor[r] EXCEPT !.phase =
                                  IF job[r].op = "baseline" THEN "record" ELSE "sql"]
            PROVE  /\ cursor'[r].step = cursor[r].step
                   /\ cursor'[r].stmt = cursor[r].stmt
                   /\ cursor'[r].phase = "sql" => job[r].op # "baseline"
        BY <4>1, <4>2 DEF Cursor
      <4>3. CASE cursor[r].phase = "sql"
        <5>1. Len(Statements(r)) \in Nat
          BY <2>1, AtStep, LenProperties
        <5>2. job[r].op # "baseline" /\ cursor[r].stmt \in 1 .. Len(Statements(r))
          BY <3>4, <4>3 DEF Statements
        <5>3. pc'[r] = "emit" =>
                 /\ cursor'[r].step = cursor[r].step
                 /\ cursor'[r].stmt \in 1 .. Len(Statements(r))
          BY <3>5, <4>1, <4>2, <5>1, <5>2 DEF AfterSQL, At, Cursor
        <5> QED
          BY <3>4, <4>3, <5>3 DEF Statements
      <4> QED
        BY <3>4, <3>5, <4>2, <4>3
    <3>7. CursorInv'
      <4>1. ASSUME NEW q \in Runners, q # r, pc'[q] \in AtOperation
            PROVE  pc[q] \in AtOperation /\ cursor'[q] = cursor[q]
        BY <3>2, <4>1
      <4>2. pc'[r] \in AtOperation => pc'[r] = "emit"
        BY <3>1, <1>pc
      <4> QED
        BY <2>1, <3>4, <3>6, <4>1, <4>2, <1>inv
    <3> QED
      BY <3>3, <3>7
  <2> QED
    BY <1>18, <2>2, <2>3 DEF EmitOutcome
<1>19. ASSUME NEW r \in Runners, Flush(r) PROVE Control'
  BY <1>19, <1>inv, <1>pc DEF Flush, runVars, jobVars
<1>20. ASSUME NEW r \in Runners, Capture(r) PROVE Control'
  BY <1>20, <1>inv, <1>pc, <1>snap DEF Capture, Current, runVars, jobVars
<1>21. ASSUME NEW r \in Runners, Output(r) PROVE Control'
  <2>1. pc[r] = "output" /\ UNCHANGED <<job, plan, snap, reply>>
    BY <1>21 DEF Output, jobVars
  <2>2. CASE Abort(r) \/ Goto(r, "release")
    <3>1. \A q \in Runners \ {r} : cursor'[q] = cursor[q]
      BY <1>21, <1>cursor DEF Output
    <3> QED
      BY <2>1, <2>2, <3>1, <1>inv, <1>pc
  <2>3. CASE /\ job[r].op \in {"up", "down"} /\ cursor[r].step < Len(plan[r])
             /\ cursor' = [cursor EXCEPT ![r] = At("sql", cursor[r].step + 1, 1)]
             /\ Goto(r, "emit")
    <3>1. cursor[r].step \in Nat /\ Len(plan[r]) \in Nat
      BY <1>cursor, <1>plan, LenProperties DEF Cursor
    <3>2. cursor'[r] = At("sql", cursor[r].step + 1, 1)
      BY <2>3, <1>cursor
    <3>3. cursor'[r].step \in 1 .. Len(plan[r]) /\ cursor'[r].stmt = 1
      BY <2>3, <3>1, <3>2 DEF At
    <3>4. plan[r][cursor'[r].step] \in Step
      BY <3>3, <1>plan, ElementOfSeq
    <3>5. plan[r][cursor'[r].step].statements # <<>>
      BY <2>3, <3>3, <1>inv
    <3>6. 1 \in 1 .. Len(plan[r][cursor'[r].step].statements)
      BY <3>4, <3>5, EmptySeq, LenProperties DEF Step
    <3>7. \A q \in Runners \ {r} : cursor'[q] = cursor[q]
      BY <2>3, <1>cursor
    <3> QED
      BY <2>1, <2>3, <3>3, <3>6, <3>7, <1>inv, <1>pc
  <2> QED
    BY <1>21, <2>2, <2>3 DEF Output
<1>22. ASSUME NEW r \in Runners, Release(r) PROVE Control'
  BY <1>22, <1>inv, <1>pc DEF Release, runVars, jobVars
<1>23. ASSUME NEW r \in Runners, Crash(r) PROVE Control'
  BY <1>23, <1>inv, <1>pc DEF Crash, runVars, jobVars
<1>24. ASSUME NEW r \in Runners, SessionDies(r) PROVE Control'
  BY <1>24, <1>inv, <1>pc DEF SessionDies, runVars, jobVars
<1>25. ASSUME NEW r \in Runners, Reap(r) PROVE Control'
  BY <1>25, <1>inv, <1>pc DEF Reap, runVars, jobVars
<1>26. ASSUME NEW r \in Runners, Land(r) PROVE Control'
  BY <1>26, <1>inv, <1>pc DEF Land, runVars, jobVars
<1> QED
  BY <1>0, <1>1, <1>2, <1>3, <1>4, <1>5, <1>6, <1>7, <1>8, <1>9, <1>10, <1>11, <1>12, <1>13, <1>14, <1>15, <1>16, <1>17, <1>18, <1>19, <1>20, <1>21, <1>22, <1>23, <1>24, <1>25, <1>26 DEF Next, Proceed

LEMMA ShapeStep == Shape /\ [Next]_vars => Shape'
BY TypeStep, ControlStep DEF Shape

\* Every variable of every invocation stays in its type, for any directory, any
\* plan and any faults.  The strengthening is Shape: the cursor of an invocation
\* at an operation lies inside its plan.
THEOREM TypeCorrect == Spec => []TypeOK
<1>1. Shape => TypeOK
  BY DEF Shape
<1> QED
  BY <1>1, ShapeInit, ShapeStep, PTL DEF Spec

---------------------------------------------------------------------------
(* The record comes after the SQL.                                         *)

\* The statements that the cursor has passed are in the log as succeeded.
Passed(r, k) ==
    cursor[r].phase = "record" \/ (cursor[r].phase = "sql" /\ k < cursor[r].stmt)

Acked(r) ==
    /\ cursor[r].phase = "history" => cursor[r].stmt = 1
    /\ \A k \in 1 .. Len(Statements(r)) : Passed(r, k) =>
          [phase |-> "sql", version |-> {Version(r)}, stmt |-> k, state |-> "succeeded"]
              \in log[r]

AckedInv ==
    \A r \in Runners : pc[r] \in AtOperation /\ job[r].op \in {"up", "down"} => Acked(r)

\* A step that leaves the invocation at its operation and only adds to its log.
Stays(r) ==
    /\ pc[r] \in AtOperation
    /\ job'[r] = job[r] /\ plan'[r] = plan[r] /\ cursor'[r] = cursor[r]
    /\ log[r] \subseteq log'[r]

LEMMA StaysAcked ==
    ASSUME AckedInv, \A r \in Runners : pc'[r] \in AtOperation => Stays(r)
    PROVE  AckedInv'
BY DEF AckedInv, Acked, Stays, Passed, Statements, Version

LEMMA AckedStep == Shape /\ AckedInv /\ [Next]_vars => AckedInv'
<1> SUFFICES ASSUME Shape, AckedInv, [Next]_vars PROVE AckedInv'
  OBVIOUS
<1>pc. pc \in [Runners -> PCs]
  BY DEF Shape, TypeOK, RunnerTypeOK
<1>job. job \in [Runners -> Job]
  BY DEF Shape, TypeOK, RunnerTypeOK
<1>plan. plan \in [Runners -> Seq(Step)]
  BY DEF Shape, TypeOK, RunnerTypeOK
<1>cursor. cursor \in [Runners -> Cursor]
  BY DEF Shape, TypeOK, RunnerTypeOK
<1>log. log \in [Runners -> SUBSET Entry]
  BY DEF Shape, TypeOK, RunnerTypeOK
<1> DEFINE Calm == \A q \in Runners : pc'[q] \in AtOperation => Stays(q)
<1>q. Calm => AckedInv'
  BY StaysAcked
<1> USE DEF Stays, AtOperation, Goto, Abort
<1>0. CASE UNCHANGED vars
  BY <1>0, <1>q DEF vars, runVars, jobVars
<1>1. CASE Edit
  BY <1>1, <1>q DEF Edit, runVars, jobVars
<1>2. ASSUME NEW r \in Runners, Start(r) PROVE AckedInv'
  BY <1>2, <1>q, <1>pc, <1>job DEF Start, runVars, jobVars
<1>3. ASSUME NEW r \in Runners, Load(r) PROVE AckedInv'
  BY <1>3, <1>q, <1>pc DEF Load, runVars, jobVars
<1>4. ASSUME NEW r \in Runners, Connect(r) PROVE AckedInv'
  BY <1>4, <1>q, <1>pc DEF Connect, runVars, jobVars
<1>5. ASSUME NEW r \in Runners, AcquireLock(r) PROVE AckedInv'
  BY <1>5, <1>q, <1>pc DEF AcquireLock, runVars, jobVars
<1>6. ASSUME NEW r \in Runners, LockTimesOut(r) PROVE AckedInv'
  BY <1>6, <1>q, <1>pc DEF LockTimesOut, runVars, jobVars
<1>7. ASSUME NEW r \in Runners, LockFails(r) PROVE AckedInv'
  BY <1>7, <1>q, <1>pc DEF LockFails, runVars, jobVars
<1>8. ASSUME NEW r \in Runners, InspectFails(r) PROVE AckedInv'
  BY <1>8, <1>q, <1>pc DEF InspectFails, runVars, jobVars
<1>9. ASSUME NEW r \in Runners, InspectApply(r) PROVE AckedInv'
  <2>1. pc[r] = "inspect" /\ UNCHANGED <<job, log>>
    BY <1>9 DEF InspectApply, jobVars
  <2>2. \A q \in Runners \ {r} : cursor'[q] = cursor[q] /\ plan'[q] = plan[q] /\ pc'[q] = pc[q]
    BY <1>9, <1>cursor, <1>plan, <1>pc DEF InspectApply
  <2>3. pc'[r] \in AtOperation => cursor'[r] = At(FirstPhase(r), 1, 1) /\ job[r].op # "baseline"
    BY <1>9, <1>cursor, <1>pc DEF InspectApply
  <2>4. pc'[r] \in AtOperation => Acked(r)'
    BY <2>3 DEF Acked, Passed, At, FirstPhase
  <2>5. \A q \in Runners \ {r} : pc'[q] \in AtOperation => Stays(q)
    BY <2>1, <2>2
  <2> QED
    BY <2>4, <2>5 DEF AckedInv, Acked, Passed, Statements, Version
<1>10. ASSUME NEW r \in Runners, InspectBaseline(r) PROVE AckedInv'
  <2>1. pc[r] = "inspect" /\ job[r].op = "baseline" /\ UNCHANGED <<job, log>>
    BY <1>10 DEF InspectBaseline, jobVars
  <2>2. \A q \in Runners \ {r} : cursor'[q] = cursor[q] /\ plan'[q] = plan[q] /\ pc'[q] = pc[q]
    BY <1>10, <1>cursor, <1>plan, <1>pc DEF InspectBaseline
  <2>3. \A q \in Runners \ {r} : pc'[q] \in AtOperation => Stays(q)
    BY <2>1, <2>2
  <2> QED
    BY <2>1, <2>3 DEF AckedInv, Acked, Passed, Statements, Version
<1>11. ASSUME NEW r \in Runners, InspectInit(r) PROVE AckedInv'
  BY <1>11, <1>q, <1>pc DEF InspectInit, runVars, jobVars
<1>12. ASSUME NEW r \in Runners, InspectRead(r) PROVE AckedInv'
  BY <1>12, <1>q, <1>pc DEF InspectRead, runVars, jobVars
<1>13. ASSUME NEW r \in Runners, CreateInitial(r) PROVE AckedInv'
  BY <1>13, <1>q, <1>pc DEF CreateInitial, runVars, jobVars
<1>14. ASSUME NEW r \in Runners, EmitStarted(r) PROVE AckedInv'
  BY <1>14, <1>q, <1>pc, <1>log DEF EmitStarted, runVars, jobVars, Add
<1>15. ASSUME NEW r \in Runners, ExecSucceeds(r) PROVE AckedInv'
  BY <1>15, <1>q, <1>pc DEF ExecSucceeds, runVars, jobVars
<1>16. ASSUME NEW r \in Runners, ExecFails(r) PROVE AckedInv'
  BY <1>16, <1>q, <1>pc DEF ExecFails, runVars, jobVars
<1>17. ASSUME NEW r \in Runners, ExecLost(r) PROVE AckedInv'
  BY <1>17, <1>q, <1>pc DEF ExecLost, runVars, jobVars
<1>18. ASSUME NEW r \in Runners, EmitOutcome(r) PROVE AckedInv'
  <2>1. pc[r] = "ack" /\ UNCHANGED <<job, plan>>
    BY <1>18 DEF EmitOutcome, jobVars
  <2>2. \A q \in Runners \ {r} : cursor'[q] = cursor[q] /\ pc'[q] = pc[q] /\ log'[q] = log[q]
    <3>1. UNCHANGED log \/ log' = Add(log, r, Event(r, reply[r]))
      BY <1>18 DEF EmitOutcome
    <3>2. Advance(r) \/ (Abort(r) /\ UNCHANGED cursor)
      BY <1>18 DEF EmitOutcome
    <3> QED
      BY <3>1, <3>2, <1>cursor, <1>pc, <1>log DEF Advance, Add
  <2>3. \A q \in Runners \ {r} : pc'[q] \in AtOperation => Stays(q)
    BY <2>1, <2>2
  <2>4. CASE pc'[r] \notin AtOperation
    BY <2>3, <2>4, <1>q
  <2>5. CASE pc'[r] \in AtOperation
    <3>1. /\ Advance(r) /\ reply[r] = "succeeded"
          /\ log' = Add(log, r, Event(r, reply[r]))
      BY <1>18, <2>5, <1>pc DEF EmitOutcome
    <3>2. log'[r] = log[r] \cup {Event(r, "succeeded")}
      BY <3>1, <1>log DEF Add
    <3>3. cursor[r] \in Cursor /\ Len(Statements(r)) \in Nat
      BY <2>1, <1>cursor, AtStep, LenProperties
    <3>4. Statements(r)' = Statements(r) /\ Version(r)' = Version(r)
      <4>1. cursor'[r].step = cursor[r].step
        BY <3>1, <3>3, <1>cursor DEF Advance, AfterSQL, At, Cursor
      <4> QED
        BY <2>1, <4>1 DEF Statements, Version
    <3>5. ASSUME job[r].op \in {"up", "down"} PROVE Acked(r)'
      <4>1. Acked(r)
        BY <2>1, <3>5 DEF AckedInv
      <4>2. CASE cursor[r].phase = "history"
        <5>1. cursor'[r] = [cursor[r] EXCEPT !.phase = "sql"]
          BY <3>1, <3>5, <4>2, <1>cursor DEF Advance
        <5>2. cursor'[r].phase = "sql" /\ cursor'[r].stmt = 1
          BY <3>3, <4>1, <4>2, <5>1 DEF Acked, Cursor
        <5> QED
          BY <3>3, <3>4, <5>2 DEF Acked, Passed
      <4>3. CASE cursor[r].phase = "sql"
        <5>1. \/ cursor'[r] = At("sql", cursor[r].step, cursor[r].stmt + 1)
              \/ /\ cursor'[r] = At("record", cursor[r].step, 1)
                 /\ ~(cursor[r].stmt < Len(Statements(r)))
          BY <3>1, <4>3, <1>cursor DEF Advance, AfterSQL
        <5>2. Event(r, "succeeded") = [phase |-> "sql", version |-> {Version(r)},
                                       stmt |-> cursor[r].stmt, state |-> "succeeded"]
          BY <4>3 DEF Event
        <5>3. ASSUME NEW k \in 1 .. Len(Statements(r)), Passed(r, k)'
              PROVE  k < cursor[r].stmt \/ k = cursor[r].stmt
          BY <3>3, <5>1, <5>3 DEF Passed, At, Cursor
        <5>4. cursor'[r].phase # "history"
          BY <5>1 DEF At
        <5>5. \A k \in 1 .. Len(Statements(r)) : Passed(r, k)' =>
                 [phase |-> "sql", version |-> {Version(r)}, stmt |-> k,
                  state |-> "succeeded"] \in log'[r]
          BY <3>2, <4>1, <4>3, <5>2, <5>3 DEF Acked, Passed
        <5> QED
          BY <3>4, <5>4, <5>5 DEF Acked
      <4>4. CASE cursor[r].phase = "record"
        BY <2>5, <3>1, <4>4, <1>pc DEF Advance
      <4> QED
        BY <3>3, <4>2, <4>3, <4>4 DEF Cursor, Phases
    <3> QED
      BY <2>1, <2>3, <3>5 DEF AckedInv, Acked, Passed, Statements, Version
  <2> QED
    BY <2>4, <2>5
<1>19. ASSUME NEW r \in Runners, Flush(r) PROVE AckedInv'
  BY <1>19, <1>q, <1>pc, <1>log DEF Flush, runVars, jobVars
<1>20. ASSUME NEW r \in Runners, Capture(r) PROVE AckedInv'
  BY <1>20, <1>q, <1>pc DEF Capture, runVars, jobVars
<1>21. ASSUME NEW r \in Runners, Output(r) PROVE AckedInv'
  <2>1. pc[r] = "output" /\ UNCHANGED <<job, plan, log>>
    BY <1>21 DEF Output, jobVars
  <2>2. \A q \in Runners \ {r} : cursor'[q] = cursor[q] /\ pc'[q] = pc[q]
    BY <1>21, <1>cursor, <1>pc DEF Output
  <2>3. pc'[r] \in AtOperation => cursor'[r] = At("sql", cursor[r].step + 1, 1)
    BY <1>21, <1>cursor, <1>pc DEF Output
  <2>4. pc'[r] \in AtOperation => Acked(r)'
    BY <2>3 DEF Acked, Passed, At
  <2>5. \A q \in Runners \ {r} : pc'[q] \in AtOperation => Stays(q)
    BY <2>1, <2>2
  <2> QED
    BY <2>4, <2>5 DEF AckedInv, Acked, Passed, Statements, Version
<1>22. ASSUME NEW r \in Runners, Release(r) PROVE AckedInv'
  BY <1>22, <1>q, <1>pc DEF Release, runVars, jobVars
<1>23. ASSUME NEW r \in Runners, Crash(r) PROVE AckedInv'
  BY <1>23, <1>q, <1>pc DEF Crash, runVars, jobVars
<1>24. ASSUME NEW r \in Runners, SessionDies(r) PROVE AckedInv'
  BY <1>24, <1>q, <1>pc DEF SessionDies, runVars, jobVars
<1>25. ASSUME NEW r \in Runners, Reap(r) PROVE AckedInv'
  BY <1>25, <1>q, <1>pc DEF Reap, runVars, jobVars
<1>26. ASSUME NEW r \in Runners, Land(r) PROVE AckedInv'
  BY <1>26, <1>q, <1>pc DEF Land, runVars, jobVars
<1> QED
  BY <1>0, <1>1, <1>2, <1>3, <1>4, <1>5, <1>6, <1>7, <1>8, <1>9, <1>10, <1>11, <1>12, <1>13, <1>14, <1>15, <1>16, <1>17, <1>18, <1>19, <1>20, <1>21, <1>22, <1>23, <1>24, <1>25, <1>26 DEF Next, Proceed

\* No version is recorded, and no record removed, before the log shows that every
\* statement of the file was acknowledged: for plans and files of any length.
THEOREM RecordSafety == Spec => []RecordAfterSQL
<1>1. Init => AckedInv
  BY DEF Init, AckedInv, AtOperation
<1>2. Shape /\ AckedInv => RecordAfterSQL
  BY DEF AckedInv, Acked, Passed, AtOperation, RecordAfterSQL
<1> QED
  BY <1>1, <1>2, ShapeInit, ShapeStep, AckedStep, PTL DEF Spec

=============================================================================
