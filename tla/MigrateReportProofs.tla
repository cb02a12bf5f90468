------------------------ MODULE MigrateReportProofs ------------------------
(***************************************************************************)
(* Theorems about what MigrateRunner tells its operator, for every value   *)
(* of the constants: a snapshot file that is out of date is reported, the  *)
(* log of an Apply accounts for its plan, and the logs name every version  *)
(* whose record and objects may disagree.                                  *)
(***************************************************************************)
EXTENDS MigrateLedgerProofs

---------------------------------------------------------------------------
(* The snapshot file.                                                      *)

\* The invocation crashed, returned an error that tells the operator, or will.
ToldBy(r) ==
    \/ pc[r] = "crashed"
    \/ err[r] \cap {"operation", "log", "snapshot", "release"} # {}
    \/ pc[r] \in Working /\ ~Alive(r)
    \/ pc[r] = "ack" /\ reply[r] # "succeeded"

Told == \E r \in Runners : ToldBy(r)

\* What is about to be written is the schema.
SnapOf(r) ==
    \/ pc[r] \in {"output", "create"}
    \/ pc[r] \in AtOperation /\ job[r].op = "baseline"
    => snap[r].objs = schema

\* An invocation that will write the snapshot file.
Writes(r) == lockOwner = r /\ pc[r] \in {"emit", "exec", "ack", "capture", "output"}

ShownInv == schemaFile \in {{}, {schema}} \/ \E r \in Runners : Writes(r)

SnapshotInv ==
    /\ \A r \in Runners : orphan[r] # {} => ToldBy(r)
    /\ (\E r \in Runners : result[r].updated) => schemaFile # {}
    /\ Told \/ (ShownInv /\ \A r \in Runners : SnapOf(r))

---------------------------------------------------------------------------
(* The log.                                                                *)

\* The plan has a statement k of step i.
InPlan(r, i, k) == i \in 1 .. Len(plan[r]) /\ k \in 1 .. Len(plan[r][i].statements)

\* The operation at the cursor is statement k of step i.
IsAt(r, i, k) == cursor[r].phase = "sql" /\ cursor[r].step = i /\ cursor[r].stmt = k

\* The cursor has passed statement k of step i.
Behind(r, i, k) ==
    \/ i < cursor[r].step
    \/ i = cursor[r].step /\ cursor[r].phase = "record"
    \/ i = cursor[r].step /\ cursor[r].phase = "sql" /\ k < cursor[r].stmt

Fate(r, i, k, s) ==
    [phase |-> "sql", version |-> {plan[r][i].version}, stmt |-> k, state |-> s]

\* What the log says of statement k of step i.
Fates(r, i, k) ==
    {e \in log[r] : /\ e.phase = "sql" /\ e.version = {plan[r][i].version}
                    /\ e.stmt = k /\ e.state # "started"}

Applying(r) == job[r].op \in {"up", "down"}

\* The statements sent are those behind the cursor, and the one in flight.
SentOf(r) ==
    /\ pc[r] \in {"start", "load", "connect", "lock", "inspect"} => sent[r] = {} /\ log[r] = {}
    /\ Applying(r) /\ pc[r] \in {"emit", "exec", "ack", "capture", "output"} =>
          \A i, k \in Nat : InPlan(r, i, k) =>
              (<<i, k>> \in sent[r] <=> Behind(r, i, k) \/ (IsAt(r, i, k) /\ pc[r] = "ack"))

\* The log has told the fate of statement k of step i.
Settled(r, i, k) ==
    \/ pc[r] \in {"release", "done"}
    \/ <<i, k>> \in sent[r] /\ ~(pc[r] = "ack" /\ IsAt(r, i, k))

FateOf(r) ==
    Applying(r) /\ "log" \notin err[r] /\ pc[r] # "crashed" =>
        \A i, k \in Nat : InPlan(r, i, k) =>
            IF Settled(r, i, k) THEN \E s \in States : Fates(r, i, k) = {Fate(r, i, k, s)}
                                ELSE Fates(r, i, k) = {}

ReportInv == \A r \in Runners : SentOf(r) /\ FateOf(r)

---------------------------------------------------------------------------

\* What is to be told stays so.
LEMMA ToldStays ==
    ASSUME Shape, NEW r \in Runners, StepOf(r), ToldBy(r)
    PROVE  ToldBy(r)'
<1>t. /\ pc \in [Runners -> PCs] /\ sess \in [Runners -> Sessions]
      /\ reply \in [Runners -> Replies] /\ err \in [Runners -> SUBSET Failures]
  BY DEF Shape, TypeOK, RunnerTypeOK, ServerTypeOK
<1> USE RunnersAssumption, <1>t DEF ToldBy, Working, Alive, Goto, Abort, Add,
      fsVars, dbVars, srvVars, jobVars, runVars
<1>1. CASE Start(r)
  BY <1>1 DEF Start
<1>2. CASE Load(r)
  BY <1>2 DEF Load
<1>3. CASE Connect(r)
  BY <1>3 DEF Connect
<1>4. CASE AcquireLock(r)
  BY <1>4 DEF AcquireLock
<1>5. CASE LockTimesOut(r)
  BY <1>5 DEF LockTimesOut
<1>6. CASE LockFails(r)
  BY <1>6 DEF LockFails
<1>7. CASE InspectFails(r)
  BY <1>7 DEF InspectFails
<1>8. CASE InspectApply(r)
  <2>1. \E l \in {"release", "output", "emit", "flush"} : Goto(r, l)
    BY <1>8, ApplyCases
  <2>2. err' = err \/ err' = Add(err, r, "plan") \/ err' = Add(err, r, "check")
    BY <1>8, ApplyCases
  <2>3. UNCHANGED sess /\ pc[r] = "inspect"
    BY <1>8 DEF InspectApply
  <2> QED
    BY <2>1, <2>2, <2>3
<1>9. CASE InspectBaseline(r)
  BY <1>9 DEF InspectBaseline
<1>10. CASE InspectInit(r)
  BY <1>10 DEF InspectInit
<1>11. CASE InspectRead(r)
  BY <1>11 DEF InspectRead
<1>12. CASE CreateInitial(r)
  BY <1>12 DEF CreateInitial
<1>13. CASE EmitStarted(r)
  BY <1>13 DEF EmitStarted
<1>14. CASE ExecSucceeds(r)
  BY <1>14 DEF ExecSucceeds
<1>15. CASE ExecFails(r)
  BY <1>15 DEF ExecFails
<1>16. CASE ExecLost(r)
  BY <1>16 DEF ExecLost
<1>17. CASE EmitOutcome(r)
  <2>0. PICK written \in BOOLEAN :
           err' = [err EXCEPT ![r] = @ \cup ((IF reply[r] = "succeeded" THEN {} ELSE {"operation"})
                                             \cup (IF written THEN {} ELSE {"log"}))]
    BY <1>17 DEF EmitOutcome
  <2>1. /\ pc[r] = "ack" /\ UNCHANGED srvVars /\ err[r] \subseteq err'[r]
        /\ reply[r] # "succeeded" => "operation" \in err'[r]
    BY <2>0, <1>17 DEF EmitOutcome
  <2>2. \E l \in {"emit", "output", "capture", "flush", "release"} : Goto(r, l)
    <3>1. Advance(r) \/ Abort(r)
      BY <1>17 DEF EmitOutcome
    <3> QED
      BY <3>1 DEF Advance
  <2> QED
    BY <2>1, <2>2
<1>18. CASE Flush(r)
  BY <1>18 DEF Flush
<1>19. CASE Capture(r)
  BY <1>19 DEF Capture
<1>20. CASE Output(r)
  BY <1>20 DEF Output
<1>21. CASE Release(r)
  BY <1>21 DEF Release
<1>22. CASE Crash(r)
  BY <1>22 DEF Crash
<1>23. CASE SessionDies(r)
  BY <1>23 DEF SessionDies
<1>24. CASE Reap(r)
  BY <1>24 DEF Reap
<1>25. CASE Land(r)
  BY <1>25 DEF Land
<1> QED
  BY <1>1, <1>2, <1>3, <1>4, <1>5, <1>6, <1>7, <1>8, <1>9, <1>10, <1>11, <1>12, <1>13,
     <1>14, <1>15, <1>16, <1>17, <1>18, <1>19, <1>20, <1>21, <1>22, <1>23, <1>24, <1>25
     DEF StepOf, Proceed

\* An invocation that has something on its way is told of.
LEMMA OrphanTells ==
    ASSUME Shape, NEW r \in Runners, StepOf(r), orphan[r] # {} => ToldBy(r)
    PROVE  orphan'[r] # {} => ToldBy(r)'
<1>1. CASE orphan[r] # {}
  BY <1>1, ToldStays
<1>2. CASE orphan[r] = {}
  <2>t. DOMAIN pc = Runners /\ DOMAIN reply = Runners /\ DOMAIN orphan = Runners
    BY DEF Shape, TypeOK, RunnerTypeOK, ServerTypeOK
  <2>1. CASE ExecLost(r)
    BY <2>1, <2>t DEF ExecLost, ToldBy, Goto
  <2>2. CASE Crash(r)
    BY <2>2, <2>t DEF Crash, ToldBy, Goto
  <2>3. CASE Reap(r) \/ Land(r)
    BY <2>3, <1>2, <2>t DEF Reap, Land
  <2>4. CASE UNCHANGED orphan
    BY <2>4, <1>2
  <2> QED
    BY <2>1, <2>2, <2>3, <2>4 DEF StepOf, Proceed, Start, Load, Connect, AcquireLock,
       LockTimesOut, LockFails, InspectFails, InspectApply, InspectBaseline, InspectInit,
       InspectRead, CreateInitial, EmitStarted, ExecSucceeds, ExecFails, EmitOutcome, Flush,
       Capture, Output, Release, SessionDies, srvVars
<1> QED
  BY <1>1, <1>2

LEMMA OutputWrites ==
    ASSUME NEW r \in Runners, StepOf(r)
    PROVE  Output(r) \/ UNCHANGED schemaFile
BY DEF StepOf, Proceed, Start, Load, Connect, AcquireLock, LockTimesOut, LockFails,
   InspectFails, InspectApply, InspectBaseline, InspectInit, InspectRead, CreateInitial,
   EmitStarted, ExecSucceeds, ExecFails, ExecLost, EmitOutcome, Flush, Capture, Release, Crash,
   SessionDies, Reap, Land, fsVars

\* A result that says the file was written comes with a file.
LEMMA UpdatedStep ==
    ASSUME Shape, NEW r \in Runners, StepOf(r)
    PROVE  /\ schemaFile # {} => schemaFile' # {}
           /\ result'[r].updated => result[r].updated \/ schemaFile' # {}
<1>t. result \in [Runners -> Outcome]
  BY DEF Shape, TypeOK, RunnerTypeOK
<1>1. schemaFile # {} => schemaFile' # {}
  BY OutputWrites DEF Output
<1>2. CASE Output(r)
  <2>1. UNCHANGED result \/ schemaFile' = {snap[r].objs}
    BY <1>2 DEF Output
  <2> QED
    BY <1>1, <2>1
<1>3. CASE \E s : result' = [result EXCEPT ![r].stack = s]
  BY <1>1, <1>3, <1>t DEF Outcome
<1>4. CASE \E c, s : result' = [result EXCEPT ![r].completed = c, ![r].stack = s]
  BY <1>1, <1>4, <1>t DEF Outcome
<1>5. CASE UNCHANGED result
  BY <1>1, <1>5
<1>6. InspectApply(r) \/ InspectRead(r) => \E s : result' = [result EXCEPT ![r].stack = s]
  BY ApplyCases DEF InspectRead
<1>7. ASSUME ExecSucceeds(r)
      PROVE  UNCHANGED result
                \/ \E c, s : result' = [result EXCEPT ![r].completed = c, ![r].stack = s]
  BY <1>7 DEF ExecSucceeds, Confirm
<1> QED
  BY <1>2, <1>3, <1>4, <1>5, <1>6, <1>7 DEF StepOf, Proceed, Start, Load, Connect, AcquireLock,
     LockTimesOut, LockFails, InspectFails, InspectBaseline, InspectInit, CreateInitial,
     EmitStarted, ExecFails, ExecLost, EmitOutcome, Flush, Capture, Release, Crash, SessionDies,
     Reap, Land, runVars

\* While nothing is to be told, an invocation writes what it has read under the lock.
LEMMA SnapOfStep ==
    ASSUME Shape, NEW r \in Runners, StepOf(r), ~ToldBy(r)', SnapOf(r),
           UNCHANGED schema \/ (ExecSucceeds(r) /\ (job[r].op = "baseline" => UNCHANGED schema))
    PROVE  SnapOf(r)'
<1>t. /\ DOMAIN pc = Runners /\ DOMAIN job = Runners /\ DOMAIN snap = Runners
      /\ DOMAIN err = Runners /\ DOMAIN reply = Runners
  BY DEF Shape, TypeOK, RunnerTypeOK
<1> USE RunnersAssumption, <1>t DEF SnapOf, AtOperation, Goto, Abort, Current,
      fsVars, dbVars, srvVars, jobVars, runVars
<1>1. CASE Start(r)
  BY <1>1 DEF Start
<1>2. CASE Load(r)
  BY <1>2 DEF Load
<1>3. CASE Connect(r)
  BY <1>3 DEF Connect
<1>4. CASE AcquireLock(r)
  BY <1>4 DEF AcquireLock
<1>5. CASE LockTimesOut(r)
  BY <1>5 DEF LockTimesOut
<1>6. CASE LockFails(r)
  BY <1>6 DEF LockFails
<1>7. CASE InspectFails(r)
  BY <1>7 DEF InspectFails
<1>8. CASE InspectApply(r)
  <2>1. snap'[r] = Current /\ UNCHANGED schema
    BY <1>8 DEF InspectApply
  <2> QED
    BY <2>1
<1>9. CASE InspectBaseline(r)
  <2>1. snap'[r] = Current /\ UNCHANGED schema
    BY <1>9 DEF InspectBaseline
  <2> QED
    BY <2>1
<1>10. CASE InspectInit(r)
  BY <1>10 DEF InspectInit
<1>11. CASE InspectRead(r)
  BY <1>11 DEF InspectRead
<1>12. CASE CreateInitial(r)
  BY <1>12 DEF CreateInitial
<1>13. CASE EmitStarted(r)
  BY <1>13 DEF EmitStarted
<1>14. CASE ExecSucceeds(r)
  BY <1>14 DEF ExecSucceeds
<1>15. CASE ExecFails(r)
  BY <1>15 DEF ExecFails
<1>16. CASE ExecLost(r)
  BY <1>16 DEF ExecLost
<1>17. CASE EmitOutcome(r)
  <2>1. Advance(r) \/ Abort(r)
    BY <1>17 DEF EmitOutcome
  <2>2. /\ UNCHANGED schema /\ UNCHANGED <<job, snap>> /\ pc[r] = "ack"
    BY <1>17 DEF EmitOutcome
  <2> QED
    BY <2>1, <2>2 DEF Advance
<1>18. CASE Flush(r)
  BY <1>18 DEF Flush
<1>19. CASE Capture(r)
  BY <1>19 DEF Capture
<1>20. CASE Output(r)
  BY <1>20 DEF Output
<1>21. CASE Release(r)
  BY <1>21 DEF Release
<1>22. CASE Crash(r)
  BY <1>22 DEF Crash
<1>23. CASE SessionDies(r)
  BY <1>23 DEF SessionDies
<1>24. CASE Reap(r)
  BY <1>24 DEF Reap
<1>25. CASE Land(r)
  <2>1. UNCHANGED runVars /\ UNCHANGED pc
    BY <1>25 DEF Land
  <2>2. UNCHANGED schema
    BY <2>1 DEF ExecSucceeds
  <2> QED
    BY <2>1, <2>2
<1> QED
  BY <1>1, <1>2, <1>3, <1>4, <1>5, <1>6, <1>7, <1>8, <1>9, <1>10, <1>11, <1>12, <1>13,
     <1>14, <1>15, <1>16, <1>17, <1>18, <1>19, <1>20, <1>21, <1>22, <1>23, <1>24, <1>25
     DEF StepOf, Proceed

\* An invocation that will write the snapshot file writes it, or there is something to tell.
LEMMA WritesStep ==
    ASSUME Shape, NEW r \in Runners, StepOf(r), ~ToldBy(r), ~ToldBy(r)', Writes(r), SnapOf(r)
    PROVE  Writes(r)' \/ (schemaFile' = {schema} /\ UNCHANGED schema)
<1>t. /\ pc \in [Runners -> PCs] /\ sess \in [Runners -> Sessions]
      /\ reply \in [Runners -> Replies] /\ err \in [Runners -> SUBSET Failures]
  BY DEF Shape, TypeOK, RunnerTypeOK, ServerTypeOK
<1> USE RunnersAssumption, <1>t DEF Writes, ToldBy, Working, Alive, Goto, Abort, Add,
      fsVars, dbVars, srvVars, jobVars, runVars
<1>1. CASE Start(r)
  BY <1>1 DEF Start
<1>2. CASE Load(r)
  BY <1>2 DEF Load
<1>3. CASE Connect(r)
  BY <1>3 DEF Connect
<1>4. CASE AcquireLock(r)
  BY <1>4 DEF AcquireLock
<1>5. CASE LockTimesOut(r)
  BY <1>5 DEF LockTimesOut
<1>6. CASE LockFails(r)
  BY <1>6 DEF LockFails
<1>7. CASE InspectFails(r)
  BY <1>7 DEF InspectFails
<1>8. CASE InspectApply(r)
  BY <1>8 DEF InspectApply
<1>9. CASE InspectBaseline(r)
  BY <1>9 DEF InspectBaseline
<1>10. CASE InspectInit(r)
  BY <1>10 DEF InspectInit
<1>11. CASE InspectRead(r)
  BY <1>11 DEF InspectRead
<1>12. CASE CreateInitial(r)
  BY <1>12 DEF CreateInitial
<1>13. CASE EmitStarted(r)
  BY <1>13 DEF EmitStarted
<1>14. CASE ExecSucceeds(r)
  BY <1>14 DEF ExecSucceeds
<1>15. CASE ExecFails(r)
  BY <1>15 DEF ExecFails
<1>16. CASE ExecLost(r)
  BY <1>16 DEF ExecLost
<1>17. CASE EmitOutcome(r)
  <2>1. UNCHANGED lockOwner /\ pc[r] = "ack" /\ (Advance(r) \/ Abort(r))
    BY <1>17 DEF EmitOutcome
  <2>2. CASE Advance(r)
    BY <2>1, <2>2 DEF Advance
  <2>3. CASE ~Advance(r)
    <3>1. \E e \in {"operation", "log"} : e \in err'[r]
      BY <1>17, <2>3 DEF EmitOutcome
    <3> QED
      BY <3>1
  <2> QED
    BY <2>2, <2>3
<1>18. CASE Flush(r)
  BY <1>18 DEF Flush
<1>19. CASE Capture(r)
  BY <1>19 DEF Capture
<1>20. CASE Output(r)
  <2>1. snap[r].objs = schema
    BY <1>20 DEF Output, SnapOf
  <2> QED
    BY <1>20, <2>1 DEF Output
<1>21. CASE Release(r)
  BY <1>21 DEF Release
<1>22. CASE Crash(r)
  BY <1>22 DEF Crash
<1>23. CASE SessionDies(r)
  BY <1>23 DEF SessionDies
<1>24. CASE Reap(r)
  BY <1>24 DEF Reap
<1>25. CASE Land(r)
  BY <1>25 DEF Land
<1> QED
  BY <1>1, <1>2, <1>3, <1>4, <1>5, <1>6, <1>7, <1>8, <1>9, <1>10, <1>11, <1>12, <1>13,
     <1>14, <1>15, <1>16, <1>17, <1>18, <1>19, <1>20, <1>21, <1>22, <1>23, <1>24, <1>25
     DEF StepOf, Proceed

SnapshotSound == Shape /\ PlaceInv /\ SnapshotInv

LEMMA SnapshotStep == SnapshotSound /\ [Next]_vars => SnapshotInv'
<1> SUFFICES ASSUME Shape, PlaceInv, SnapshotInv, [Next]_vars PROVE SnapshotInv'
  BY DEF SnapshotSound
<1>1. ASSUME NEW r \in Runners, StepOf(r) PROVE SnapshotInv'
  <2>f. OthersStay(r)
    BY <1>1, Frame
  <2>o. ASSUME NEW q \in Runners \ {r} PROVE ToldBy(q)' <=> ToldBy(q)
    BY <2>f DEF OthersStay, Same, ToldBy, Alive
  <2>1. ASSUME NEW q \in Runners, orphan'[q] # {} PROVE ToldBy(q)'
    <3>1. CASE q = r
      BY <1>1, <2>1, <3>1, OrphanTells DEF SnapshotInv
    <3>2. CASE q # r
      BY <2>1, <2>f, <2>o, <3>2 DEF OthersStay, Same, SnapshotInv
    <3> QED
      BY <3>1, <3>2
  <2>2. ASSUME NEW q \in Runners, result'[q].updated PROVE schemaFile' # {}
    <3>1. q # r => result'[q] = result[q]
      BY <2>f DEF OthersStay, Same
    <3> QED
      BY <1>1, <2>2, <3>1, UpdatedStep DEF SnapshotInv
  <2>3. ASSUME ~Told' PROVE ShownInv' /\ \A q \in Runners : SnapOf(q)'
    <3>1. \A q \in Runners : ~ToldBy(q) /\ ~ToldBy(q)'
      BY <1>1, <2>3, <2>o, ToldStays DEF Told
    <3>2. ShownInv /\ (\A q \in Runners : SnapOf(q)) /\ (\A q \in Runners : orphan[q] = {})
      BY <3>1 DEF SnapshotInv, Told
    <3>3. UNCHANGED schema \/ ExecSucceeds(r)
      <4>1. ~Land(r)
        BY <3>2 DEF Land
      <4> QED
        BY <1>1, <4>1, DatabaseStays DEF dbVars
    <3>4. ExecSucceeds(r) => Writes(r) /\ Writes(r)' /\ UNCHANGED schemaFile
      <4>1. DOMAIN pc = Runners
        BY DEF Shape, TypeOK, RunnerTypeOK
      <4> QED
        BY <4>1 DEF ExecSucceeds, Writes, PlaceInv, LockHeldByWorker, Working, Goto, srvVars,
           fsVars
    <3>5. ASSUME ExecSucceeds(r), job[r].op = "baseline" PROVE UNCHANGED schema
      <4>1. cursor[r].phase \in {"history", "record"}
        <5>1. cursor[r] \in Cursor
          BY DEF Shape, TypeOK, RunnerTypeOK
        <5>2. cursor[r].phase # "sql"
          BY <3>5 DEF ExecSucceeds, Shape, CursorInv, AtOperation
        <5> QED
          BY <5>1, <5>2 DEF Cursor, Phases
      <4>2. Sent(r).phase # "sql"
        BY <4>1 DEF Sent
      <4> QED
        BY <3>5, <4>2 DEF ExecSucceeds, Commit
    <3>6. ASSUME NEW q \in Runners \ {r} PROVE SnapOf(q)'
      <4>1. pc'[q] = pc[q] /\ job'[q] = job[q] /\ snap'[q] = snap[q]
        BY <2>f DEF OthersStay, Same
      <4>2. CASE UNCHANGED schema
        BY <3>2, <4>1, <4>2 DEF SnapOf
      <4>3. CASE ExecSucceeds(r)
        <5>1. pc[q] \notin Working
          <6>1. pc[q] \in Working => lockOwner = q
            BY <3>1 DEF ToldBy, PlaceInv, LockHeldByWorker
          <6>2. lockOwner = r
            BY <3>4, <4>3 DEF Writes
          <6> QED
            BY <6>1, <6>2
        <5> QED
          BY <4>1, <5>1 DEF SnapOf, Working, AtOperation
      <4> QED
        BY <3>3, <4>2, <4>3
    <3>7. SnapOf(r)'
      BY <1>1, <3>1, <3>2, <3>3, <3>5, SnapOfStep
    <3>8. ShownInv'
      <4>1. CASE ExecSucceeds(r)
        BY <3>4, <4>1 DEF ShownInv
      <4>2. CASE UNCHANGED schema /\ schemaFile \in {{}, {schema}}
        <5>1. Output(r) => schemaFile' = {schema} \/ UNCHANGED schemaFile
          BY <3>2 DEF Output, SnapOf
        <5> QED
          BY <1>1, <4>2, <5>1, OutputWrites DEF ShownInv
      <4>3. CASE UNCHANGED schema /\ \E q \in Runners : Writes(q)
        <5>1. PICK q \in Runners : Writes(q)
          BY <4>3
        <5>2. CASE q # r
          <6>1. Writes(q)'
            BY <2>f, <5>1, <5>2 DEF OthersStay, Same, Writes
          <6> QED
            BY <6>1 DEF ShownInv
        <5>3. CASE q = r
          BY <1>1, <3>1, <3>2, <5>1, <5>3, WritesStep DEF ShownInv
        <5> QED
          BY <5>2, <5>3
      <4> QED
        BY <3>2, <3>3, <4>1, <4>2, <4>3 DEF ShownInv
    <3> QED
      BY <3>6, <3>7, <3>8
  <2> QED
    BY <2>1, <2>2, <2>3 DEF SnapshotInv
<1>2. CASE Edit \/ UNCHANGED vars
  <2>1. UNCHANGED <<schemaFile, schema, lockOwner, sess, orphan, pc, job, snap, reply, result, err>>
    BY <1>2 DEF Edit, vars, fsVars, dbVars, srvVars, runVars, jobVars
  <2>2. (Told' <=> Told) /\ (ShownInv' <=> ShownInv)
    BY <2>1 DEF Told, ToldBy, Alive, ShownInv, Writes
  <2>3. \A q \in Runners : (SnapOf(q)' <=> SnapOf(q)) /\ (ToldBy(q)' <=> ToldBy(q))
    BY <2>1 DEF SnapOf, ToldBy, Alive
  <2> QED
    BY <2>1, <2>2, <2>3 DEF SnapshotInv
<1> QED
  BY <1>1, <1>2, StepCases

\* Once everything is quiet after a success, schema.sql shows the database, or an
\* invocation crashed or returned an error that tells the operator: for any number
\* of invocations, sessions lost at any point and operations that land late.
THEOREM StaleIsReported == Spec => []StaleSnapshotIsReported
<1>1. Init => SnapshotInv
  BY DEF Init, SnapshotInv, ShownInv, SnapOf, NoResult, AtOperation
<1>2. SnapshotInv => StaleSnapshotIsReported
  <2> SUFFICES ASSUME SnapshotInv, Quiet, schemaFile # {schema}, NEW r \in Runners,
                      pc[r] = "done", result[r].updated
               PROVE  \E q \in Runners : \/ pc[q] = "crashed"
                                         \/ err[q] \cap {"operation", "log", "snapshot",
                                                         "release"} # {}
    BY DEF StaleSnapshotIsReported
  <2>1. Told
    BY DEF SnapshotInv, ShownInv, Writes, Quiet
  <2> QED
    BY <2>1 DEF Told, ToldBy, Quiet, Working
<1>3. LedgerInv => Shape /\ PlaceInv
  BY DEF LedgerInv
<1> QED
  BY <1>1, <1>2, <1>3, LedgerInvariant, SnapshotStep, PTL DEF Spec, SnapshotSound

---------------------------------------------------------------------------
LEMMA SentOfStep ==
    ASSUME Shape, PlaceInv, NEW r \in Runners, StepOf(r), SentOf(r)
    PROVE  SentOf(r)'
<1>t. /\ DOMAIN pc = Runners /\ DOMAIN job = Runners /\ DOMAIN plan = Runners
      /\ DOMAIN cursor = Runners /\ DOMAIN sent = Runners /\ DOMAIN log = Runners
  BY DEF Shape, TypeOK, RunnerTypeOK
<1>c. cursor[r].step \in Nat /\ cursor[r].stmt \in Nat /\ cursor[r].phase \in Phases
  BY DEF Shape, TypeOK, RunnerTypeOK, Cursor
<1>p. PhaseOf(r)
  BY DEF PlaceInv
<1>e. plan[r] = <<>> => \A i, k \in Nat : ~InPlan(r, i, k)
  BY EmptySeq DEF InPlan
<1> USE RunnersAssumption, <1>t DEF SentOf, InPlan, Behind, IsAt, Applying, Goto, Abort,
      fsVars, dbVars, srvVars, jobVars, runVars
<1>1. CASE Start(r)
  BY <1>1 DEF Start
<1>2. CASE Load(r)
  BY <1>2 DEF Load
<1>3. CASE Connect(r)
  BY <1>3 DEF Connect
<1>4. CASE AcquireLock(r)
  BY <1>4 DEF AcquireLock
<1>5. CASE LockTimesOut(r)
  BY <1>5 DEF LockTimesOut
<1>6. CASE LockFails(r)
  BY <1>6 DEF LockFails
<1>7. CASE InspectFails(r)
  BY <1>7 DEF InspectFails
<1>8. CASE InspectApply(r)
  <2>1. /\ UNCHANGED <<sent, log, job>> /\ pc[r] = "inspect"
    BY <1>8 DEF InspectApply
  <2>2. /\ \E l \in {"release", "output", "emit", "flush"} : Goto(r, l)
        /\ Applying(r) /\ pc'[r] \in {"output", "emit"} =>
              plan'[r] = <<>> \/ cursor'[r] = At(FirstPhase(r), 1, 1)
    BY <1>8, ApplyCases
  <2>3. Applying(r) => At(FirstPhase(r), 1, 1).phase \in {"history", "sql"}
                       /\ At(FirstPhase(r), 1, 1).step = 1 /\ At(FirstPhase(r), 1, 1).stmt = 1
    BY DEF At, FirstPhase
  <2>4. pc'[r] \in {"release", "output", "emit", "flush"}
    BY <2>2
  <2>5. plan'[r] = <<>> => \A i, k \in Nat : ~InPlan(r, i, k)'
    BY EmptySeq DEF InPlan
  <2> QED
    BY <2>1, <2>2, <2>3, <2>4, <2>5
<1>9. CASE InspectBaseline(r)
  BY <1>9 DEF InspectBaseline
<1>10. CASE InspectInit(r)
  BY <1>10 DEF InspectInit
<1>11. CASE InspectRead(r)
  BY <1>11 DEF InspectRead
<1>12. CASE CreateInitial(r)
  BY <1>12, <1>e, <1>p DEF CreateInitial, PhaseOf
<1>13. CASE EmitStarted(r)
  BY <1>13 DEF EmitStarted
<1>14. CASE ExecSucceeds(r)
  BY <1>14, <1>c DEF ExecSucceeds, MarkSent, Add, Position
<1>15. CASE ExecFails(r)
  BY <1>15, <1>c DEF ExecFails, MarkSent, Add, Position
<1>16. CASE ExecLost(r)
  BY <1>16, <1>c DEF ExecLost, MarkSent, Add, Position
<1>17. CASE EmitOutcome(r)
  <2>1. /\ UNCHANGED <<sent, job, plan>> /\ pc[r] = "ack"
        /\ Advance(r) \/ (Abort(r) /\ UNCHANGED cursor)
    BY <1>17 DEF EmitOutcome
  <2>2. ASSUME Advance(r), Applying(r), NEW i \in Nat, NEW k \in Nat, InPlan(r, i, k)
        PROVE  <<i, k>> \in sent'[r] <=> Behind(r, i, k)'
    <3>0. <<i, k>> \in sent[r] <=> Behind(r, i, k) \/ IsAt(r, i, k)
      BY <2>1, <2>2
    <3>1. CASE cursor[r].phase = "history"
      <4>1. cursor'[r] = [cursor[r] EXCEPT !.phase = "sql"]
        BY <2>2, <3>1 DEF Advance
      <4>2. cursor[r].stmt \in {0, 1} /\ cursor[r] \in Cursor
        BY <3>1, <1>p DEF PhaseOf, Shape, TypeOK, RunnerTypeOK
      <4>3. cursor'[r].phase = "sql" /\ cursor'[r].step = cursor[r].step
            /\ cursor'[r].stmt = cursor[r].stmt
        BY <4>1, <4>2 DEF Cursor
      <4> QED
        BY <2>1, <2>2, <3>0, <3>1, <4>2, <4>3, <1>c
    <3>2. CASE cursor[r].phase = "sql"
      <4>1. Len(Statements(r)) \in Nat /\ (i = cursor[r].step => k <= Len(Statements(r)))
        <5>1. Len(Statements(r)) \in Nat
          BY <2>1, AtStep, LenProperties DEF AtOperation
        <5> QED
          BY <2>2, <5>1 DEF Statements
      <4>2. \/ cursor'[r] = At("sql", cursor[r].step, cursor[r].stmt + 1)
            \/ /\ cursor'[r] = At("record", cursor[r].step, 1)
               /\ ~(cursor[r].stmt < Len(Statements(r)))
        BY <2>2, <3>2 DEF Advance, AfterSQL
      <4> QED
        BY <2>1, <3>0, <3>2, <4>1, <4>2, <1>c DEF At
    <3>3. CASE cursor[r].phase = "record"
      BY <2>1, <2>2, <3>0, <3>3 DEF Advance
    <3> QED
      BY <3>1, <3>2, <3>3, <1>c DEF Phases
  <2>3. pc'[r] \in {"emit", "output", "capture", "flush", "release"}
        /\ (pc'[r] \in {"emit", "output", "capture"} => Advance(r))
    BY <2>1 DEF Advance
  <2> QED
    BY <2>1, <2>2, <2>3
<1>18. CASE Flush(r)
  BY <1>18 DEF Flush
<1>19. CASE Capture(r)
  BY <1>19 DEF Capture
<1>20. CASE Output(r)
  <2>1. pc[r] = "output" /\ UNCHANGED <<job, plan, sent, log>> /\ pc'[r] \in {"emit", "release", "flush"}
    BY <1>20 DEF Output
  <2>2. ASSUME pc'[r] = "emit", Applying(r), NEW i \in Nat, NEW k \in Nat, InPlan(r, i, k)
        PROVE  <<i, k>> \in sent[r] <=> Behind(r, i, k)'
    <3>1. cursor[r].phase = "record"
      BY <2>1, <2>2, <1>p, <1>e DEF PhaseOf
    <3>2. cursor'[r] = At("sql", cursor[r].step + 1, 1)
      BY <2>2, <1>20 DEF Output
    <3>3. <<i, k>> \in sent[r] <=> i < cursor[r].step \/ i = cursor[r].step
      BY <2>1, <2>2, <3>1
    <3>4. k # 0
      BY <2>2
    <3> QED
      BY <3>2, <3>3, <3>4, <1>c DEF At
  <2> QED
    BY <2>1, <2>2
<1>21. CASE Release(r)
  BY <1>21 DEF Release
<1>22. CASE Crash(r)
  BY <1>22 DEF Crash
<1>23. CASE SessionDies(r)
  BY <1>23 DEF SessionDies
<1>24. CASE Reap(r)
  BY <1>24 DEF Reap
<1>25. CASE Land(r)
  BY <1>25 DEF Land
<1> QED
  BY <1>1, <1>2, <1>3, <1>4, <1>5, <1>6, <1>7, <1>8, <1>9, <1>10, <1>11, <1>12, <1>13,
     <1>14, <1>15, <1>16, <1>17, <1>18, <1>19, <1>20, <1>21, <1>22, <1>23, <1>24, <1>25
     DEF StepOf, Proceed

\* A step that adds no fate, outside the window of an operation in flight.
LEMMA FateKeeps ==
    ASSUME NEW r \in Runners, FateOf(r),
           job'[r] = job[r], plan'[r] = plan[r], sent'[r] = sent[r], log'[r] = log[r],
           err[r] \subseteq err'[r],
           \/ pc[r] \notin {"ack", "release", "done", "crashed"}
                 /\ pc'[r] \notin {"ack", "release", "done"}
           \/ pc[r] \in {"release", "done"} /\ pc'[r] \in {"release", "done"}
           \/ pc'[r] = pc[r] /\ cursor'[r] = cursor[r]
    PROVE  FateOf(r)'
<1>1. ASSUME NEW i \in Nat, NEW k \in Nat
      PROVE  /\ InPlan(r, i, k)' <=> InPlan(r, i, k)
             /\ Fates(r, i, k)' = Fates(r, i, k)
             /\ \A s : Fate(r, i, k, s)' = Fate(r, i, k, s)
  BY DEF InPlan, Fates, Fate
<1>2. ASSUME NEW i \in Nat, NEW k \in Nat, pc'[r] # "crashed"
      PROVE  Settled(r, i, k)' <=> Settled(r, i, k)
  BY <1>2 DEF Settled, IsAt
<1>3. pc'[r] # "crashed" => pc[r] # "crashed"
  OBVIOUS
<1> QED
  BY <1>1, <1>2, <1>3 DEF FateOf, Applying

\* The same statement of the same file is the same statement of the plan.
LEMMA VersionsDiffer ==
    ASSUME NEW r \in Runners, FilesOf(r), Applying(r), NEW i \in Nat, NEW j \in Nat,
           NEW k \in Nat, NEW l \in Nat, InPlan(r, i, k), j \in 1 .. Len(plan[r]),
           plan[r][i].version = plan[r][j].version
    PROVE  i = j
BY DEF FilesOf, InPlan, Applying

LEMMA FateSent ==
    ASSUME Shape, PlaceInv, NEW r \in Runners, SentOf(r), FateOf(r), pc[r] = "exec",
           pc' = [pc EXCEPT ![r] = "ack"], MarkSent(r),
           UNCHANGED <<job, plan, cursor, log, err>>
    PROVE  FateOf(r)'
<1>t. DOMAIN sent = Runners /\ DOMAIN pc = Runners
  BY DEF Shape, TypeOK, RunnerTypeOK
<1>c. cursor[r].step \in Nat /\ cursor[r].stmt \in Nat
  BY DEF Shape, TypeOK, RunnerTypeOK, Cursor
<1> SUFFICES ASSUME Applying(r), "log" \notin err[r], NEW i \in Nat, NEW k \in Nat,
                    InPlan(r, i, k)
             PROVE  IF Settled(r, i, k)'
                    THEN \E s \in States : Fates(r, i, k)' = {Fate(r, i, k, s)}
                    ELSE Fates(r, i, k)' = {}
  BY DEF FateOf, InPlan, Applying, Fate
<1>0. Fates(r, i, k)' = Fates(r, i, k)
  BY DEF Fates
<1>1. IF Settled(r, i, k) THEN \E s \in States : Fates(r, i, k) = {Fate(r, i, k, s)}
                          ELSE Fates(r, i, k) = {}
  BY DEF FateOf
<1>2. Settled(r, i, k) <=> <<i, k>> \in sent[r]
  BY DEF Settled
<1>3. IsAt(r, i, k) => <<i, k>> \notin sent[r]
  BY <1>c DEF SentOf, Behind, IsAt
<1>4. Settled(r, i, k)' <=> <<i, k>> \in sent'[r] /\ ~IsAt(r, i, k)
  BY <1>t DEF Settled, IsAt
<1>5. <<i, k>> \in sent'[r] <=> <<i, k>> \in sent[r] \/ IsAt(r, i, k)
  <2>1. <<i, k>> = Position(r) <=> i = cursor[r].step /\ k = cursor[r].stmt
    BY DEF Position
  <2> QED
    BY <1>t, <2>1 DEF MarkSent, Add, IsAt
<1> QED
  BY <1>0, <1>1, <1>2, <1>3, <1>4, <1>5

\* An operation that was sent gets its outcome.
LEMMA FateOutcome ==
    ASSUME Shape, PlaceInv, NEW r \in Runners, FilesOf(r), SentOf(r), FateOf(r), EmitOutcome(r)
    PROVE  FateOf(r)'
<1>t. DOMAIN pc = Runners /\ DOMAIN log = Runners /\ DOMAIN err = Runners
  BY DEF Shape, TypeOK, RunnerTypeOK
<1>c. cursor[r].step \in Nat /\ cursor[r].stmt \in Nat
  BY DEF Shape, TypeOK, RunnerTypeOK, Cursor
<1>1. /\ pc[r] = "ack" /\ UNCHANGED <<job, plan, sent>>
      /\ Advance(r) \/ Abort(r)
  BY DEF EmitOutcome, jobVars
<1>2. reply[r] \in {"succeeded", "failed", "unknown"}
  <2>1. reply[r] \in Replies /\ reply[r] \in States
    BY <1>1 DEF Shape, TypeOK, RunnerTypeOK, AnswerInv
  <2> QED
    BY <2>1 DEF Replies, States
<1> SUFFICES ASSUME Applying(r), "log" \notin err'[r], NEW i \in Nat, NEW k \in Nat,
                    InPlan(r, i, k)
             PROVE  IF Settled(r, i, k)'
                    THEN \E s \in States : Fates(r, i, k)' = {Fate(r, i, k, s)}
                    ELSE Fates(r, i, k)' = {}
  BY <1>1 DEF FateOf, InPlan, Applying, Fate
<1>3. log'[r] = log[r] \cup {Event(r, reply[r])} /\ "log" \notin err[r]
  <2>1. PICK written \in BOOLEAN :
           /\ log' \in {Add(log, r, Event(r, reply[r]))} \cup (IF written THEN {} ELSE {log})
           /\ err' = [err EXCEPT ![r] = @ \cup ((IF reply[r] = "succeeded" THEN {} ELSE {"operation"})
                                             \cup (IF written THEN {} ELSE {"log"}))]
    BY DEF EmitOutcome
  <2>2. written
    BY <1>t, <2>1
  <2> QED
    BY <1>t, <2>1, <2>2 DEF Add
<1>4. pc'[r] \notin {"ack", "release", "done"}
  BY <1>t, <1>1 DEF Advance, Abort, Goto, Applying
<1>5. Settled(r, i, k)' <=> <<i, k>> \in sent[r]
  BY <1>1, <1>4 DEF Settled
<1>6. Settled(r, i, k) <=> <<i, k>> \in sent[r] /\ ~IsAt(r, i, k)
  BY <1>1 DEF Settled
<1>7. IF Settled(r, i, k) THEN \E s \in States : Fates(r, i, k) = {Fate(r, i, k, s)}
                          ELSE Fates(r, i, k) = {}
  BY <1>1, <1>3 DEF FateOf
<1>8. CASE IsAt(r, i, k)
  <2>1. <<i, k>> \in sent[r] /\ Fates(r, i, k) = {}
    BY <1>1, <1>6, <1>7, <1>8 DEF SentOf
  <2>2. Event(r, reply[r]) = Fate(r, i, k, reply[r])
    BY <1>8 DEF Event, Fate, IsAt, Version
  <2>3. Fates(r, i, k)' = Fates(r, i, k) \cup {Fate(r, i, k, reply[r])}
    BY <1>1, <1>2, <1>3, <2>2 DEF Fates, Fate
  <2>4. Fates(r, i, k)' = {Fate(r, i, k, reply[r])}
    BY <2>1, <2>3
  <2>5. reply[r] \in States
    BY <1>2 DEF States
  <2> QED
    BY <1>5, <2>1, <2>4, <2>5
<1>9. CASE ~IsAt(r, i, k)
  <2>1. ~(/\ Event(r, reply[r]).phase = "sql"
          /\ Event(r, reply[r]).version = {plan[r][i].version}
          /\ Event(r, reply[r]).stmt = k)
    <3> SUFFICES ASSUME cursor[r].phase = "sql", {Version(r)} = {plan[r][i].version},
                        cursor[r].stmt = k
                 PROVE  FALSE
      BY DEF Event
    <3>1. plan[r][i].version = plan[r][cursor[r].step].version
      BY DEF Version
    <3>2. cursor[r].step \in 1 .. Len(plan[r])
      BY <1>1 DEF Shape, CursorInv, AtOperation
    <3>3. i = cursor[r].step
      BY <1>c, <3>1, <3>2, VersionsDiffer
    <3> QED
      BY <1>9, <3>3 DEF IsAt
  <2>2. Fates(r, i, k)' = Fates(r, i, k)
    BY <1>1, <1>3, <2>1 DEF Fates
  <2> QED
    BY <1>5, <1>6, <1>7, <1>9, <2>2
<1> QED
  BY <1>8, <1>9

\* What was never sent is reported as unexecuted.
LEMMA FateFlush ==
    ASSUME Shape, NEW r \in Runners, FilesOf(r), FateOf(r), Flush(r)
    PROVE  FateOf(r)'
<1>t. DOMAIN pc = Runners /\ DOMAIN log = Runners /\ DOMAIN err = Runners
  BY DEF Shape, TypeOK, RunnerTypeOK
<1>1. pc[r] = "flush" /\ pc'[r] = "release" /\ UNCHANGED <<job, plan, sent>>
  BY <1>t DEF Flush, Goto, jobVars
<1> SUFFICES ASSUME Applying(r), "log" \notin err'[r], NEW i \in Nat, NEW k \in Nat,
                    InPlan(r, i, k)
             PROVE  \E s \in States : Fates(r, i, k)' = {Fate(r, i, k, s)}
  BY <1>1 DEF FateOf, InPlan, Applying, Fate, Settled
<1> DEFINE New == {Unexecuted(r, e) : e \in Unsent(r)}
<1>2. log'[r] = log[r] \cup New /\ "log" \notin err[r]
  <2>1. PICK lost \in SUBSET Unsent(r) :
           /\ log' = [log EXCEPT ![r] = @ \cup {Unexecuted(r, e) : e \in Unsent(r) \ lost}]
           /\ err' = [err EXCEPT ![r] = @ \cup (IF lost = {} THEN {} ELSE {"log"})]
    BY DEF Flush
  <2>2. lost = {}
    BY <1>t, <2>1
  <2> QED
    BY <1>t, <2>1, <2>2
<1>3. Settled(r, i, k) <=> <<i, k>> \in sent[r]
  BY <1>1 DEF Settled
<1>4. IF <<i, k>> \in sent[r] THEN \E s \in States : Fates(r, i, k) = {Fate(r, i, k, s)}
                              ELSE Fates(r, i, k) = {}
  BY <1>1, <1>2, <1>3 DEF FateOf
<1>5. ASSUME NEW e \in Unsent(r)
      PROVE  /\ \E j, l \in Nat : InPlan(r, j, l) /\ e = <<j, l>> /\ e \notin sent[r]
             /\ Unexecuted(r, e) = Fate(r, e[1], e[2], "unexecuted")
  <2>1. PICK j \in DOMAIN plan[r] : e \in {j} \X (1 .. Len(plan[r][j].statements))
    BY DEF Unsent
  <2>2. DOMAIN plan[r] = 1 .. Len(plan[r])
    BY LenProperties DEF Shape, TypeOK, RunnerTypeOK
  <2>3. PICK l \in 1 .. Len(plan[r][j].statements) : e = <<j, l>>
    BY <2>1
  <2>4. j \in Nat /\ l \in Nat /\ InPlan(r, j, l)
    BY <2>2 DEF InPlan
  <2> QED
    BY <2>3, <2>4 DEF Unsent, Unexecuted, Fate
<1>6. <<i, k>> \notin sent[r] => <<i, k>> \in Unsent(r)
  <2>1. i \in DOMAIN plan[r] /\ <<i, k>> \in {i} \X (1 .. Len(plan[r][i].statements))
    BY LenProperties DEF InPlan, Shape, TypeOK, RunnerTypeOK
  <2> QED
    BY <2>1 DEF Unsent
<1>7. ASSUME NEW n \in New, n.version = {plan[r][i].version}, n.stmt = k
      PROVE  n = Fate(r, i, k, "unexecuted") /\ <<i, k>> \notin sent[r]
  <2>1. PICK e \in Unsent(r) : n = Unexecuted(r, e)
    OBVIOUS
  <2>2. PICK j \in Nat, l \in Nat : InPlan(r, j, l) /\ e = <<j, l>> /\ e \notin sent[r]
    BY <1>5
  <2>3. n = Fate(r, j, l, "unexecuted")
    BY <1>5, <2>1, <2>2
  <2>4. plan[r][i].version = plan[r][j].version /\ l = k
    BY <1>7, <2>3 DEF Fate
  <2>5. j = i
    BY <2>2, <2>4, VersionsDiffer DEF InPlan
  <2> QED
    BY <2>2, <2>3, <2>4, <2>5
<1>8. CASE <<i, k>> \in sent[r]
  <2>1. Fates(r, i, k)' = Fates(r, i, k)
    <3>1. \A n \in New : ~(n.version = {plan[r][i].version} /\ n.stmt = k)
      BY <1>7, <1>8
    <3> HIDE DEF New
    <3> QED
      BY <1>1, <1>2, <3>1 DEF Fates
  <2> QED
    BY <1>4, <1>8, <2>1
<1>9. CASE <<i, k>> \notin sent[r]
  <2>1. Fate(r, i, k, "unexecuted") \in New
    <3>1. Unexecuted(r, <<i, k>>) = Fate(r, i, k, "unexecuted")
      BY DEF Unexecuted, Fate
    <3> QED
      BY <1>6, <1>9, <3>1
  <2>2. \A n \in New : n.version = {plan[r][i].version} /\ n.stmt = k
                          => n = Fate(r, i, k, "unexecuted")
    BY <1>7
  <2>3. Fates(r, i, k) = {}
    BY <1>4, <1>9
  <2> HIDE DEF New
  <2>4. Fates(r, i, k)' = {Fate(r, i, k, "unexecuted")}
    <3> DEFINE u == Fate(r, i, k, "unexecuted")
    <3>1. u.phase = "sql" /\ u.version = {plan[r][i].version} /\ u.stmt = k /\ u.state # "started"
      BY DEF Fate
    <3> HIDE DEF u
    <3> QED
      BY <1>1, <1>2, <2>1, <2>2, <2>3, <3>1 DEF Fates, u
  <2>5. "unexecuted" \in States
    BY DEF States
  <2> QED
    BY <2>4, <2>5
<1> QED
  BY <1>8, <1>9

LEMMA FateOfStep ==
    ASSUME Shape, PlaceInv, NEW r \in Runners, StepOf(r), FilesOf(r), SentOf(r), FateOf(r)
    PROVE  FateOf(r)'
<1>t. /\ DOMAIN pc = Runners /\ DOMAIN job = Runners /\ DOMAIN plan = Runners
      /\ DOMAIN cursor = Runners /\ DOMAIN sent = Runners /\ DOMAIN log = Runners
      /\ DOMAIN err = Runners
  BY DEF Shape, TypeOK, RunnerTypeOK
<1>p. pc[r] \in {"start", "load", "connect", "lock", "inspect", "create"} => plan[r] = <<>>
  BY DEF PlaceInv, PhaseOf
<1>e. plan'[r] = <<>> => FateOf(r)'
  BY EmptySeq DEF FateOf, InPlan
<1>j. ~Applying(r)' => FateOf(r)'
  BY DEF FateOf
<1> USE RunnersAssumption, <1>t DEF Goto, Abort, Add, fsVars, dbVars, srvVars, jobVars, runVars
<1>1. CASE Start(r)
  BY <1>1, <1>p, <1>e DEF Start
<1>2. CASE Load(r)
  BY <1>2, <1>p, <1>e DEF Load
<1>3. CASE Connect(r)
  BY <1>3, <1>p, <1>e DEF Connect
<1>4. CASE AcquireLock(r)
  BY <1>4, <1>p, <1>e DEF AcquireLock
<1>5. CASE LockTimesOut(r)
  BY <1>5, <1>p, <1>e DEF LockTimesOut
<1>6. CASE LockFails(r)
  BY <1>6, <1>p, <1>e DEF LockFails
<1>7. CASE InspectFails(r)
  BY <1>7, <1>p, <1>e DEF InspectFails
<1>8. CASE InspectApply(r)
  <2>1. /\ UNCHANGED <<sent, log, job>> /\ pc[r] = "inspect"
    BY <1>8 DEF InspectApply
  <2>2. /\ pc'[r] \in {"release", "output", "emit", "flush"}
        /\ Applying(r) /\ pc'[r] = "release" => UNCHANGED plan
    <3>1. /\ \E l \in {"release", "output", "emit", "flush"} : Goto(r, l)
          /\ Applying(r) /\ pc'[r] = "release" => UNCHANGED plan
      BY <1>8, ApplyCases DEF Applying
    <3> QED
      BY <3>1
  <2>3. sent[r] = {} /\ log[r] = {}
    BY <2>1 DEF SentOf
  <2>4. CASE pc'[r] = "release"
    BY <2>1, <2>2, <2>4, <1>p, <1>e, <1>j DEF Applying
  <2>5. CASE pc'[r] # "release"
    BY <2>1, <2>2, <2>3, <2>5 DEF FateOf, Settled, Fates
  <2> QED
    BY <2>4, <2>5
<1>9. CASE InspectBaseline(r)
  BY <1>9, <1>j DEF InspectBaseline, Applying
<1>10. CASE InspectInit(r)
  BY <1>10, <1>p, <1>e DEF InspectInit
<1>11. CASE InspectRead(r)
  BY <1>11, <1>p, <1>e DEF InspectRead
<1>12. CASE CreateInitial(r)
  BY <1>12, <1>p, <1>e DEF CreateInitial
<1>13. CASE EmitStarted(r)
  <2>1. /\ UNCHANGED <<job, plan, sent>> /\ pc[r] = "emit"
        /\ "log" \notin err'[r] => /\ pc'[r] = "exec" /\ UNCHANGED err
                                   /\ log'[r] = log[r] \cup {Event(r, "started")}
    BY <1>13 DEF EmitStarted
  <2>2. ASSUME "log" \notin err'[r], NEW i \in Nat, NEW k \in Nat
        PROVE  Fates(r, i, k)' = Fates(r, i, k)
    <3>1. Event(r, "started").state = "started"
      BY DEF Event
    <3> QED
      BY <2>1, <2>2, <3>1 DEF Fates
  <2>3. ASSUME "log" \notin err'[r], NEW i \in Nat, NEW k \in Nat
        PROVE  Settled(r, i, k)' <=> Settled(r, i, k)
    BY <2>1, <2>3 DEF Settled
  <2> QED
    BY <2>1, <2>2, <2>3 DEF FateOf, Applying, InPlan, Fate
<1>14. CASE ExecSucceeds(r)
  BY <1>14, FateSent DEF ExecSucceeds
<1>15. CASE ExecFails(r)
  BY <1>15, FateSent DEF ExecFails
<1>16. CASE ExecLost(r)
  BY <1>16, FateSent DEF ExecLost
<1>17. CASE EmitOutcome(r)
  BY <1>17, FateOutcome
<1>18. CASE Flush(r)
  BY <1>18, FateFlush
<1>19. CASE Capture(r)
  BY <1>19, FateKeeps DEF Capture
<1>20. CASE Output(r)
  <2>1. /\ pc[r] = "output" /\ UNCHANGED <<job, plan, sent, log>> /\ err[r] \subseteq err'[r]
        /\ Applying(r) => pc'[r] \in {"emit", "release", "flush"}
        /\ Applying(r) /\ pc'[r] = "release" => ~(cursor[r].step < Len(plan[r]))
    BY <1>20 DEF Output, Applying
  <2>2. CASE Applying(r) /\ pc'[r] = "release"
    <3>1. ASSUME NEW i \in Nat, NEW k \in Nat, InPlan(r, i, k) PROVE <<i, k>> \in sent[r]
      <4>1. plan[r] # <<>>
        BY <3>1, EmptySeq DEF InPlan
      <4>2. cursor[r].phase = "record" /\ cursor[r].step \in 1 .. Len(plan[r])
        BY <2>1, <2>2, <4>1 DEF PlaceInv, PhaseOf, Applying
      <4>3. i < cursor[r].step \/ i = cursor[r].step
        <5>1. Len(plan[r]) \in Nat
          BY LenProperties DEF Shape, TypeOK, RunnerTypeOK
        <5> QED
          BY <2>1, <2>2, <3>1, <4>2, <5>1 DEF InPlan
      <4> QED
        BY <2>1, <2>2, <3>1, <4>2, <4>3 DEF SentOf, Behind
    <3>2. ASSUME NEW i \in Nat, NEW k \in Nat, InPlan(r, i, k)
          PROVE  Settled(r, i, k) /\ Settled(r, i, k)'
      BY <2>1, <2>2, <3>1, <3>2 DEF Settled
    <3> QED
      BY <2>1, <2>2, <3>2 DEF FateOf, Applying, InPlan, Fates, Fate
  <2>3. CASE Applying(r) /\ pc'[r] # "release"
    BY <2>1, <2>3, FateKeeps
  <2> QED
    BY <2>1, <2>2, <2>3, <1>j DEF Applying
<1>21. CASE Release(r)
  BY <1>21, FateKeeps DEF Release
<1>22. CASE Crash(r)
  BY <1>22 DEF Crash, FateOf
<1>23. CASE SessionDies(r)
  BY <1>23, FateKeeps DEF SessionDies
<1>24. CASE Reap(r)
  BY <1>24, FateKeeps DEF Reap
<1>25. CASE Land(r)
  BY <1>25, FateKeeps DEF Land
<1> QED
  BY <1>1, <1>2, <1>3, <1>4, <1>5, <1>6, <1>7, <1>8, <1>9, <1>10, <1>11, <1>12, <1>13,
     <1>14, <1>15, <1>16, <1>17, <1>18, <1>19, <1>20, <1>21, <1>22, <1>23, <1>24, <1>25
     DEF StepOf, Proceed

LEMMA ReportStep == Shape /\ PlaceInv /\ FilesInv /\ ReportInv /\ [Next]_vars => ReportInv'
<1> SUFFICES ASSUME Shape, PlaceInv, FilesInv, ReportInv, [Next]_vars PROVE ReportInv'
  OBVIOUS
<1>1. ASSUME NEW r \in Runners, StepOf(r) PROVE ReportInv'
  <2>1. ASSUME NEW q \in Runners \ {r} PROVE SentOf(q)' /\ FateOf(q)'
    <3>1. /\ pc'[q] = pc[q] /\ job'[q] = job[q] /\ plan'[q] = plan[q] /\ cursor'[q] = cursor[q]
          /\ sent'[q] = sent[q] /\ err'[q] = err[q] /\ log'[q] = log[q]
      BY <1>1, Frame DEF OthersStay, Same
    <3>2. SentOf(q)'
      BY <3>1 DEF ReportInv, SentOf, Applying, InPlan, Behind, IsAt
    <3> QED
      BY <3>1, <3>2, FateKeeps DEF ReportInv
  <2>2. SentOf(r)' /\ FateOf(r)'
    BY <1>1, SentOfStep, FateOfStep DEF ReportInv, FilesInv
  <2> QED
    BY <2>1, <2>2 DEF ReportInv
<1>2. CASE Edit \/ UNCHANGED vars
  <2>1. UNCHANGED <<pc, job, plan, cursor, sent, err, log>>
    BY <1>2 DEF Edit, vars, runVars, jobVars
  <2>2. \A q \in Runners : SentOf(q)'
    BY <2>1 DEF ReportInv, SentOf, Applying, InPlan, Behind, IsAt
  <2>3. \A q \in Runners : FateOf(q)'
    BY <2>1, FateKeeps DEF ReportInv
  <2> QED
    BY <2>2, <2>3 DEF ReportInv
<1> QED
  BY <1>1, <1>2, StepCases

\* The log of a finished up or down gives each statement of its plan exactly one
\* fate, unless the log itself failed: for plans and files of any length, whichever
\* operation failed, was lost or never sent.
THEOREM LogAccounts == Spec => []LogAccountsForPlan
<1>1. Init => ReportInv
  BY EmptySeq DEF Init, ReportInv, SentOf, FateOf, Applying, NoJob
<1>2. Shape /\ ReportInv => LogAccountsForPlan
  <2> SUFFICES ASSUME Shape, ReportInv PROVE LogAccountsForPlan
    OBVIOUS
  <2>1. ASSUME NEW r \in Runners, pc[r] = "done", job[r].op \in {"up", "down"},
               "log" \notin err[r],
               NEW i \in DOMAIN plan[r], NEW k \in DOMAIN plan[r][i].statements
        PROVE  Cardinality({e \in log[r] : /\ e.phase = "sql"
                                           /\ e.version = {plan[r][i].version}
                                           /\ e.stmt = k
                                           /\ e.state # "started"}) = 1
    <3>1. plan[r] \in Seq(Step)
      BY DEF Shape, TypeOK, RunnerTypeOK
    <3>2. i \in 1 .. Len(plan[r]) /\ i \in Nat
      BY <3>1, LenProperties
    <3>3. plan[r][i].statements \in Seq(Statement)
      <4>1. plan[r][i] \in Step
        BY <3>1, <3>2, ElementOfSeq
      <4> QED
        BY <4>1 DEF Step
    <3>4. k \in 1 .. Len(plan[r][i].statements) /\ k \in Nat
      BY <3>3, LenProperties
    <3>5. PICK s \in States : Fates(r, i, k) = {Fate(r, i, k, s)}
      BY <2>1, <3>2, <3>4 DEF ReportInv, FateOf, InPlan, Settled, Applying
    <3>6. Cardinality(Fates(r, i, k)) = 1
      BY <3>5, FS_Singleton
    <3> QED
      BY <3>6 DEF Fates
  <2> QED
    BY <2>1 DEF LogAccountsForPlan
<1>3. LedgerInv => Shape /\ PlaceInv /\ FilesInv
  BY DEF LedgerInv
<1>4. LedgerInv /\ ReportInv /\ [Next]_vars => ReportInv'
  BY <1>3, ReportStep
<1> QED
  BY <1>1, <1>2, <1>3, <1>4, LedgerInvariant, PTL DEF Spec

---------------------------------------------------------------------------
(* What the logs leave open.                                               *)

\* The files a version may have, when Init writes none.
FilesOfVersion(v) == Bodies[v] \cup (IF v \in DOMAIN InitialFiles THEN {InitialFiles[v]} ELSE {})

\* A file's Up creates the objects of its version, its Down drops them, and no
\* other version has them.
FilesCorrespond ==
    /\ "init" \notin Operations
    /\ \A v \in Versions : \A f \in FilesOfVersion(v) :
          /\ \A i \in DOMAIN f.up : f.up[i].op = "create"
          /\ {f.up[i].obj : i \in DOMAIN f.up} = ObjectsOf(v)
          /\ f.down # <<>> => /\ \A i \in DOMAIN f.down : f.down[i].op = "drop"
                              /\ {f.down[i].obj : i \in DOMAIN f.down} = ObjectsOf(v)
    /\ \A v, w \in Versions : v # w => ObjectsOf(v) \cap ObjectsOf(w) = {}

FilesKnown ==
    /\ \A v \in DOMAIN files : files[v] \in FilesOfVersion(v)
    /\ \A r \in Runners : /\ job[r].op # "init" /\ pc[r] # "create"
                          /\ \A v \in DOMAIN loaded[r] : loaded[r][v] \in FilesOfVersion(v)

\* The invocation is at an operation or has left one on its way.
Busy(r) == pc[r] \in AtOperation \/ orphan[r] # {}

RecordEntry(v) == [phase |-> "record", version |-> {v}, stmt |-> 0, state |-> "succeeded"]

\* The log shows SQL of v started.
Began(r, v) == \E e \in log[r] : e.phase = "sql" /\ e.version = {v} /\ e.state = "started"

\* The record of v is done, and the log about to say so.
Confirming(r, v) ==
    /\ pc[r] = "ack" /\ reply[r] = "succeeded" /\ cursor[r].phase = "record"
    /\ Version(r) = v

\* The invocation leaves v open.
Open(r, v) == Began(r, v) /\ RecordEntry(v) \notin log[r] /\ ~Confirming(r, v)

\* The log has the records of the steps that are done.
RecordsOf(r) ==
    \A v \in Versions : RecordEntry(v) \in log[r] =>
        \E i \in 1 .. Len(plan[r]) : /\ plan[r][i].version = v /\ i <= cursor[r].step
                                     /\ i = cursor[r].step => ~Busy(r)

\* SQL is logged before it is sent, and comes before the record.
BeganOf(r) ==
    /\ Applying(r) /\ Busy(r)
    /\ \/ cursor[r].phase = "record"
       \/ cursor[r].phase = "sql" /\ (1 < cursor[r].stmt \/ pc[r] # "emit")
    => Began(r, Version(r))

\* Statement k of the step has been executed.
Reached(r, k) ==
    \/ cursor[r].phase = "record"
    \/ cursor[r].phase = "sql" /\ (k < cursor[r].stmt \/ (k = cursor[r].stmt /\ pc[r] = "ack"))

Effective(s) == IF s.op = "create" THEN s.obj \in schema ELSE s.obj \notin schema

\* What an Apply has executed of its step is so, unless another log leaves the version open.
EffectOf(r) ==
    /\ Applying(r) /\ Alive(r) /\ pc[r] \in AtOperation
    /\ pc[r] = "ack" => reply[r] = "succeeded" /\ cursor[r].phase # "record"
    /\ \A q \in Runners \ {r} : ~Open(q, Version(r))
    => \A k \in 1 .. Len(Statements(r)) : Reached(r, k) => Effective(Statements(r)[k])

\* A Baseline goes on, or its record is on its way.
Based(r) ==
    \/ pc[r] \in AtOperation /\ Alive(r) /\ (pc[r] = "ack" => cursor[r].phase # "record")
    \/ orphan[r] # {} /\ cursor[r].phase = "record"

\* What a Baseline is about to record exists, unless another log leaves the version open.
BaseOf(r) ==
    job[r].op = "baseline" /\ Based(r) /\ (\A q \in Runners \ {r} : ~Open(q, Version(r)))
    => ObjectsOf(Version(r)) \subseteq schema

\* Record and objects of v agree.
Agrees(v) ==
    IF v \in DOMAIN history THEN ObjectsOf(v) \subseteq schema
                            ELSE ObjectsOf(v) \cap schema \subseteq InitialSchema

AgreeInv == \A v \in Versions : (\A r \in Runners : ~Open(r, v)) => Agrees(v)

DivergenceInv ==
    /\ FilesKnown /\ AgreeInv
    /\ \A r \in Runners : RecordsOf(r) /\ BeganOf(r) /\ EffectOf(r) /\ BaseOf(r)

---------------------------------------------------------------------------
LEMMA FilesKnownStep ==
    FilesCorrespond /\ Shape /\ FilesKnown /\ [Next]_vars => FilesKnown'
<1> SUFFICES ASSUME FilesCorrespond, Shape, FilesKnown, [Next]_vars PROVE FilesKnown'
  OBVIOUS
<1>1. ASSUME NEW r \in Runners, StepOf(r) PROVE FilesKnown'
  <2>t. /\ DOMAIN pc = Runners /\ DOMAIN job = Runners /\ job[r] \in Job
        /\ DOMAIN loaded = Runners
    BY DEF Shape, TypeOK, RunnerTypeOK, AreDirectories
  <2>k. pc[r] # "create" /\ job[r].op # "init"
    BY DEF FilesKnown
  <2>1. UNCHANGED files
    BY <1>1, <2>k DEF StepOf, Proceed, Start, Load, Connect, AcquireLock, LockTimesOut,
       LockFails, InspectFails, InspectApply, InspectBaseline, InspectInit, InspectRead,
       CreateInitial, EmitStarted, ExecSucceeds, ExecFails, ExecLost, EmitOutcome, Flush,
       Capture, Output, Release, Crash, SessionDies, Reap, Land, fsVars
  <2>2. job'[r].op # "init"
    <3>1. CASE Start(r)
      BY <2>t, <3>1 DEF Start, FilesCorrespond
    <3>2. CASE ~Start(r)
      BY <1>1, <2>k, <3>2, JobStays DEF Load, InspectInit, InspectApply, InspectBaseline, jobVars
    <3> QED
      BY <3>1, <3>2
  <2>3. loaded'[r] = loaded[r] \/ loaded'[r] = files
    <3>1. CASE Start(r)
      BY <3>1 DEF Start
    <3>2. CASE Load(r)
      BY <2>t, <3>2 DEF Load
    <3>3. CASE UNCHANGED loaded
      BY <3>3
    <3> QED
      BY <1>1, <2>k, <3>1, <3>2, <3>3, JobStays DEF InspectInit, InspectApply, InspectBaseline,
         jobVars
  <2>4. pc'[r] # "create"
    <3>1. ~InspectInit(r)
      BY <2>k DEF InspectInit
    <3>2. InspectApply(r) => \E l \in {"release", "output", "emit", "flush"} : Goto(r, l)
      BY ApplyCases
    <3>3. EmitOutcome(r) => \E l \in {"emit", "output", "capture", "flush", "release"} : Goto(r, l)
      <4>1. EmitOutcome(r) => Advance(r) \/ Abort(r)
        BY DEF EmitOutcome
      <4> QED
        BY <4>1 DEF Advance, Abort
    <3> QED
      BY <1>1, <2>t, <2>k, <3>1, <3>2, <3>3 DEF StepOf, Proceed, Start, Load, Connect,
         AcquireLock, LockTimesOut, LockFails, InspectFails, InspectBaseline, InspectRead,
         CreateInitial, EmitStarted, ExecSucceeds, ExecFails, ExecLost, Flush, Capture, Output,
         Release, Crash, SessionDies, Reap, Land, Goto, Abort
  <2>5. ASSUME NEW q \in Runners \ {r}
        PROVE  pc'[q] = pc[q] /\ job'[q] = job[q] /\ loaded'[q] = loaded[q]
    BY <1>1, Frame DEF OthersStay, Same
  <2> QED
    BY <2>1, <2>2, <2>3, <2>4, <2>5 DEF FilesKnown
<1>2. CASE Edit
  <2>1. UNCHANGED <<pc, job, loaded>>
    BY <1>2 DEF Edit, runVars, jobVars
  <2>2. \A v \in DOMAIN files' : files'[v] \in FilesOfVersion(v)
    <3>1. CASE \E v \in DOMAIN files : files' = Restrict(files, DOMAIN files \ {v})
      BY <3>1 DEF FilesKnown, Restrict
    <3>2. CASE \E v \in Versions : \E b \in Bodies[v] :
               files' = [w \in DOMAIN files \cup {v} |-> IF w = v THEN b ELSE files[w]]
      <4>0. PICK v \in Versions : \E b \in Bodies[v] :
               files' = [w \in DOMAIN files \cup {v} |-> IF w = v THEN b ELSE files[w]]
        BY <3>2
      <4>1. PICK b \in Bodies[v] :
               files' = [w \in DOMAIN files \cup {v} |-> IF w = v THEN b ELSE files[w]]
        BY <4>0
      <4>2. b \in FilesOfVersion(v)
        BY DEF FilesOfVersion
      <4> QED
        BY <4>1, <4>2 DEF FilesKnown
    <3> QED
      BY <1>2, <3>1, <3>2 DEF Edit
  <2> QED
    BY <2>1, <2>2 DEF FilesKnown
<1>3. CASE UNCHANGED vars
  BY <1>3 DEF vars, fsVars, runVars, jobVars, FilesKnown
<1> QED
  BY <1>1, <1>2, <1>3, StepCases

LEMMA BusyPlaced ==
    ASSUME Shape, PlaceInv, NEW r \in Runners, Busy(r)
    PROVE  Placed(r)
<1>1. CASE pc[r] \in AtOperation
  BY <1>1 DEF Shape, CursorInv, Placed, Statements
<1>2. CASE orphan[r] # {}
  BY <1>2 DEF PlaceInv, OrphanOf
<1> QED
  BY <1>1, <1>2 DEF Busy

\* The statements of an Apply all create or all drop, and together they are about
\* the objects of their version.
LEMMA StepFacts ==
    ASSUME FilesCorrespond, Shape, FilesInv, FilesKnown, NEW r \in Runners, Applying(r),
           cursor[r].step \in 1 .. Len(plan[r])
    PROVE  /\ Version(r) \in Versions
           /\ Len(Statements(r)) \in Nat /\ 1 \in 1 .. Len(Statements(r))
           /\ \A k \in 1 .. Len(Statements(r)) :
                 /\ Statements(r)[k].op = IF job[r].op = "up" THEN "create" ELSE "drop"
                 /\ Statements(r)[k].obj \in ObjectsOf(Version(r))
           /\ \A x \in ObjectsOf(Version(r)) : \E k \in 1 .. Len(Statements(r)) :
                 Statements(r)[k].obj = x
<1> DEFINE v == Version(r)
           f == loaded[r][v]
           s == Statements(r)
<1>1. plan[r][cursor[r].step] \in Step /\ cursor[r].step \in 1 .. Len(plan[r])
  BY ElementOfSeq DEF Shape, TypeOK, RunnerTypeOK
<1>2. v \in Versions /\ s \in Seq(Statement)
  BY <1>1 DEF Step, Version, Statements
<1>3. v \in DOMAIN loaded[r] /\ s = SQLOf(job[r].op, f)
  BY DEF FilesInv, FilesOf, Applying, Version, Statements
<1>4. f \in FilesOfVersion(v)
  BY <1>3 DEF FilesKnown
<1>5. s # <<>>
  BY DEF Shape, PlanInv, Applying, Statements
<1>6. DOMAIN s = 1 .. Len(s) /\ Len(s) \in Nat /\ Len(s) # 0
  BY <1>2, <1>5, LenProperties, EmptySeq
<1>7. 1 \in 1 .. Len(s)
  BY <1>6
<1> HIDE DEF v, f, s
<1>8. /\ \A i \in DOMAIN s : s[i].op = IF job[r].op = "up" THEN "create" ELSE "drop"
      /\ {s[i].obj : i \in DOMAIN s} = ObjectsOf(v)
  <2>1. CASE job[r].op = "up"
    <3>1. s = f.up
      BY <1>3, <2>1 DEF SQLOf
    <3>2. /\ \A i \in DOMAIN f.up : f.up[i].op = "create"
          /\ {f.up[i].obj : i \in DOMAIN f.up} = ObjectsOf(v)
      BY <1>2, <1>4 DEF FilesCorrespond
    <3> QED
      BY <2>1, <3>1, <3>2
  <2>2. CASE job[r].op = "down"
    <3>1. s = f.down
      BY <1>3, <2>2 DEF SQLOf
    <3>2. /\ \A i \in DOMAIN f.down : f.down[i].op = "drop"
          /\ {f.down[i].obj : i \in DOMAIN f.down} = ObjectsOf(v)
      BY <1>2, <1>4, <1>5, <3>1 DEF FilesCorrespond
    <3> QED
      BY <2>2, <3>1, <3>2
  <2> QED
    BY <2>1, <2>2 DEF Applying
<1>9. \A k \in 1 .. Len(s) : s[k].op = (IF job[r].op = "up" THEN "create" ELSE "drop")
                             /\ s[k].obj \in ObjectsOf(v)
  BY <1>6, <1>8
<1>10. \A x \in ObjectsOf(v) : \E k \in 1 .. Len(s) : s[k].obj = x
  BY <1>6, <1>8
<1> QED
  BY <1>2, <1>6, <1>7, <1>9, <1>10 DEF v, s

\* At an operation, and as long as it is on its way, the log has no record of the step.
LEMMA NoRecordYet ==
    ASSUME Shape, PlaceInv, NEW r \in Runners, FilesOf(r), RecordsOf(r), Busy(r), Applying(r)
    PROVE  RecordEntry(Version(r)) \notin log[r]
<1>1. cursor[r].step \in 1 .. Len(plan[r])
  BY BusyPlaced DEF Placed
<1>2. Version(r) \in Versions
  <2>1. plan[r][cursor[r].step] \in Step
    BY <1>1, ElementOfSeq DEF Shape, TypeOK, RunnerTypeOK
  <2> QED
    BY <2>1 DEF Step, Version
<1>3. SUFFICES ASSUME RecordEntry(Version(r)) \in log[r] PROVE FALSE
  OBVIOUS
<1>4. PICK i \in 1 .. Len(plan[r]) : /\ plan[r][i].version = Version(r)
                                     /\ i = cursor[r].step => ~Busy(r)
  BY <1>2, <1>3 DEF RecordsOf
<1>5. i = cursor[r].step
  BY <1>1, <1>4 DEF FilesOf, Applying, Version
<1> QED
  BY <1>4, <1>5

LEMMA RecordsKeep ==
    ASSUME NEW r \in Runners, RecordsOf(r), plan'[r] = plan[r],
           cursor'[r].step = cursor[r].step, Busy(r)' => Busy(r),
           \A v \in Versions : RecordEntry(v) \in log'[r] => RecordEntry(v) \in log[r]
    PROVE  RecordsOf(r)'
BY DEF RecordsOf, RecordEntry

LEMMA RecordsOfStep ==
    ASSUME Shape, PlaceInv, NEW r \in Runners, StepOf(r), SentOf(r), RecordsOf(r)
    PROVE  RecordsOf(r)'
<1>t. /\ DOMAIN pc = Runners /\ DOMAIN job = Runners /\ DOMAIN plan = Runners
      /\ DOMAIN cursor = Runners /\ DOMAIN reply = Runners /\ DOMAIN log = Runners
      /\ DOMAIN sess = Runners /\ DOMAIN orphan = Runners /\ DOMAIN loaded = Runners
  BY DEF Shape, TypeOK, RunnerTypeOK, ServerTypeOK, AreDirectories
<1>c. cursor[r] \in Cursor /\ cursor[r].step \in Nat /\ cursor[r].stmt \in Nat
      /\ cursor[r].phase \in Phases
  BY DEF Shape, TypeOK, RunnerTypeOK, Cursor
<1>e. log'[r] = {} => RecordsOf(r)'
  BY DEF RecordsOf
<1>s. pc[r] \in {"start", "load", "connect", "lock", "inspect"} => log[r] = {}
  BY DEF SentOf
<1>o. orphan[r] # {} => Ended(r)
  BY DEF PlaceInv, OrphanOf
<1> USE RunnersAssumption, <1>t DEF Goto, Abort, Add, AtOperation, Busy, fsVars, dbVars, srvVars, jobVars,
      runVars
<1>1. CASE Start(r)
  BY <1>1, <1>e, <1>s DEF Start
<1>2. CASE Load(r)
  BY <1>2, <1>e, <1>s DEF Load
<1>3. CASE Connect(r)
  BY <1>3, <1>e, <1>s DEF Connect
<1>4. CASE AcquireLock(r)
  BY <1>4, <1>e, <1>s DEF AcquireLock
<1>5. CASE LockTimesOut(r)
  BY <1>5, <1>e, <1>s DEF LockTimesOut
<1>6. CASE LockFails(r)
  BY <1>6, <1>e, <1>s DEF LockFails
<1>7. CASE InspectFails(r)
  BY <1>7, <1>e, <1>s DEF InspectFails
<1>8. CASE InspectApply(r)
  BY <1>8, <1>e, <1>s DEF InspectApply
<1>9. CASE InspectBaseline(r)
  BY <1>9, <1>e, <1>s DEF InspectBaseline
<1>10. CASE InspectInit(r)
  BY <1>10, <1>e, <1>s DEF InspectInit
<1>11. CASE InspectRead(r)
  BY <1>11, <1>e, <1>s DEF InspectRead
<1>12. CASE CreateInitial(r)
  BY <1>12, RecordsKeep DEF CreateInitial
<1>13. CASE EmitStarted(r)
  <2>1. pc[r] = "emit" /\ UNCHANGED <<plan, cursor>>
        /\ (log'[r] = log[r] \/ log'[r] = log[r] \cup {Event(r, "started")})
    BY <1>13 DEF EmitStarted
  <2>2. \A v : RecordEntry(v) # Event(r, "started")
    BY DEF RecordEntry, Event
  <2> QED
    BY <2>1, <2>2, RecordsKeep
<1>14. CASE ExecSucceeds(r)
  BY <1>14, RecordsKeep DEF ExecSucceeds
<1>15. CASE ExecFails(r)
  BY <1>15, RecordsKeep DEF ExecFails
<1>16. CASE ExecLost(r)
  BY <1>16, RecordsKeep DEF ExecLost
<1>17. CASE EmitOutcome(r)
  <2>1. /\ pc[r] = "ack" /\ UNCHANGED <<plan, orphan>>
        /\ Advance(r) \/ (Abort(r) /\ UNCHANGED cursor)
        /\ log'[r] = log[r] \/ log'[r] = log[r] \cup {Event(r, reply[r])}
    BY <1>17 DEF EmitOutcome
  <2>2. cursor'[r].step = cursor[r].step
    BY <2>1, <1>c DEF Advance, AfterSQL, At, Cursor
  <2>3. CASE \E v \in Versions : RecordEntry(v) \in log'[r] /\ RecordEntry(v) \notin log[r]
    <3>1. PICK v \in Versions : RecordEntry(v) = Event(r, reply[r])
      BY <2>1, <2>3
    <3>2. reply[r] = "succeeded" /\ cursor[r].phase = "record" /\ {v} = {Version(r)}
      BY <3>1 DEF RecordEntry, Event
    <3>3. ~Busy(r)'
      <4>1. pc'[r] \notin AtOperation
        BY <2>1, <3>2 DEF Advance
      <4>2. orphan'[r] = {}
        BY <2>1, <3>2, <1>o DEF Ended
      <4> QED
        BY <4>1, <4>2
    <3>4. cursor[r].step \in 1 .. Len(plan[r]) /\ plan[r][cursor[r].step].version = v
      BY <2>1, <3>2 DEF Shape, CursorInv, Version
    <3>5. ASSUME NEW w \in Versions, RecordEntry(w) \in log'[r], RecordEntry(w) \notin log[r]
          PROVE  w = v
      <4>1. RecordEntry(w) = Event(r, reply[r])
        BY <2>1, <3>5
      <4> QED
        BY <3>1, <4>1 DEF RecordEntry
    <3>6. cursor[r].step <= cursor'[r].step
      BY <1>c, <2>2
    <3>7. ASSUME NEW w \in Versions, RecordEntry(w) \in log'[r]
          PROVE  \E i \in 1 .. Len(plan[r]) : plan[r][i].version = w /\ i <= cursor'[r].step
      BY <2>2, <3>4, <3>5, <3>6, <3>7 DEF RecordsOf
    <3> QED
      BY <2>1, <3>3, <3>7 DEF RecordsOf, RecordEntry
  <2>4. CASE \A v \in Versions : RecordEntry(v) \in log'[r] => RecordEntry(v) \in log[r]
    BY <2>1, <2>2, <2>4, RecordsKeep
  <2> QED
    BY <2>3, <2>4
<1>18. CASE Flush(r)
  <2>1. pc[r] = "flush" /\ pc'[r] = "release" /\ UNCHANGED <<plan, cursor, orphan>>
    BY <1>18 DEF Flush
  <2>2. \A e \in log'[r] : e \in log[r] \/ \E p : e = Unexecuted(r, p)
    BY <1>18 DEF Flush
  <2>3. ASSUME NEW v, NEW p PROVE RecordEntry(v) # Unexecuted(r, p)
    BY DEF RecordEntry, Unexecuted
  <2>4. \A v \in Versions : RecordEntry(v) \in log'[r] => RecordEntry(v) \in log[r]
    BY <2>2, <2>3
  <2> QED
    BY <2>1, <2>4, RecordsKeep
<1>19. CASE Capture(r)
  BY <1>19, RecordsKeep DEF Capture
<1>20. CASE Output(r)
  <2>1. pc[r] = "output" /\ UNCHANGED <<plan, log, orphan>>
    BY <1>20 DEF Output
  <2>2. CASE UNCHANGED cursor /\ pc'[r] \notin AtOperation
    BY <2>1, <2>2, RecordsKeep
  <2>3. CASE cursor'[r].step = cursor[r].step + 1
    <3>1. ASSUME NEW i \in Nat, i <= cursor[r].step
          PROVE  i <= cursor'[r].step /\ i # cursor'[r].step
      BY <2>3, <3>1, <1>c
    <3>2. \A i \in 1 .. Len(plan[r]) : i \in Nat
      OBVIOUS
    <3> QED
      BY <2>1, <3>1, <3>2 DEF RecordsOf, RecordEntry
  <2> QED
    BY <1>20, <2>2, <2>3 DEF Output, At
<1>21. CASE Release(r)
  BY <1>21, RecordsKeep DEF Release
<1>22. CASE Crash(r)
  <2>1. Busy(r)' => Busy(r)
    BY <1>22 DEF Crash
  <2> QED
    BY <1>22, <2>1, RecordsKeep DEF Crash
<1>23. CASE SessionDies(r)
  BY <1>23, RecordsKeep DEF SessionDies
<1>24. CASE Reap(r)
  BY <1>24, RecordsKeep DEF Reap
<1>25. CASE Land(r)
  BY <1>25, RecordsKeep DEF Land
<1> QED
  BY <1>1, <1>2, <1>3, <1>4, <1>5, <1>6, <1>7, <1>8, <1>9, <1>10, <1>11, <1>12, <1>13,
     <1>14, <1>15, <1>16, <1>17, <1>18, <1>19, <1>20, <1>21, <1>22, <1>23, <1>24, <1>25
     DEF StepOf, Proceed

LEMMA BeganKeeps ==
    ASSUME NEW r \in Runners, job'[r] = job[r], plan'[r] = plan[r], cursor'[r] = cursor[r],
           log[r] \subseteq log'[r], BeganOf(r), Busy(r)' => Busy(r),
           pc[r] = "emit" => pc'[r] = "emit" \/ ~Busy(r)'
    PROVE  BeganOf(r)'
BY DEF BeganOf, Began, Applying, Version

LEMMA BeganOfStep ==
    ASSUME Shape, PlaceInv, NEW r \in Runners, StepOf(r), BeganOf(r)
    PROVE  BeganOf(r)'
<1>t. /\ DOMAIN pc = Runners /\ DOMAIN job = Runners /\ DOMAIN plan = Runners
      /\ DOMAIN cursor = Runners /\ DOMAIN reply = Runners /\ DOMAIN log = Runners
      /\ DOMAIN sess = Runners /\ DOMAIN orphan = Runners /\ DOMAIN loaded = Runners
  BY DEF Shape, TypeOK, RunnerTypeOK, ServerTypeOK, AreDirectories
<1>c. cursor[r] \in Cursor /\ cursor[r].step \in Nat /\ cursor[r].stmt \in Nat
      /\ cursor[r].phase \in Phases
  BY DEF Shape, TypeOK, RunnerTypeOK, Cursor
<1>o. orphan[r] # {} => Ended(r)
  BY DEF PlaceInv, OrphanOf
<1>l. log[r] \in SUBSET Entry
  BY DEF Shape, TypeOK, RunnerTypeOK
<1>b. ~Busy(r)' => BeganOf(r)'
  BY DEF BeganOf
<1>f. pc'[r] = "emit" /\ cursor'[r].phase # "record" /\ ~(1 < cursor'[r].stmt) => BeganOf(r)'
  BY DEF BeganOf
<1> USE RunnersAssumption, <1>t DEF Goto, Abort, Add, AtOperation, Busy, fsVars, dbVars, srvVars,
      jobVars, runVars
<1>1. CASE Start(r)
  BY <1>1, <1>b, <1>o DEF Start, Ended
<1>2. CASE Load(r)
  BY <1>2, <1>b, <1>o DEF Load, Ended
<1>3. CASE Connect(r)
  BY <1>3, <1>b, <1>o DEF Connect, Ended
<1>4. CASE AcquireLock(r)
  BY <1>4, <1>b, <1>o DEF AcquireLock, Ended
<1>5. CASE LockTimesOut(r)
  BY <1>5, <1>b, <1>o DEF LockTimesOut, Ended
<1>6. CASE LockFails(r)
  BY <1>6, <1>b, <1>o DEF LockFails, Ended
<1>7. CASE InspectFails(r)
  BY <1>7, <1>b, <1>o DEF InspectFails, Ended
<1>8. CASE InspectApply(r)
  <2>1. pc[r] = "inspect" /\ UNCHANGED <<job, orphan>>
    BY <1>8 DEF InspectApply
  <2>2. /\ \E l \in {"release", "output", "emit", "flush"} : Goto(r, l)
        /\ pc'[r] = "emit" => Applying(r) /\ cursor'[r] = At(FirstPhase(r), 1, 1)
    BY <1>8, ApplyCases DEF Applying
  <2>3. CASE pc'[r] = "emit"
    BY <2>2, <2>3, <1>f DEF At, FirstPhase, Applying
  <2>4. CASE pc'[r] # "emit"
    BY <2>1, <2>2, <2>4, <1>b, <1>o DEF Ended
  <2> QED
    BY <2>3, <2>4
<1>9. CASE InspectBaseline(r)
  <2>1. ~Applying(r)'
    BY <1>9 DEF InspectBaseline, Applying
  <2> QED
    BY <2>1 DEF BeganOf
<1>10. CASE InspectInit(r)
  BY <1>10, <1>b, <1>o DEF InspectInit, Ended
<1>11. CASE InspectRead(r)
  BY <1>11, <1>b, <1>o DEF InspectRead, Ended
<1>12. CASE CreateInitial(r)
  BY <1>12, <1>b, <1>o DEF CreateInitial, Ended
<1>13. CASE EmitStarted(r)
  <2>1. pc[r] = "emit" /\ UNCHANGED <<job, plan, cursor, orphan>> /\ log[r] \subseteq log'[r]
    BY <1>13, <1>l DEF EmitStarted
  <2>2. CASE pc'[r] = "exec"
    <3>1. log'[r] = log[r] \cup {Event(r, "started")}
      BY <1>13, <2>2 DEF EmitStarted
    <3>2. CASE cursor[r].phase = "sql"
      <4>1. /\ Event(r, "started").phase = "sql" /\ Event(r, "started").version = {Version(r)}
            /\ Event(r, "started").state = "started"
        BY <3>2 DEF Event
      <4>2. Version(r)' = Version(r)
        BY <2>1 DEF Version
      <4> QED
        BY <3>1, <4>1, <4>2 DEF BeganOf, Began
    <3>3. CASE cursor[r].phase # "sql"
      BY <2>1, <3>3 DEF BeganOf, Began, Applying, Version
    <3> QED
      BY <3>2, <3>3
  <2>3. CASE pc'[r] # "exec"
    BY <1>13, <2>1, <2>3, <1>b, <1>o DEF EmitStarted, Ended
  <2> QED
    BY <2>2, <2>3
<1>14. CASE ExecSucceeds(r)
  BY <1>14, BeganKeeps DEF ExecSucceeds
<1>15. CASE ExecFails(r)
  BY <1>15, BeganKeeps DEF ExecFails
<1>16. CASE ExecLost(r)
  BY <1>16, BeganKeeps DEF ExecLost
<1>17. CASE EmitOutcome(r)
  <2>1. /\ pc[r] = "ack" /\ UNCHANGED <<job, plan, orphan>> /\ log[r] \subseteq log'[r]
        /\ Advance(r) \/ (Abort(r) /\ UNCHANGED cursor)
    BY <1>17, <1>l DEF EmitOutcome, jobVars
  <2>2. CASE UNCHANGED cursor
    <3>1. Busy(r)' => Busy(r)
      BY <2>1
    <3> QED
      BY <2>1, <2>2, <3>1, BeganKeeps
  <2>3. CASE Advance(r) /\ cursor[r].phase = "history" /\ ~UNCHANGED cursor
    <3>1. cursor[r].stmt \in {0, 1}
      BY <2>3 DEF PlaceInv, PhaseOf
    <3>2. pc'[r] = "emit"
      BY <2>3 DEF Advance
    <3>3. Applying(r)' => cursor'[r] = [cursor[r] EXCEPT !.phase = "sql"]
      BY <2>1, <2>3 DEF Advance, Applying
    <3>4. Applying(r)' => cursor'[r].phase = "sql" /\ cursor'[r].stmt = cursor[r].stmt
      BY <3>3, <1>c DEF Cursor
    <3> QED
      BY <3>1, <3>2, <3>4 DEF BeganOf
  <2>4. CASE Advance(r) /\ cursor[r].phase = "sql"
    <3>1. Applying(r) => Began(r, Version(r))
      BY <2>1, <2>4 DEF BeganOf
    <3>2. cursor'[r].step = cursor[r].step
      BY <2>4 DEF Advance, AfterSQL, At
    <3>3. Version(r)' = Version(r)
      BY <2>1, <3>2 DEF Version
    <3> QED
      BY <2>1, <3>1, <3>3 DEF BeganOf, Began, Applying
  <2> QED
    BY <2>1, <2>2, <2>3, <2>4, <1>c DEF Advance, Phases
<1>18. CASE Flush(r)
  <2>1. log[r] \subseteq log'[r]
    BY <1>18 DEF Flush
  <2> QED
    BY <1>18, <2>1, BeganKeeps DEF Flush
<1>19. CASE Capture(r)
  BY <1>19, BeganKeeps DEF Capture
<1>20. CASE Output(r)
  <2>1. pc[r] = "output" /\ UNCHANGED <<job, plan, log, orphan>>
    BY <1>20 DEF Output
  <2>2. CASE pc'[r] = "emit"
    <3>1. cursor'[r] = At("sql", cursor[r].step + 1, 1)
      BY <1>20, <2>2 DEF Output
    <3> QED
      BY <2>2, <3>1, <1>f DEF At
  <2>3. CASE pc'[r] # "emit"
    BY <1>20, <2>1, <2>3, <1>b, <1>o DEF Output, Ended
  <2> QED
    BY <2>2, <2>3
<1>21. CASE Release(r)
  BY <1>21, BeganKeeps DEF Release
<1>22. CASE Crash(r)
  <2>1. Busy(r)' => Busy(r) /\ (pc[r] = "emit" => ~Busy(r)')
    BY <1>22, <1>o DEF Crash, Ended
  <2> QED
    BY <1>22, <2>1, BeganKeeps DEF Crash
<1>23. CASE SessionDies(r)
  BY <1>23, BeganKeeps DEF SessionDies
<1>24. CASE Reap(r)
  BY <1>24, BeganKeeps DEF Reap
<1>25. CASE Land(r)
  BY <1>25, BeganKeeps DEF Land
<1> QED
  BY <1>1, <1>2, <1>3, <1>4, <1>5, <1>6, <1>7, <1>8, <1>9, <1>10, <1>11, <1>12, <1>13,
     <1>14, <1>15, <1>16, <1>17, <1>18, <1>19, <1>20, <1>21, <1>22, <1>23, <1>24, <1>25
     DEF StepOf, Proceed

LEMMA LogGrows ==
    ASSUME Shape, NEW r \in Runners, StepOf(r)
    PROVE  /\ log[r] \subseteq log'[r]
           /\ \A e \in log'[r] \ log[r] : \/ EmitOutcome(r) /\ e = Event(r, reply[r])
                                          \/ e.state \in {"started", "unexecuted"}
<1>t. DOMAIN log = Runners
  BY DEF Shape, TypeOK, RunnerTypeOK
<1>1. CASE EmitStarted(r)
  <2>1. log'[r] = log[r] \/ log'[r] = log[r] \cup {Event(r, "started")}
    BY <1>1, <1>t DEF EmitStarted, Add
  <2> QED
    BY <2>1 DEF Event
<1>2. CASE EmitOutcome(r)
  <2>1. log'[r] = log[r] \/ log'[r] = log[r] \cup {Event(r, reply[r])}
    BY <1>2, <1>t DEF EmitOutcome, Add
  <2> QED
    BY <1>2, <2>1
<1>3. CASE Flush(r)
  <2>1. PICK new \in SUBSET {Unexecuted(r, e) : e \in Unsent(r)} :
           log' = [log EXCEPT ![r] = @ \cup new]
    BY <1>3 DEF Flush
  <2>2. log'[r] = log[r] \cup new
    BY <1>t, <2>1
  <2>3. \A e \in new : e.state = "unexecuted"
    BY DEF Unexecuted
  <2> QED
    BY <2>2, <2>3
<1>4. CASE UNCHANGED log
  BY <1>4
<1> QED
  BY <1>1, <1>2, <1>3, <1>4 DEF StepOf, Proceed, Start, Load, Connect, AcquireLock,
     LockTimesOut, LockFails, InspectFails, InspectApply, InspectBaseline, InspectInit,
     InspectRead, CreateInitial, ExecSucceeds, ExecFails, ExecLost, Capture, Output, Release,
     Crash, SessionDies, Reap, Land, runVars

\* Only a record that is executed closes what a log leaves open.
LEMMA OpenStays ==
    ASSUME Shape, NEW r \in Runners, StepOf(r), NEW v, Open(r, v)
    PROVE  \/ Open(r, v)'
           \/ ExecSucceeds(r) /\ cursor[r].phase = "record" /\ Version(r) = v
<1>t. DOMAIN pc = Runners /\ DOMAIN reply = Runners
  BY DEF Shape, TypeOK, RunnerTypeOK
<1>1. Began(r, v)'
  BY LogGrows DEF Open, Began
<1>2. RecordEntry(v) \notin log'[r]
  <2> SUFFICES ASSUME RecordEntry(v) \in log'[r] PROVE FALSE
    OBVIOUS
  <2>1. RecordEntry(v).state = "succeeded" /\ RecordEntry(v) \notin log[r]
    BY DEF RecordEntry, Open
  <2>2. EmitOutcome(r) /\ RecordEntry(v) = Event(r, reply[r])
    BY <2>1, LogGrows
  <2>3. reply[r] = "succeeded" /\ cursor[r].phase = "record" /\ Version(r) = v
    BY <2>2 DEF RecordEntry, Event
  <2>4. pc[r] = "ack"
    BY <2>2 DEF EmitOutcome
  <2> QED
    BY <2>3, <2>4 DEF Open, Confirming
<1>3. ASSUME Confirming(r, v)', ~ExecSucceeds(r) PROVE FALSE
  <2>1. pc'[r] = "ack" /\ reply'[r] = "succeeded"
    BY <1>3 DEF Confirming
  <2>2. CASE UNCHANGED <<pc, runVars>>
    BY <1>3, <2>2 DEF Confirming, Open, Version, runVars
  <2>3. InspectApply(r) => \E l \in {"release", "output", "emit", "flush"} : Goto(r, l)
    BY ApplyCases
  <2>4. EmitOutcome(r) => \E l \in {"emit", "output", "capture", "flush", "release"} : Goto(r, l)
    <3>1. EmitOutcome(r) => Advance(r) \/ Abort(r)
      BY DEF EmitOutcome
    <3> QED
      BY <3>1 DEF Advance, Abort
  <2> QED
    BY <1>t, <1>3, <2>1, <2>2, <2>3, <2>4 DEF StepOf, Proceed, Start, Load, Connect,
       AcquireLock, LockTimesOut, LockFails, InspectFails, InspectBaseline, InspectInit,
       InspectRead, CreateInitial, EmitStarted, ExecFails, ExecLost, Flush, Capture, Output,
       Release, Crash, SessionDies, Reap, Land, Goto, Abort
<1>4. ASSUME Confirming(r, v)', ExecSucceeds(r)
      PROVE  cursor[r].phase = "record" /\ Version(r) = v
  BY <1>4 DEF Confirming, ExecSucceeds, Version, jobVars
<1> QED
  BY <1>1, <1>2, <1>3, <1>4 DEF Open

LEMMA OpenOther ==
    ASSUME Shape, NEW r \in Runners, StepOf(r), NEW q \in Runners \ {r}, NEW v
    PROVE  Open(q, v)' <=> Open(q, v)
BY Frame DEF OthersStay, Same, Open, Began, Confirming, Version, RecordEntry

---------------------------------------------------------------------------
(* Records and objects.                                                    *)

\* The operation of the cursor takes effect.
Effect(r) ==
    \/ /\ cursor[r].phase = "history"
       /\ schema' = schema /\ DOMAIN history' = DOMAIN history
    \/ /\ cursor[r].phase = "sql"
       /\ schema' = Executed(schema, Statements(r)[cursor[r].stmt])
       /\ DOMAIN history' = DOMAIN history
    \/ /\ cursor[r].phase = "record"
       /\ schema' = schema
       /\ DOMAIN history' = IF job[r].op = "down" THEN DOMAIN history \ {Version(r)}
                                                  ELSE DOMAIN history \cup {Version(r)}

LEMMA CommitCases ==
    ASSUME Shape, PlaceInv, NEW r \in Runners, Commit(Sent(r))
    PROVE  Effect(r)
<1>1. cursor[r].phase \in Phases
  BY DEF Shape, TypeOK, RunnerTypeOK, Cursor
<1>2. CASE cursor[r].phase = "history"
  <2>1. Sent(r).phase = "history"
    BY <1>2 DEF Sent
  <2> QED
    BY <1>2, <2>1 DEF Commit, Effect
<1>3. CASE cursor[r].phase = "sql"
  <2>1. Sent(r).phase = "sql" /\ Sent(r).stmt = {Statements(r)[cursor[r].stmt]}
    BY <1>3 DEF Sent
  <2>2. schema' = UNION {Executed(schema, s) : s \in {Statements(r)[cursor[r].stmt]}}
        /\ history' = history
    BY <2>1 DEF Commit
  <2>3. UNION {Executed(schema, s) : s \in {Statements(r)[cursor[r].stmt]}}
           = Executed(schema, Statements(r)[cursor[r].stmt])
    OBVIOUS
  <2> QED
    BY <1>3, <2>2, <2>3 DEF Effect
<1>4. CASE cursor[r].phase = "record"
  <2>1. Sent(r).version = {Version(r)}
        /\ Sent(r).phase = IF job[r].op = "down" THEN "delete" ELSE "insert"
    BY <1>4 DEF Sent
  <2>2. schema' = schema
    BY <2>1 DEF Commit
  <2>3. CASE job[r].op = "down"
    <3>1. history' = Restrict(history, DOMAIN history \ {Version(r)})
      BY <2>1, <2>3 DEF Commit
    <3> QED
      BY <1>4, <2>2, <2>3, <3>1 DEF Effect, Restrict
  <2>4. CASE job[r].op # "down"
    <3>1. \E d \in ClockSteps :
             history' = [v \in DOMAIN history \cup {Version(r)} |->
                           IF v \in DOMAIN history THEN history[v] ELSE clock + d]
      BY <2>1, <2>4 DEF Commit
    <3> QED
      BY <1>4, <2>2, <2>4, <3>1 DEF Effect
  <2> QED
    BY <2>3, <2>4
<1> QED
  BY <1>1, <1>2, <1>3, <1>4 DEF Phases

\* What holds of every file and log before a step.
Ready(r) ==
    /\ Shape /\ PlaceInv /\ FilesInv /\ FilesKnown
    /\ RecordsOf(r) /\ BeganOf(r)

\* SQL or a record that takes effect: its version is open, until the record is known.
LEMMA InFlightIsOpen ==
    ASSUME NEW r \in Runners, Ready(r), Applying(r), Busy(r), pc[r] # "emit",
           cursor[r].phase \in {"sql", "record"},
           ~(pc[r] = "ack" /\ reply[r] = "succeeded")
    PROVE  Open(r, Version(r))
<1>1. RecordEntry(Version(r)) \notin log[r]
  BY NoRecordYet DEF Ready, FilesInv
<1>2. Began(r, Version(r))
  BY DEF Ready, BeganOf
<1> QED
  BY <1>1, <1>2 DEF Open, Confirming

\* An effect does not touch the objects of another version.
LEMMA EffectIsOwn ==
    ASSUME FilesCorrespond, NEW r \in Runners, Ready(r), Busy(r), Effect(r),
           NEW v \in Versions, v # Version(r)
    PROVE  /\ \A x \in ObjectsOf(v) : x \in schema' <=> x \in schema
           /\ v \in DOMAIN history' <=> v \in DOMAIN history
<1>1. CASE cursor[r].phase = "sql"
  <2>1. Placed(r)
    BY BusyPlaced DEF Ready
  <2>2. Applying(r) /\ cursor[r].step \in 1 .. Len(plan[r])
        /\ cursor[r].stmt \in 1 .. Len(Statements(r))
    BY <1>1, <2>1 DEF Placed, Applying
  <2>3. Version(r) \in Versions /\ Statements(r)[cursor[r].stmt].obj \in ObjectsOf(Version(r))
    BY <2>2, StepFacts DEF Ready
  <2>4. ObjectsOf(v) \cap ObjectsOf(Version(r)) = {}
    BY <2>3 DEF FilesCorrespond
  <2>5. schema' = Executed(schema, Statements(r)[cursor[r].stmt])
        /\ DOMAIN history' = DOMAIN history
    BY <1>1 DEF Effect
  <2> QED
    BY <2>3, <2>4, <2>5 DEF Executed
<1>2. CASE cursor[r].phase # "sql"
  BY <1>2 DEF Effect
<1> QED
  BY <1>1, <1>2

LEMMA AgreesKept ==
    ASSUME NEW v, Agrees(v), \A x \in ObjectsOf(v) : x \in schema' <=> x \in schema,
           v \in DOMAIN history' <=> v \in DOMAIN history
    PROVE  Agrees(v)'
<1>1. ObjectsOf(v)' = ObjectsOf(v)
  BY DEF ObjectsOf
<1> QED
  BY <1>1 DEF Agrees

\* When the record of an Apply succeeds, the objects are there, or gone.
LEMMA RecordAgrees ==
    ASSUME FilesCorrespond, NEW r \in Runners, Ready(r), ExecSucceeds(r), Effect(r),
           cursor[r].phase = "record", EffectOf(r), BaseOf(r),
           \A q \in Runners \ {r} : ~Open(q, Version(r))
    PROVE  Agrees(Version(r))'
<1> DEFINE v == Version(r)
<1>1. pc[r] = "exec" /\ Alive(r) /\ Busy(r) /\ Placed(r)
  <2>1. pc[r] = "exec" /\ Alive(r) /\ Busy(r)
    BY DEF ExecSucceeds, Busy, AtOperation
  <2> QED
    BY <2>1, BusyPlaced DEF Ready
<1>o. ObjectsOf(v)' = ObjectsOf(v) /\ v' = v
  <2>1. UNCHANGED <<plan, cursor>>
    BY DEF ExecSucceeds
  <2> QED
    BY <2>1 DEF Version, ObjectsOf
<1>2. CASE job[r].op = "baseline"
  <2>1. ObjectsOf(v) \subseteq schema
    BY <1>1, <1>2 DEF BaseOf, Based, AtOperation
  <2>2. schema' = schema /\ v \in DOMAIN history'
    BY <1>2 DEF Effect
  <2> QED
    BY <1>o, <2>1, <2>2 DEF Agrees
<1>3. CASE Applying(r)
  <2>1. cursor[r].step \in 1 .. Len(plan[r])
    BY <1>1 DEF Placed
  <2>2. \A k \in 1 .. Len(Statements(r)) : Effective(Statements(r)[k])
    BY <1>1, <1>3 DEF EffectOf, AtOperation, Reached
  <2>3. schema' = schema
    BY DEF Effect
  <2>4. CASE job[r].op = "up"
    <3>1. ObjectsOf(v) \subseteq schema
      <4>1. ASSUME NEW x \in ObjectsOf(v) PROVE x \in schema
        <5>1. PICK k \in 1 .. Len(Statements(r)) : Statements(r)[k].obj = x
          BY <1>3, <2>1, StepFacts DEF Ready
        <5>2. Statements(r)[k].op = "create"
          BY <1>3, <2>1, <2>4, StepFacts DEF Ready
        <5> QED
          BY <2>2, <5>1, <5>2 DEF Effective
      <4> QED
        BY <4>1
    <3>2. v \in DOMAIN history'
      BY <2>4 DEF Effect
    <3> QED
      BY <1>o, <2>3, <3>1, <3>2 DEF Agrees
  <2>5. CASE job[r].op = "down"
    <3>1. ASSUME NEW x \in ObjectsOf(v) PROVE x \notin schema
      <4>1. PICK k \in 1 .. Len(Statements(r)) : Statements(r)[k].obj = x
        BY <1>3, <2>1, StepFacts DEF Ready
      <4>2. Statements(r)[k].op = "drop"
        BY <1>3, <2>1, <2>5, StepFacts DEF Ready
      <4> QED
        BY <2>2, <4>1, <4>2 DEF Effective
    <3>2. v \notin DOMAIN history'
      BY <2>5 DEF Effect
    <3> QED
      BY <1>o, <2>3, <3>1, <3>2 DEF Agrees
  <2> QED
    BY <1>3, <2>4, <2>5 DEF Applying
<1> QED
  BY <1>1, <1>2, <1>3 DEF Placed, Applying

LEMMA AgreeOfStep ==
    ASSUME FilesCorrespond, NEW r \in Runners, StepOf(r), Ready(r), AgreeInv, EffectOf(r),
           BaseOf(r), NEW v \in Versions, \A q \in Runners : ~Open(q, v)'
    PROVE  Agrees(v)'
<1>s. Shape /\ PlaceInv
  BY DEF Ready
<1>1. \A q \in Runners \ {r} : ~Open(q, v)
  BY <1>s, OpenOther
<1>2. Open(r, v) => ExecSucceeds(r) /\ cursor[r].phase = "record" /\ Version(r) = v
  BY <1>s, OpenStays
<1>3. ~Open(r, v) => Agrees(v)
  BY <1>1 DEF AgreeInv
<1>4. CASE ExecSucceeds(r)
  <2>1. Busy(r) /\ Effect(r)
    BY <1>4, <1>s, CommitCases DEF ExecSucceeds, Busy, AtOperation
  <2>2. CASE v # Version(r)
    BY <1>2, <1>3, <2>1, <2>2, EffectIsOwn, AgreesKept
  <2>3. CASE v = Version(r) /\ cursor[r].phase = "history"
    BY <1>2, <1>3, <2>1, <2>3, AgreesKept DEF Effect
  <2>4. CASE v = Version(r) /\ cursor[r].phase = "record"
    <3>1. \A q \in Runners \ {r} : ~Open(q, Version(r))
      BY <1>1, <2>4
    <3>2. Agrees(Version(r))'
      BY <1>4, <2>1, <2>4, <3>1, RecordAgrees
    <3>3. Version(r)' = v
      BY <1>4, <2>4 DEF ExecSucceeds, Version
    <3> QED
      BY <3>2, <3>3 DEF Agrees, ObjectsOf
  <2>5. CASE v = Version(r) /\ cursor[r].phase = "sql"
    <3>1. Applying(r)
      BY <2>1, <2>5, <1>s, BusyPlaced DEF Placed, Applying
    <3>2. Open(r, v)
      BY <1>4, <2>1, <2>5, <3>1, InFlightIsOpen DEF ExecSucceeds
    <3> QED
      BY <1>2, <2>5, <3>2
  <2> QED
    BY <2>1, <2>2, <2>3, <2>4, <2>5 DEF Effect
<1>5. CASE Land(r)
  <2>0. ~ExecSucceeds(r)
    <3>1. DOMAIN pc = Runners
      BY <1>s DEF Shape, TypeOK, RunnerTypeOK
    <3> QED
      BY <1>5, <3>1 DEF Land, ExecSucceeds, Goto
  <2>1. PICK o \in orphan[r] : IF Accepts(o) THEN Commit(o) ELSE UNCHANGED dbVars
    BY <1>5 DEF Land
  <2>2. o = Sent(r) /\ Ended(r) /\ Busy(r) /\ Placed(r)
    BY <1>s, <2>1 DEF PlaceInv, OrphanOf, Busy
  <2>3. CASE UNCHANGED dbVars
    BY <1>2, <1>3, <2>0, <2>3, AgreesKept DEF dbVars
  <2>4. CASE Effect(r)
    <3>1. CASE v # Version(r)
      BY <1>2, <1>3, <2>0, <2>2, <2>4, <3>1, EffectIsOwn, AgreesKept
    <3>2. CASE v = Version(r) /\ cursor[r].phase = "history"
      BY <1>2, <1>3, <2>0, <2>4, <3>2, AgreesKept DEF Effect
    <3>3. CASE v = Version(r) /\ cursor[r].phase # "history" /\ Applying(r)
      <4>1. pc[r] # "emit" /\ ~(pc[r] = "ack" /\ reply[r] = "succeeded")
        BY <2>2 DEF Ended
      <4>2. cursor[r].phase \in {"sql", "record"}
        BY <2>4, <3>3 DEF Effect
      <4>3. Open(r, v)
        BY <2>2, <3>3, <4>1, <4>2, InFlightIsOpen
      <4> QED
        BY <1>2, <2>0, <4>3
    <3>4. CASE v = Version(r) /\ cursor[r].phase # "history" /\ ~Applying(r)
      <4>1. job[r].op = "baseline" /\ cursor[r].phase = "record"
        BY <2>2, <2>4, <3>4 DEF Placed, Applying, Effect
      <4>2. ObjectsOf(v) \subseteq schema
        BY <1>1, <2>1, <3>4, <4>1 DEF BaseOf, Based
      <4>3. schema' = schema /\ v \in DOMAIN history' /\ ObjectsOf(v)' = ObjectsOf(v)
        BY <2>4, <3>4, <4>1 DEF Effect, ObjectsOf
      <4> QED
        BY <4>2, <4>3 DEF Agrees
    <3> QED
      BY <3>1, <3>2, <3>3, <3>4
  <2> QED
    BY <1>s, <2>1, <2>2, <2>3, <2>4, CommitCases
<1>6. CASE UNCHANGED dbVars /\ ~ExecSucceeds(r)
  BY <1>2, <1>3, <1>6, AgreesKept DEF dbVars
<1> QED
  BY <1>4, <1>5, <1>6, DatabaseStays

---------------------------------------------------------------------------
(* What an invocation has executed, or has found, is so.                   *)

\* Only the acting invocation can close what other invocations find open.
LEMMA OthersOpen ==
    ASSUME Shape, NEW r \in Runners, StepOf(r), ~ExecSucceeds(r), NEW q \in Runners, NEW v,
           \A p \in Runners \ {q} : ~Open(p, v)'
    PROVE  \A p \in Runners \ {q} : ~Open(p, v)
BY OpenStays, OpenOther

LEMMA EffectKeeps ==
    ASSUME NEW r \in Runners, EffectOf(r), job'[r] = job[r], plan'[r] = plan[r],
           cursor'[r].step = cursor[r].step, schema' = schema,
           \A v : (\A q \in Runners \ {r} : ~Open(q, v)') => \A q \in Runners \ {r} : ~Open(q, v),
           Alive(r)' /\ pc'[r] \in AtOperation
               /\ (pc'[r] = "ack" => reply'[r] = "succeeded" /\ cursor'[r].phase # "record") =>
              /\ Alive(r) /\ pc[r] \in AtOperation
              /\ pc[r] = "ack" => reply[r] = "succeeded" /\ cursor[r].phase # "record"
              /\ \A k \in 1 .. Len(Statements(r)) : Reached(r, k)' => Reached(r, k)
    PROVE  EffectOf(r)'
<1>1. Version(r)' = Version(r) /\ Statements(r)' = Statements(r)
  BY DEF Version, Statements
<1>2. Applying(r)' <=> Applying(r)
  BY DEF Applying
<1> SUFFICES ASSUME Applying(r)', Alive(r)', pc'[r] \in AtOperation,
                    pc'[r] = "ack" => reply'[r] = "succeeded" /\ cursor'[r].phase # "record",
                    \A q \in Runners \ {r} : ~Open(q, Version(r))',
                    NEW k \in 1 .. Len(Statements(r)), Reached(r, k)'
             PROVE  Effective(Statements(r)[k])'
  BY <1>1, <1>2 DEF EffectOf
<1>3. \A q \in Runners \ {r} : ~Open(q, Version(r))
  BY <1>1
<1>4. Effective(Statements(r)[k])
  BY <1>2, <1>3 DEF EffectOf
<1> QED
  BY <1>1, <1>4 DEF Effective

LEMMA EffectOfStep ==
    ASSUME FilesCorrespond, NEW r \in Runners, StepOf(r), Ready(r), EffectOf(r)
    PROVE  EffectOf(r)'
<1>s. Shape /\ PlaceInv
  BY DEF Ready
<1>t. /\ DOMAIN pc = Runners /\ DOMAIN job = Runners /\ DOMAIN plan = Runners
      /\ DOMAIN cursor = Runners /\ DOMAIN reply = Runners /\ DOMAIN sess = Runners
      /\ DOMAIN orphan = Runners /\ DOMAIN loaded = Runners
  BY <1>s DEF Shape, TypeOK, RunnerTypeOK, ServerTypeOK, AreDirectories
<1>c. cursor[r] \in Cursor /\ cursor[r].step \in Nat /\ cursor[r].stmt \in Nat
      /\ cursor[r].phase \in Phases
  BY <1>s DEF Shape, TypeOK, RunnerTypeOK, Cursor
<1>o. orphan[r] # {} => Ended(r) /\ sess[r] \in {"broken", "dead"}
  BY <1>s DEF PlaceInv, OrphanOf
<1>d. ExecSucceeds(r) \/ Land(r) \/ schema' = schema
  BY DatabaseStays DEF dbVars
<1>v. \A v : (\A q \in Runners \ {r} : ~Open(q, v)') => \A q \in Runners \ {r} : ~Open(q, v)
  BY <1>s, OpenOther
<1>n. ~(Alive(r)' /\ pc'[r] \in AtOperation
        /\ (pc'[r] = "ack" => reply'[r] = "succeeded" /\ cursor'[r].phase # "record"))
      => EffectOf(r)'
  BY DEF EffectOf
<1>f. Applying(r)' /\ pc'[r] = "emit" /\ (\A k \in Nat \ {0} : ~Reached(r, k)') => EffectOf(r)'
  BY DEF EffectOf
<1>g. ~Applying(r)' => EffectOf(r)'
  BY DEF EffectOf
<1> USE RunnersAssumption, <1>t DEF Goto, Abort, Add, AtOperation, fsVars, dbVars, srvVars, jobVars,
      runVars
<1>1. CASE Start(r)
  BY <1>1, <1>n DEF Start, Alive
<1>2. CASE Load(r)
  BY <1>2, <1>n DEF Load, Alive
<1>3. CASE Connect(r)
  BY <1>3, <1>n DEF Connect, Alive
<1>4. CASE AcquireLock(r)
  BY <1>4, <1>n DEF AcquireLock, Alive
<1>5. CASE LockTimesOut(r)
  BY <1>5, <1>n DEF LockTimesOut, Alive
<1>6. CASE LockFails(r)
  BY <1>6, <1>n DEF LockFails, Alive
<1>7. CASE InspectFails(r)
  BY <1>7, <1>n DEF InspectFails, Alive
<1>8. CASE InspectApply(r)
  <2>1. /\ \E l \in {"release", "output", "emit", "flush"} : Goto(r, l)
        /\ pc'[r] = "emit" => Applying(r) /\ cursor'[r] = At(FirstPhase(r), 1, 1)
    BY <1>8, ApplyCases DEF Applying
  <2>2. CASE pc'[r] = "emit"
    <3>1. cursor'[r] = At(FirstPhase(r), 1, 1) /\ FirstPhase(r) \in {"sql", "history"}
      BY <2>1, <2>2 DEF FirstPhase, Applying
    <3>2. \A k \in Nat \ {0} : ~Reached(r, k)'
      BY <2>2, <3>1 DEF Reached, At
    <3>3. CASE Applying(r)'
      BY <2>2, <3>2, <3>3, <1>f
    <3>4. CASE ~Applying(r)'
      BY <3>4, <1>g
    <3> QED
      BY <3>3, <3>4
  <2>3. CASE pc'[r] # "emit"
    BY <2>1, <2>3, <1>n
  <2> QED
    BY <2>2, <2>3
<1>9. CASE InspectBaseline(r)
  <2>1. ~Applying(r)'
    BY <1>9 DEF InspectBaseline, Applying
  <2> QED
    BY <2>1, <1>g
<1>10. CASE InspectInit(r)
  BY <1>10, <1>n DEF InspectInit, Alive
<1>11. CASE InspectRead(r)
  BY <1>11, <1>n DEF InspectRead, Alive
<1>12. CASE CreateInitial(r)
  BY <1>12, <1>n DEF CreateInitial, Alive
<1>13. CASE EmitStarted(r)
  <2>1. /\ pc[r] = "emit" /\ UNCHANGED <<job, plan, cursor, sess, schema, reply>>
        /\ pc'[r] \in {"exec", "flush", "release"}
    BY <1>13 DEF EmitStarted
  <2>2. \A k \in 1 .. Len(Statements(r)) : Reached(r, k)' => Reached(r, k)
    BY <2>1 DEF Reached
  <2> QED
    BY <2>1, <2>2, <1>v, EffectKeeps DEF Alive
<1>14. CASE ExecSucceeds(r)
  <2>1. /\ pc[r] = "exec" /\ pc'[r] = "ack" /\ Alive(r)
        /\ UNCHANGED <<job, plan, cursor, sess>>
    BY <1>14 DEF ExecSucceeds
  <2>2. Effect(r)
    BY <1>14, <1>s, CommitCases DEF ExecSucceeds
  <2>3. CASE cursor[r].phase = "record"
    BY <2>1, <2>3, <1>n
  <2>4. CASE ~Applying(r)
    BY <2>1, <2>4, <1>g DEF Applying
  <2>5. CASE Applying(r) /\ cursor[r].phase # "record"
    <3>1. cursor[r].step \in 1 .. Len(plan[r])
      BY <2>1, <1>s DEF Shape, CursorInv
    <3>2. Version(r)' = Version(r) /\ Statements(r)' = Statements(r)
      BY <2>1 DEF Version, Statements
    <3> SUFFICES ASSUME \A q \in Runners \ {r} : ~Open(q, Version(r))',
                        NEW k \in 1 .. Len(Statements(r)), Reached(r, k)'
                 PROVE  Effective(Statements(r)[k])'
      BY <3>2 DEF EffectOf
    <3>3. \A q \in Runners \ {r} : ~Open(q, Version(r))
      BY <1>v, <3>2
    <3>4. Reached(r, k) => Effective(Statements(r)[k])
      BY <2>1, <2>5, <3>3 DEF EffectOf
    <3>5. cursor[r].phase = "sql" /\ (Reached(r, k) \/ k = cursor[r].stmt)
      BY <2>1, <2>5, <1>c DEF Reached
    <3>6. schema' = Executed(schema, Statements(r)[cursor[r].stmt])
      BY <2>2, <3>5 DEF Effect
    <3>7. cursor[r].stmt \in 1 .. Len(Statements(r))
      BY <1>s, <2>1, <2>5, <3>5 DEF Shape, CursorInv, Statements, Applying
    <3>8. Statements(r)[k].op = Statements(r)[cursor[r].stmt].op
          /\ Statements(r)[k].op \in {"create", "drop"}
      BY <2>5, <3>1, <3>7, StepFacts DEF Ready
    <3>9. Effective(Statements(r)[k]) \/ k = cursor[r].stmt
      BY <3>4, <3>5
    <3>10. Effective(Statements(r)[k])' <=>
              IF Statements(r)[k].op = "create" THEN Statements(r)[k].obj \in schema'
                                                ELSE Statements(r)[k].obj \notin schema'
      BY <3>2 DEF Effective
    <3> QED
      BY <3>6, <3>8, <3>9, <3>10 DEF Effective, Executed
  <2> QED
    BY <2>3, <2>4, <2>5
<1>15. CASE ExecFails(r)
  BY <1>15, <1>n DEF ExecFails, Alive
<1>16. CASE ExecLost(r)
  BY <1>16, <1>n DEF ExecLost, Alive
<1>17. CASE EmitOutcome(r)
  <2>1. /\ pc[r] = "ack" /\ UNCHANGED <<job, plan, sess, schema>>
        /\ (reply[r] = "succeeded" /\ Advance(r)) \/ (Abort(r) /\ UNCHANGED cursor)
    <3>1. PICK written \in BOOLEAN :
             LET failed == (IF reply[r] = "succeeded" THEN {} ELSE {"operation"})
                           \cup (IF written THEN {} ELSE {"log"}) IN
             IF failed = {} THEN Advance(r) ELSE Abort(r) /\ UNCHANGED cursor
      BY <1>17 DEF EmitOutcome
    <3>2. (reply[r] = "succeeded" /\ Advance(r)) \/ (Abort(r) /\ UNCHANGED cursor)
      BY <3>1
    <3> QED
      BY <1>17, <3>2 DEF EmitOutcome
  <2>2. CASE Abort(r)
    BY <2>2, <1>n
  <2>3. CASE reply[r] = "succeeded" /\ Advance(r) /\ cursor[r].phase = "record"
    BY <2>3, <1>n DEF Advance
  <2>4. CASE reply[r] = "succeeded" /\ Advance(r) /\ cursor[r].phase = "history"
    <3>1. cursor[r].stmt \in {0, 1}
      BY <1>s, <2>4 DEF PlaceInv, PhaseOf
    <3>2. pc'[r] = "emit"
      BY <2>4 DEF Advance
    <3>3. Applying(r)' => cursor'[r] = [cursor[r] EXCEPT !.phase = "sql"]
      BY <2>1, <2>4 DEF Advance, Applying
    <3>4. Applying(r)' => cursor'[r].phase = "sql" /\ cursor'[r].stmt = cursor[r].stmt
      BY <3>3, <1>c DEF Cursor
    <3>5. ASSUME Applying(r)' PROVE \A k \in Nat \ {0} : ~Reached(r, k)'
      BY <3>1, <3>2, <3>4, <3>5 DEF Reached
    <3> QED
      BY <3>2, <3>5, <1>f, <1>g
  <2>5. CASE reply[r] = "succeeded" /\ Advance(r) /\ cursor[r].phase = "sql"
    <3>1. cursor'[r] = AfterSQL(r) /\ pc'[r] = "emit"
      BY <2>5 DEF Advance
    <3>2. cursor'[r].step = cursor[r].step
      BY <3>1 DEF AfterSQL, At
    <3>3. CASE Applying(r)
      <4>1. cursor[r].step \in 1 .. Len(plan[r])
        BY <2>1, <1>s DEF Shape, CursorInv
      <4>2. Len(Statements(r)) \in Nat
        BY <3>3, <4>1, StepFacts DEF Ready
      <4> DEFINE n == Len(Statements(r))
      <4> HIDE DEF n
      <4>3. \A k \in 1 .. n : Reached(r, k)' => Reached(r, k)
        <5>1. \/ cursor[r].stmt < n /\ cursor'[r] = At("sql", cursor[r].step, cursor[r].stmt + 1)
              \/ ~(cursor[r].stmt < n) /\ cursor'[r] = At("record", cursor[r].step, 1)
          BY <3>1 DEF AfterSQL, n
        <5>2. CASE cursor[r].stmt < n /\ cursor'[r] = At("sql", cursor[r].step, cursor[r].stmt + 1)
          BY <1>c, <2>1, <2>5, <3>1, <4>2, <5>2 DEF Reached, At, n
        <5>3. CASE ~(cursor[r].stmt < n)
          BY <1>c, <2>1, <2>5, <4>2, <5>3 DEF Reached, n
        <5> QED
          BY <5>1, <5>2, <5>3
      <4>4. cursor[r].phase # "record"
        BY <2>5
      <4> QED
        BY <1>v, <2>1, <2>5, <3>1, <3>2, <4>3, <4>4, EffectKeeps DEF Alive, n
    <3>4. CASE ~Applying(r)
      BY <2>1, <3>4, <1>g DEF Applying
    <3> QED
      BY <3>3, <3>4
  <2> QED
    BY <2>1, <2>2, <2>3, <2>4, <2>5, <1>c DEF Phases
<1>18. CASE Flush(r)
  BY <1>18, <1>n DEF Flush, Alive
<1>19. CASE Capture(r)
  BY <1>19, <1>n DEF Capture, Alive
<1>20. CASE Output(r)
  <2>2. CASE pc'[r] = "emit"
    <3>1. cursor'[r] = At("sql", cursor[r].step + 1, 1)
      BY <1>20, <2>2 DEF Output
    <3>2. \A k \in Nat \ {0} : ~Reached(r, k)'
      BY <2>2, <3>1 DEF Reached, At
    <3>3. CASE Applying(r)'
      BY <2>2, <3>2, <3>3, <1>f
    <3>4. CASE ~Applying(r)'
      BY <3>4, <1>g
    <3> QED
      BY <3>3, <3>4
  <2>3. CASE pc'[r] # "emit"
    BY <1>20, <2>3, <1>n DEF Output
  <2> QED
    BY <2>2, <2>3
<1>21. CASE Release(r)
  BY <1>21, <1>n DEF Release, Alive
<1>22. CASE Crash(r)
  BY <1>22, <1>n DEF Crash, Alive
<1>23. CASE SessionDies(r)
  BY <1>23, <1>n DEF SessionDies, Alive
<1>24. CASE Reap(r)
  BY <1>24, <1>n DEF Reap, Alive
<1>25. CASE Land(r)
  BY <1>25, <1>n, <1>o DEF Land, Ended, Alive
<1> QED
  BY <1>1, <1>2, <1>3, <1>4, <1>5, <1>6, <1>7, <1>8, <1>9, <1>10, <1>11, <1>12, <1>13,
     <1>14, <1>15, <1>16, <1>17, <1>18, <1>19, <1>20, <1>21, <1>22, <1>23, <1>24, <1>25
     DEF StepOf, Proceed

LEMMA BaseKeeps ==
    ASSUME NEW r \in Runners, BaseOf(r), job'[r] = job[r], plan'[r] = plan[r],
           cursor'[r].step = cursor[r].step, schema' = schema,
           \A v : (\A q \in Runners \ {r} : ~Open(q, v)') => \A q \in Runners \ {r} : ~Open(q, v),
           Based(r)' => Based(r)
    PROVE  BaseOf(r)'
<1>1. Version(r)' = Version(r)
  BY DEF Version
<1>2. ObjectsOf(Version(r))' = ObjectsOf(Version(r))
  BY <1>1 DEF ObjectsOf
<1> SUFFICES ASSUME job'[r].op = "baseline", Based(r)',
                    \A q \in Runners \ {r} : ~Open(q, Version(r))'
             PROVE  ObjectsOf(Version(r)) \subseteq schema
  BY <1>1, <1>2 DEF BaseOf, Based
<1>3. \A q \in Runners \ {r} : ~Open(q, Version(r))
  BY <1>1
<1> QED
  BY <1>3 DEF BaseOf, Based

LEMMA BaseOfStep ==
    ASSUME FilesCorrespond, NEW r \in Runners, StepOf(r), Ready(r), BaseOf(r)
    PROVE  BaseOf(r)'
<1>s. Shape /\ PlaceInv
  BY DEF Ready
<1>t. /\ DOMAIN pc = Runners /\ DOMAIN job = Runners /\ DOMAIN plan = Runners
      /\ DOMAIN cursor = Runners /\ DOMAIN reply = Runners /\ DOMAIN sess = Runners
      /\ DOMAIN orphan = Runners /\ DOMAIN loaded = Runners
  BY <1>s DEF Shape, TypeOK, RunnerTypeOK, ServerTypeOK, AreDirectories
<1>c. cursor[r] \in Cursor /\ cursor[r].step \in Nat /\ cursor[r].stmt \in Nat
      /\ cursor[r].phase \in Phases
  BY <1>s DEF Shape, TypeOK, RunnerTypeOK, Cursor
<1>o. orphan[r] # {} => Ended(r) /\ sess[r] \in {"broken", "dead"}
  BY <1>s DEF PlaceInv, OrphanOf
<1>v. \A v : (\A q \in Runners \ {r} : ~Open(q, v)') => \A q \in Runners \ {r} : ~Open(q, v)
  BY <1>s, OpenOther
<1>n. ~Based(r)' \/ job'[r].op # "baseline" => BaseOf(r)'
  BY DEF BaseOf, Based
<1>e. Ended(r) => pc[r] \in {"flush", "release", "done", "crashed", "ack"}
  BY DEF Ended
<1> USE RunnersAssumption, <1>t DEF Goto, Abort, Add, AtOperation, fsVars, dbVars, srvVars, jobVars,
      runVars
<1>1. CASE Start(r)
  BY <1>1, <1>n, <1>o, <1>e DEF Start, Based
<1>2. CASE Load(r)
  BY <1>2, <1>n, <1>o, <1>e DEF Load, Based
<1>3. CASE Connect(r)
  BY <1>3, <1>n, <1>o, <1>e DEF Connect, Based
<1>4. CASE AcquireLock(r)
  BY <1>4, <1>n, <1>o, <1>e DEF AcquireLock, Based
<1>5. CASE LockTimesOut(r)
  BY <1>5, <1>n, <1>o, <1>e DEF LockTimesOut, Based
<1>6. CASE LockFails(r)
  BY <1>6, <1>n, <1>o, <1>e DEF LockFails, Based
<1>7. CASE InspectFails(r)
  BY <1>7, <1>n, <1>o, <1>e DEF InspectFails, Based
<1>8. CASE InspectApply(r)
  <2>1. job[r].op # "baseline" /\ UNCHANGED job
    BY <1>8 DEF InspectApply
  <2> QED
    BY <2>1, <1>n
<1>9. CASE InspectBaseline(r)
  <2>1. PICK v \in DOMAIN loaded[r] :
           IF DOMAIN history = {} /\ schema # {} /\ Matches(loaded[r][v], schema)
           THEN /\ plan' = [plan EXCEPT ![r] = <<[version |-> v, statements |-> <<>>]>>]
                /\ cursor' = [cursor EXCEPT ![r] = At(FirstPhase(r), 1, 1)]
           ELSE Goto(r, "release")
    BY <1>9 DEF InspectBaseline
  <2>2. pc[r] = "inspect" /\ pc'[r] \in {"emit", "release"} /\ UNCHANGED <<schema, orphan, job>>
    BY <1>9 DEF InspectBaseline
  <2>3. orphan'[r] = {}
    BY <2>2, <1>o, <1>e
  <2>4. CASE Matches(loaded[r][v], schema) /\ plan'[r] = <<[version |-> v, statements |-> <<>>]>>
             /\ cursor'[r] = At(FirstPhase(r), 1, 1)
    <3>1. v \in Versions /\ loaded[r][v] \in FilesOfVersion(v)
      BY <1>s DEF Ready, FilesKnown, Shape, TypeOK, RunnerTypeOK, AreDirectories, IsDirectory
    <3>2. ObjectsOf(v) = schema
      <4>1. \E f \in FilesOfVersion(v) : Matches(f, schema)
        BY <2>4, <3>1
      <4>2. PICK f \in FilesOfVersion(v) : Matches(f, schema)
        BY <4>1
      <4>3. {f.up[i].obj : i \in DOMAIN f.up} = ObjectsOf(v)
        BY <3>1 DEF FilesCorrespond
      <4>4. {f.up[i].obj : i \in DOMAIN f.up} = schema
        BY <4>2 DEF Matches
      <4> QED
        BY <4>3, <4>4
    <3>3. Version(r)' = v
      BY <2>4 DEF Version, At
    <3> QED
      BY <2>2, <3>2, <3>3 DEF BaseOf, ObjectsOf
  <2>5. CASE pc'[r] = "release"
    BY <2>3, <2>5, <1>n DEF Based
  <2> QED
    BY <2>1, <2>2, <2>4, <2>5
<1>10. CASE InspectInit(r)
  BY <1>10, <1>n, <1>o, <1>e DEF InspectInit, Based
<1>11. CASE InspectRead(r)
  BY <1>11, <1>n, <1>o, <1>e DEF InspectRead, Based
<1>12. CASE CreateInitial(r)
  BY <1>12, <1>n, <1>o, <1>e DEF CreateInitial, Based
<1>13. CASE EmitStarted(r)
  <2>1. /\ UNCHANGED <<job, plan, cursor, schema>>
        /\ Based(r)' => Based(r)
    BY <1>13, <1>o, <1>e DEF EmitStarted, Based, Alive
  <2> QED
    BY <2>1, <1>v, BaseKeeps
<1>14. CASE ExecSucceeds(r)
  <2>1. /\ pc[r] = "exec" /\ Alive(r) /\ orphan[r] = {}
        /\ UNCHANGED <<job, plan, cursor, orphan>>
    BY <1>14, <1>o DEF ExecSucceeds, Alive
  <2>2. Effect(r) /\ Placed(r)
    BY <1>14, <2>1, <1>s, CommitCases, BusyPlaced DEF ExecSucceeds, Busy
  <2>3. job[r].op = "baseline" => schema' = schema
    BY <2>2 DEF Effect, Placed
  <2>4. Based(r)
    BY <2>1 DEF Based
  <2>5. CASE job[r].op = "baseline"
    BY <2>1, <2>3, <2>4, <2>5, <1>v, BaseKeeps
  <2>6. CASE job[r].op # "baseline"
    BY <2>1, <2>6, <1>n
  <2> QED
    BY <2>5, <2>6
<1>15. CASE ExecFails(r)
  <2>1. /\ UNCHANGED <<job, plan, cursor, schema>>
        /\ Based(r)' => Based(r)
    BY <1>15, <1>o, <1>e DEF ExecFails, Based, Alive
  <2> QED
    BY <2>1, <1>v, BaseKeeps
<1>16. CASE ExecLost(r)
  <2>1. /\ UNCHANGED <<job, plan, cursor, schema>>
        /\ Based(r)' => Based(r)
    BY <1>16, <1>o, <1>e DEF ExecLost, Based, Alive
  <2> QED
    BY <2>1, <1>v, BaseKeeps
<1>17. CASE EmitOutcome(r)
  <2>1. /\ pc[r] = "ack" /\ UNCHANGED <<job, plan, sess, schema, orphan>>
        /\ (reply[r] = "succeeded" /\ Advance(r)) \/ (Abort(r) /\ UNCHANGED cursor)
    <3>1. PICK written \in BOOLEAN :
             LET failed == (IF reply[r] = "succeeded" THEN {} ELSE {"operation"})
                           \cup (IF written THEN {} ELSE {"log"}) IN
             IF failed = {} THEN Advance(r) ELSE Abort(r) /\ UNCHANGED cursor
      BY <1>17 DEF EmitOutcome
    <3>2. (reply[r] = "succeeded" /\ Advance(r)) \/ (Abort(r) /\ UNCHANGED cursor)
      BY <3>1
    <3> QED
      BY <1>17, <3>2 DEF EmitOutcome
  <2>2. CASE Abort(r) /\ UNCHANGED cursor
    <3>1. Based(r)' => Based(r)
      BY <2>1, <2>2 DEF Based
    <3> QED
      BY <2>1, <2>2, <3>1, <1>v, BaseKeeps
  <2>3. CASE reply[r] = "succeeded" /\ Advance(r)
    <3>1. orphan[r] = {}
      BY <2>1, <2>3, <1>o DEF Ended
    <3>2. cursor'[r].step = cursor[r].step
      BY <2>3, <1>c DEF Advance, AfterSQL, At, Cursor
    <3>3. Based(r)' => Based(r)
      BY <2>1, <2>3, <3>1 DEF Based, Advance, Alive
    <3> QED
      BY <2>1, <3>2, <3>3, <1>v, BaseKeeps
  <2> QED
    BY <2>1, <2>2, <2>3
<1>18. CASE Flush(r)
  BY <1>18, <1>v, BaseKeeps DEF Flush, Based
<1>19. CASE Capture(r)
  BY <1>19, <1>v, BaseKeeps DEF Capture, Based
<1>20. CASE Output(r)
  <2>1. /\ pc[r] = "output" /\ UNCHANGED <<job, orphan>>
        /\ job[r].op = "baseline" => pc'[r] = "release"
    BY <1>20 DEF Output
  <2>2. orphan'[r] = {}
    BY <2>1, <1>o, <1>e
  <2> QED
    BY <2>1, <2>2, <1>n DEF Based
<1>21. CASE Release(r)
  BY <1>21, <1>v, BaseKeeps DEF Release, Based
<1>22. CASE Crash(r)
  <2>1. /\ UNCHANGED <<job, plan, cursor, schema>>
        /\ Based(r)' => Based(r)
    BY <1>22, <1>o, <1>e DEF Crash, Based, Alive
  <2> QED
    BY <2>1, <1>v, BaseKeeps
<1>23. CASE SessionDies(r)
  <2>1. /\ UNCHANGED <<job, plan, cursor, schema>>
        /\ Based(r)' => Based(r)
    BY <1>23, <1>o, <1>e DEF SessionDies, Based, Alive
  <2> QED
    BY <2>1, <1>v, BaseKeeps
<1>24. CASE Reap(r)
  <2>1. UNCHANGED <<job, plan, cursor, schema, pc>> /\ orphan'[r] \subseteq orphan[r]
    BY <1>24 DEF Reap
  <2>2. ~Alive(r)'
    BY <1>24 DEF Reap, Alive
  <2> QED
    BY <2>1, <2>2, <1>v, BaseKeeps DEF Based
<1>25. CASE Land(r)
  BY <1>25, <1>n, <1>o DEF Land, Based, Alive
<1> QED
  BY <1>1, <1>2, <1>3, <1>4, <1>5, <1>6, <1>7, <1>8, <1>9, <1>10, <1>11, <1>12, <1>13,
     <1>14, <1>15, <1>16, <1>17, <1>18, <1>19, <1>20, <1>21, <1>22, <1>23, <1>24, <1>25
     DEF StepOf, Proceed

\* The effect of another invocation leaves alone what r has executed or found, or its
\* log leaves the version open.
LEMMA ForeignEffect ==
    ASSUME FilesCorrespond, NEW r \in Runners, StepOf(r), Ready(r), NEW q \in Runners \ {r},
           \/ Alive(q) /\ pc[q] \in AtOperation
           \/ orphan[q] # {} /\ cursor[q].phase = "record",
           \A p \in Runners \ {q} : ~Open(p, Version(q))'
    PROVE  /\ \A p \in Runners \ {q} : ~Open(p, Version(q))
           /\ \A x \in ObjectsOf(Version(q)) : x \in schema' <=> x \in schema
<1>s. Shape /\ PlaceInv
  BY DEF Ready
<1>1. lockOwner = q
  <2>1. CASE Alive(q) /\ pc[q] \in AtOperation
    BY <1>s, <2>1 DEF PlaceInv, LockHeldByWorker, AtOperation, Working
  <2>2. CASE orphan[q] # {} /\ cursor[q].phase = "record"
    BY <1>s, <2>2 DEF PlaceInv, OrphanOf
  <2> QED
    BY <2>1, <2>2
<1>2. ~ExecSucceeds(r)
  <2>1. ExecSucceeds(r) => lockOwner = r
    BY <1>s DEF ExecSucceeds, PlaceInv, LockHeldByWorker, Working
  <2> QED
    BY <1>1, <2>1
<1>3. \A p \in Runners \ {q} : ~Open(p, Version(q))
  <2>1. Version(q)' = Version(q)
    BY <1>s, Frame DEF OthersStay, Same, Version
  <2>2. PICK v : v = Version(q)
    OBVIOUS
  <2>3. \A p \in Runners \ {q} : ~Open(p, v)'
    BY <2>1, <2>2 DEF Open, Began, RecordEntry, Confirming
  <2> QED
    BY <1>2, <1>s, <2>2, <2>3, OthersOpen
<1>4. Version(q) \in Versions
  <2>1. Busy(q) /\ Placed(q)
    BY <1>s, BusyPlaced DEF Busy
  <2>2. plan[q][cursor[q].step] \in Step
    BY <1>s, <2>1, ElementOfSeq DEF Placed, Shape, TypeOK, RunnerTypeOK
  <2> QED
    BY <2>2 DEF Step, Version
<1>5. CASE UNCHANGED dbVars
  BY <1>3, <1>5 DEF dbVars
<1>6. CASE Land(r) /\ ~UNCHANGED dbVars
  <2>1. PICK o \in orphan[r] : IF Accepts(o) THEN Commit(o) ELSE UNCHANGED dbVars
    BY <1>6 DEF Land
  <2>2. o = Sent(r) /\ Ended(r) /\ Busy(r) /\ Placed(r)
    BY <1>s, <2>1 DEF PlaceInv, OrphanOf, Busy
  <2>3. Effect(r)
    BY <1>s, <1>6, <2>1, <2>2, CommitCases
  <2>4. CASE cursor[r].phase # "sql"
    BY <1>3, <2>3, <2>4 DEF Effect
  <2>5. CASE Version(q) # Version(r)
    BY <1>3, <1>4, <2>2, <2>3, <2>5, EffectIsOwn
  <2>6. CASE cursor[r].phase = "sql" /\ Version(q) = Version(r)
    <3>1. pc[r] # "emit" /\ ~(pc[r] = "ack" /\ reply[r] = "succeeded")
      BY <2>2 DEF Ended
    <3>2. Applying(r)
      BY <2>2, <2>6 DEF Placed, Applying
    <3>3. Open(r, Version(q))
      BY <2>2, <2>6, <3>1, <3>2, InFlightIsOpen
    <3> QED
      BY <1>3, <3>3
  <2> QED
    BY <2>4, <2>5, <2>6
<1> QED
  BY <1>2, <1>5, <1>6, DatabaseStays

LEMMA EffectOther ==
    ASSUME FilesCorrespond, NEW r \in Runners, StepOf(r), Ready(r), NEW q \in Runners \ {r},
           EffectOf(q)
    PROVE  EffectOf(q)'
<1>s. Shape /\ PlaceInv /\ FilesInv /\ FilesKnown
  BY DEF Ready
<1>1. /\ pc'[q] = pc[q] /\ job'[q] = job[q] /\ plan'[q] = plan[q] /\ cursor'[q] = cursor[q]
      /\ reply'[q] = reply[q] /\ sess'[q] = sess[q]
  BY <1>s, Frame DEF OthersStay, Same
<1>2. Version(q)' = Version(q) /\ Statements(q)' = Statements(q) /\ (Applying(q)' <=> Applying(q))
      /\ (Alive(q)' <=> Alive(q))
  BY <1>1 DEF Version, Statements, Applying, Alive
<1>3. \A k : Reached(q, k)' <=> Reached(q, k)
  BY <1>1 DEF Reached
<1> SUFFICES ASSUME Applying(q), Alive(q), pc[q] \in AtOperation,
                    pc[q] = "ack" => reply[q] = "succeeded" /\ cursor[q].phase # "record",
                    \A p \in Runners \ {q} : ~Open(p, Version(q))',
                    NEW k \in 1 .. Len(Statements(q)), Reached(q, k)
             PROVE  Effective(Statements(q)[k])'
  BY <1>1, <1>2, <1>3 DEF EffectOf
<1>4. /\ \A p \in Runners \ {q} : ~Open(p, Version(q))
      /\ \A x \in ObjectsOf(Version(q)) : x \in schema' <=> x \in schema
  BY ForeignEffect
<1>5. Effective(Statements(q)[k])
  BY <1>4 DEF EffectOf
<1>6. Statements(q)[k].obj \in ObjectsOf(Version(q))
  <2>1. cursor[q].step \in 1 .. Len(plan[q])
    BY <1>s DEF Shape, CursorInv
  <2> QED
    BY <1>s, <2>1, StepFacts
<1> QED
  BY <1>2, <1>4, <1>5, <1>6 DEF Effective

LEMMA BaseOther ==
    ASSUME FilesCorrespond, NEW r \in Runners, StepOf(r), Ready(r), NEW q \in Runners \ {r},
           BaseOf(q)
    PROVE  BaseOf(q)'
<1>s. Shape /\ PlaceInv
  BY DEF Ready
<1>1. /\ pc'[q] = pc[q] /\ job'[q] = job[q] /\ plan'[q] = plan[q] /\ cursor'[q] = cursor[q]
      /\ sess'[q] = sess[q] /\ orphan'[q] = orphan[q]
  BY <1>s, Frame DEF OthersStay, Same
<1>2. Version(q)' = Version(q) /\ (Based(q)' <=> Based(q))
  BY <1>1 DEF Version, Based, Alive
<1>3. ObjectsOf(Version(q))' = ObjectsOf(Version(q))
  BY <1>2 DEF ObjectsOf
<1> SUFFICES ASSUME job[q].op = "baseline", Based(q),
                    \A p \in Runners \ {q} : ~Open(p, Version(q))'
             PROVE  ObjectsOf(Version(q)) \subseteq schema'
  BY <1>1, <1>2, <1>3 DEF BaseOf, Based
<1>4. /\ \A p \in Runners \ {q} : ~Open(p, Version(q))
      /\ \A x \in ObjectsOf(Version(q)) : x \in schema' <=> x \in schema
  BY ForeignEffect DEF Based
<1>5. ObjectsOf(Version(q)) \subseteq schema
  BY <1>4 DEF BaseOf, Based
<1> QED
  BY <1>4, <1>5

LEMMA DivergenceStep ==
    FilesCorrespond /\ LedgerInv /\ ReportInv /\ DivergenceInv /\ [Next]_vars => DivergenceInv'
<1> SUFFICES ASSUME FilesCorrespond, LedgerInv, ReportInv, DivergenceInv, [Next]_vars
             PROVE  DivergenceInv'
  OBVIOUS
<1>s. Shape /\ PlaceInv /\ FilesInv
  BY DEF LedgerInv
<1>f. FilesKnown'
  BY <1>s, FilesKnownStep DEF DivergenceInv
<1>1. ASSUME NEW r \in Runners, StepOf(r) PROVE DivergenceInv'
  <2>0. /\ Ready(r) /\ SentOf(r) /\ EffectOf(r) /\ BaseOf(r)
        /\ RecordsOf(r) /\ BeganOf(r)
    BY <1>s DEF Ready, DivergenceInv, ReportInv
  <2>1. RecordsOf(r)' /\ BeganOf(r)'
    BY <1>1, <1>s, <2>0, RecordsOfStep, BeganOfStep
  <2>2. EffectOf(r)' /\ BaseOf(r)'
    BY <1>1, <2>0, EffectOfStep, BaseOfStep
  <2>3. ASSUME NEW q \in Runners \ {r}
        PROVE  RecordsOf(q)' /\ BeganOf(q)' /\ EffectOf(q)' /\ BaseOf(q)'
    <3>1. /\ pc'[q] = pc[q] /\ job'[q] = job[q] /\ plan'[q] = plan[q] /\ cursor'[q] = cursor[q]
          /\ orphan'[q] = orphan[q] /\ log'[q] = log[q]
      BY <1>1, <1>s, Frame DEF OthersStay, Same
    <3>2. RecordsOf(q) /\ BeganOf(q) /\ EffectOf(q) /\ BaseOf(q)
      BY DEF DivergenceInv
    <3>3. RecordsOf(q)'
      BY <3>1, <3>2 DEF RecordsOf, Busy, RecordEntry
    <3>4. BeganOf(q)'
      BY <3>1, <3>2 DEF BeganOf, Busy, Began, Applying, Version
    <3> QED
      BY <1>1, <2>0, <3>2, <3>3, <3>4, EffectOther, BaseOther
  <2>4. AgreeInv'
    <3>1. ASSUME NEW v \in Versions, \A q \in Runners : ~Open(q, v)' PROVE Agrees(v)'
      BY <1>1, <2>0, <3>1, AgreeOfStep DEF DivergenceInv
    <3> QED
      BY <3>1 DEF AgreeInv
  <2> QED
    BY <1>f, <2>1, <2>2, <2>3, <2>4 DEF DivergenceInv
<1>2. CASE Edit \/ UNCHANGED vars
  <2>1. UNCHANGED <<pc, job, plan, cursor, reply, log, sess, orphan, schema, history>>
    BY <1>2 DEF Edit, vars, runVars, jobVars, srvVars, dbVars
  <2>2. \A r \in Runners : RecordsOf(r)'
    BY <2>1 DEF DivergenceInv, RecordsOf, Busy, RecordEntry
  <2>3. \A r \in Runners : BeganOf(r)'
    BY <2>1 DEF DivergenceInv, BeganOf, Busy, Began, Applying, Version
  <2>4. \A r \in Runners : \A v : Open(r, v)' <=> Open(r, v)
    BY <2>1 DEF Open, Began, Confirming, RecordEntry, Version
  <2>5. \A r \in Runners : Version(r)' = Version(r) /\ Statements(r)' = Statements(r)
    BY <2>1 DEF Version, Statements
  <2>6. ASSUME NEW r \in Runners PROVE EffectOf(r)'
    BY <2>1, <2>4, EffectKeeps DEF DivergenceInv, Alive, Reached
  <2>7. ASSUME NEW r \in Runners PROVE BaseOf(r)'
    BY <2>1, <2>4, BaseKeeps DEF DivergenceInv, Based, Alive
  <2>8. AgreeInv'
    BY <2>1, <2>4 DEF DivergenceInv, AgreeInv, Agrees, ObjectsOf
  <2> QED
    BY <1>f, <2>2, <2>3, <2>6, <2>7, <2>8 DEF DivergenceInv
<1> QED
  BY <1>1, <1>2, StepCases

\* What no log leaves open is exactly recorded, when the files of every version create
\* and drop the objects of their version and nothing else: for any number of
\* invocations, crashes, lost replies and operations that land late.
THEOREM LogsNameDivergence ==
    ASSUME FilesCorrespond
    PROVE  Spec => []LogsNameEveryDivergence
<1>1. Init => DivergenceInv
  <2> SUFFICES ASSUME Init PROVE DivergenceInv
    OBVIOUS
  <2>1. FilesKnown
    BY DEF Init, FilesKnown, FilesOfVersion, NoJob
  <2>2. AgreeInv
    BY DEF Init, AgreeInv, Agrees
  <2>3. ASSUME NEW r \in Runners PROVE RecordsOf(r) /\ BeganOf(r) /\ EffectOf(r) /\ BaseOf(r)
    BY DEF Init, RecordsOf, BeganOf, EffectOf, BaseOf, AtOperation, NoJob, Applying
  <2> QED
    BY <2>1, <2>2, <2>3 DEF DivergenceInv
<1>2. DivergenceInv => LogsNameEveryDivergence
  <2> SUFFICES ASSUME DivergenceInv, NEW v \in Versions, ~Unsettled(v)
               PROVE  Agrees(v)
    BY DEF LogsNameEveryDivergence, Agrees
  <2>1. \A r \in Runners : ~Open(r, v)
    BY DEF Unsettled, Open, Began, RecordEntry
  <2> QED
    BY <2>1 DEF DivergenceInv, AgreeInv
<1>3. Init => ReportInv
  BY EmptySeq DEF Init, ReportInv, SentOf, FateOf, Applying, NoJob
<1>4. LedgerInv => Shape /\ PlaceInv /\ FilesInv
  BY DEF LedgerInv
<1>5. LedgerInv /\ ReportInv /\ [Next]_vars => ReportInv'
  BY <1>4, ReportStep
<1>6. LedgerInv /\ ReportInv /\ DivergenceInv /\ [Next]_vars => DivergenceInv'
  BY DivergenceStep
<1> QED
  BY <1>1, <1>2, <1>3, <1>5, <1>6, LedgerInvariant, PTL DEF Spec
=============================================================================
