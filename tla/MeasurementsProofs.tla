------------------------- MODULE MeasurementsProofs -------------------------
(***************************************************************************)
(* Theorems about Measurements: what a comparison reports, what a preparation  *)
(* answers, and the pool both share with everybody else, whatever fails.       *)
(* A comparison is followed from SELECT to probe to plan to release: where it  *)
(* is tells how many statements it has sent, how many samples every variant    *)
(* has, which array is the reference, and that nobody else has its session.    *)
(* The last sections are about the runtime capture: a file is analysed record  *)
(* by record, and what an answer says of it follows from its records.  And of   *)
(* the offline checks: what a recursive check of a predicate computes, and the  *)
(* rows that an accepted statement or model can meet.                           *)
(***************************************************************************)
EXTENDS LibraryTasks, FoldTheorems, TLAPS

---------------------------------------------------------------------------
(* No command of the migration runner leaves a trace on the pool it shares   *)
(* with the application, for any pool, any time zones and any failure.       *)

States == {"rest", "inspect", "set", "acquire", "work", "release", "restore", "close"}
Ours == run.pc # "rest"

SessionsTypeOK ==
    /\ idle \subseteq Connections /\ others \subseteq Connections /\ idle \cap others = {}
    /\ home \in [Connections -> Zones] /\ zone \in [Connections -> Zones]
    /\ run \in [pc : States, conn : Connections \cup {NoConn}, saved : Zones, gone : BOOLEAN]
    /\ Ours => run.conn \in Connections \ (idle \cup others)
    /\ lock \in Connections \cup {Nobody, Elsewhere}

\* Only a session that works under the lock holds it; where the connection may
\* still come back to the pool (~gone), what undoes it is known at every step.
ZoneIsKnown ==
    /\ run.pc \in {"inspect", "set"} => zone[run.conn] = home[run.conn]
    /\ run.pc \in {"set", "acquire", "work", "release", "restore"} => run.saved = home[run.conn]
    /\ run.pc \in {"acquire", "work", "release", "restore"} => zone[run.conn] = Utc
    /\ run.pc = "close" /\ ~run.gone => zone[run.conn] = home[run.conn]

OnlyTheWorkerHolds == lock \in Connections => lock = run.conn /\ run.pc \in {"work", "release"}

UnusedAreClean == \A c \in idle \cup others : zone[c] = home[c]

SessionsInv ==
    /\ SessionsTypeOK
    /\ UnusedAreClean
    /\ ZoneIsKnown
    /\ OnlyTheWorkerHolds

LEMMA SessionsInitInv == SessionsInit => SessionsInv
  BY SessionsAssumption
  DEF SessionsInit, SessionsInv, SessionsTypeOK, UnusedAreClean, ZoneIsKnown, OnlyTheWorkerHolds,
      AtRest, States, Ours

\* The session that ends holds no lock: a clean pool follows from the invariant.
LEMMA InvIsClean == SessionsInv => SessionsComeBackClean
  BY DEF SessionsInv, SessionsTypeOK, UnusedAreClean, OnlyTheWorkerHolds, SessionsComeBackClean, Ours

\* Other goroutines only move a connection between the pool and themselves.
LEMMA OthersKeep ==
  ASSUME SessionsInv, NEW c \in Connections, OthersTake(c) \/ OthersReturn(c)
  PROVE  SessionsInv'
<1> USE DEF SessionsInv, SessionsTypeOK, UnusedAreClean, ZoneIsKnown, OnlyTheWorkerHolds, Ours
<1>1. CASE OthersTake(c)
  BY <1>1 DEF OthersTake, Take
<1>2. CASE OthersReturn(c)
  BY <1>2 DEF OthersReturn
<1> QED BY <1>1, <1>2

\* The steps that only move the program counter, or touch the lock.
LEMMA LockStepsKeep ==
  ASSUME SessionsInv,
         \/ LockElsewhere \/ GetLock \/ GetLockTimesOut \/ GetLockFails
         \/ Work \/ ReleaseLock \/ ReleaseLockFails
  PROVE  SessionsInv'
<1> USE SessionsAssumption DEF SessionsInv, SessionsTypeOK, UnusedAreClean, ZoneIsKnown, OnlyTheWorkerHolds, Ours, States
<1>1. CASE LockElsewhere
  BY <1>1 DEF LockElsewhere
<1>2. CASE GetLock
  BY <1>2 DEF GetLock
<1>3. CASE GetLockTimesOut
  BY <1>3 DEF GetLockTimesOut
<1>4. CASE GetLockFails
  BY <1>4 DEF GetLockFails
<1>5. CASE Work
  BY <1>5 DEF Work
<1>6. CASE ReleaseLock
  BY <1>6 DEF ReleaseLock
<1>7. CASE ReleaseLockFails
  BY <1>7 DEF ReleaseLockFails, Discard, LockWithout
<1> QED BY <1>1, <1>2, <1>3, <1>4, <1>5, <1>6, <1>7

\* The steps that take a connection, change its zone, and give it back.
LEMMA ZoneStepsKeep ==
  ASSUME SessionsInv,
         \/ \E c \in Connections : Connect(c)
         \/ InspectConnection \/ SetZone \/ SetZoneFails
         \/ RestoreZone \/ RestoreZoneFails \/ CloseConnection
  PROVE  SessionsInv'
<1> USE SessionsAssumption DEF SessionsInv, SessionsTypeOK, UnusedAreClean, ZoneIsKnown, OnlyTheWorkerHolds, Ours, States
<1>1. CASE \E c \in Connections : Connect(c)
  <2>1. PICK c \in idle : /\ idle' = idle \ {c}
                          /\ run' = [pc |-> "inspect", conn |-> c, saved |-> Utc, gone |-> FALSE]
                          /\ UNCHANGED <<others, home, zone, lock>> /\ run.pc = "rest"
    BY <1>1 DEF Connect, Take, AtRest
  <2>2. lock \notin Connections
    BY <2>1
  <2>3. c \in Connections /\ c \notin others'
    BY <2>1
  <2> QED BY <2>1, <2>2, <2>3
<1>2. CASE InspectConnection
  BY <1>2 DEF InspectConnection
<1>3. CASE SetZone
  BY <1>3 DEF SetZone
<1>4. CASE SetZoneFails
  <2>1. /\ run.pc = "set" /\ run.conn \in Connections \ (idle \cup others)
        /\ run' = [run EXCEPT !.pc = "close", !.gone = TRUE]
        /\ lock' = lock /\ lock \notin Connections
        /\ UNCHANGED <<idle, others, home>>
    BY <1>4 DEF SetZoneFails, Discard, LockWithout
  <2>2. zone' \in [Connections -> Zones]
    BY <1>4 DEF SetZoneFails
  <2>3. \A c \in idle \cup others : zone'[c] = zone[c]
    BY <1>4, <2>1 DEF SetZoneFails
  <2> QED BY <2>1, <2>2, <2>3
<1>5. CASE RestoreZone
  BY <1>5 DEF RestoreZone
<1>6. CASE RestoreZoneFails
  BY <1>6 DEF RestoreZoneFails, Discard, LockWithout
<1>7. CASE CloseConnection
  BY <1>7 DEF CloseConnection, AtRest
<1> QED BY <1>1, <1>2, <1>3, <1>4, <1>5, <1>6, <1>7

LEMMA SessionsStepInv == SessionsInv /\ [SessionsNext]_sessionVars => SessionsInv'
<1> SUFFICES ASSUME SessionsInv, [SessionsNext]_sessionVars PROVE SessionsInv'
  OBVIOUS
<1>1. CASE UNCHANGED sessionVars
  BY <1>1 DEF sessionVars, SessionsInv, SessionsTypeOK, UnusedAreClean, ZoneIsKnown, OnlyTheWorkerHolds, Ours
<1>2. CASE \E c \in Connections : OthersTake(c) \/ OthersReturn(c)
  BY <1>2, OthersKeep
<1>3. CASE LockElsewhere \/ GetLock \/ GetLockTimesOut \/ GetLockFails \/ Work \/ ReleaseLock \/ ReleaseLockFails
  BY <1>3, LockStepsKeep
<1>4. CASE \/ \E c \in Connections : Connect(c)
           \/ InspectConnection \/ SetZone \/ SetZoneFails
           \/ RestoreZone \/ RestoreZoneFails \/ CloseConnection
  BY <1>4, ZoneStepsKeep
<1> QED BY <1>1, <1>2, <1>3, <1>4 DEF SessionsNext, Surroundings, RunSession

\* Whatever fails in a migration command, the connection it used is in the pool
\* again as it was dialled: its time zone is its own (Runner.session restores or
\* discards), and its session holds no named lock.
THEOREM SessionsAreReturnedClean == SessionsSpec => []SessionsComeBackClean
<1>1. SessionsSpec => []SessionsInv
  BY SessionsInitInv, SessionsStepInv, PTL DEF SessionsSpec
<1> QED BY <1>1, InvIsClean, PTL

---------------------------------------------------------------------------
(* The inductive invariant.                                                   *)

CompareStates ==
    {"rest", "pin", "borrow", "select", "probe", "plan", "release", "deliver", "returned"}
Statuses == {"unknown", "unrequested", "mismatch", "matched"}
Sample == [of : Nat, by : Nat]
Observation == [of : Nat, known : BOOLEAN]
Calls ==
    [pc : CompareStates, kind : {"", "db", "borrowed"}, conn : Connections \cup {NoConn}, step : Nat,
     arrays : Seq(Nat), ref : Nat, buf : Nat, samples : [Variants -> Seq(Sample)],
     status : [Variants -> Statuses], failed : [Variants -> BOOLEAN], pending : Seq(Observation),
     err : BOOLEAN, complete : BOOLEAN, answers : SUBSET Nat, delivered : Seq(Nat)]

CompareTyping == compare \in Calls /\ data \in Nat /\ last \in [Connections -> Nat]

\* The call has a connection, its own or the one its caller lent.
Holding ==
    \/ compare.pc \in {"select", "probe", "plan", "release"}
    \/ compare.pc = "deliver" /\ compare.kind = "borrowed"

\* Nobody else has that connection, so between a SELECT and its probe the last
\* statement of its session is the SELECT.
ConnInv ==
    /\ Holding => compare.conn \in Connections \ (idle \cup others)
    /\ compare.pc \notin {"rest", "returned"} => compare.kind \in {"db", "borrowed"}
    /\ compare.pc = "probe" => last[compare.conn] = compare.step

\* Three SELECTs a round, then three plans; an error ends the rounds.
StepInv ==
    /\ compare.pc \in {"rest", "pin", "borrow"} => compare.step = 0
    /\ compare.pc = "select" => compare.step < 3 * Rounds
    /\ compare.pc = "probe" => compare.step \in 1..(3 * Rounds)
    /\ compare.pc = "plan" => compare.step \in (3 * Rounds)..(3 * Rounds + 2)
    /\ compare.pc = "release" /\ ~compare.err => compare.step = 3 * Rounds + 3
    /\ compare.pc \in {"rest", "pin", "borrow", "select", "probe"} => ~compare.err
    /\ compare.complete => compare.pc \in {"deliver", "returned"}

Fresh ==
    compare.pc \in {"rest", "pin", "borrow"} =>
        /\ compare.arrays = <<>> /\ compare.ref = 0 /\ compare.buf = 0 /\ compare.answers = {}
        /\ compare.pending = <<>> /\ compare.delivered = <<>>
        /\ \A v \in Variants : compare.samples[v] = <<>> /\ ~compare.failed[v]

\* What was delivered and what is still to deliver are the statements in order.
InOrder(delivered, pending) ==
    /\ \A i \in 1..Len(delivered) : delivered[i] = i
    /\ \A j \in 1..Len(pending) : pending[j].of = Len(delivered) + j

Numbered == InOrder(compare.delivered, compare.pending)

\* Every statement sent has its observation, the one in flight excepted.
Counted ==
    /\ compare.pc \in {"select", "probe", "plan", "release"} => compare.delivered = <<>>
    /\ compare.pc \in {"select", "plan"} => Len(compare.pending) = compare.step
    /\ compare.pc = "probe" => Len(compare.pending) = compare.step - 1
    /\ compare.pc = "release" /\ ~compare.err => Len(compare.pending) = compare.step
    /\ compare.pc = "returned" => compare.pending = <<>>
    /\ compare.complete => Len(compare.delivered) + Len(compare.pending) = 3 * Rounds + 3

\* Samples of a variant after s SELECTs: one for each measured round it had.
Taken(v, s) ==
    IF Round(s) < Warmup THEN 0
    ELSE Round(s) - Warmup + (IF \E k \in (3 * Round(s))..(s - 1) : Variant(k) = v THEN 1 ELSE 0)

SampleInv ==
    /\ \A v \in Variants : \A i \in 1..Len(compare.samples[v]) :
          compare.samples[v][i].by = compare.samples[v][i].of
    /\ compare.pc = "select" => \A v \in Variants : Len(compare.samples[v]) = Taken(v, compare.step)
    /\ compare.pc = "probe" => \A v \in Variants : Len(compare.samples[v]) = Taken(v, compare.step - 1)
    /\ (compare.pc = "plan" \/ (compare.pc = "release" /\ ~compare.err) \/ compare.complete) =>
          \A v \in Variants : Len(compare.samples[v]) = Samples

\* The arrays the call refers to hold every value it has seen: the reference,
\* and in a probe the result to compare with it, in an array of its own.
Kept == compare.ref \in DOMAIN compare.arrays

AnswerInv ==
    /\ compare.pc = "select" /\ compare.step = 0 =>
          compare.arrays = <<>> /\ compare.ref = 0 /\ compare.buf = 0 /\ compare.answers = {}
    /\ compare.pc = "select" /\ compare.step > 0 =>
          /\ Kept /\ compare.answers = {compare.arrays[compare.ref]}
          /\ compare.buf = 0 \/ compare.buf \in DOMAIN compare.arrays \ {compare.ref}
    /\ compare.pc = "probe" =>
          /\ compare.buf \in DOMAIN compare.arrays
          /\ \/ compare.ref = 0 /\ compare.answers = {compare.arrays[compare.buf]}
             \/ Kept /\ compare.ref # compare.buf
                /\ compare.answers = {compare.arrays[compare.ref], compare.arrays[compare.buf]}
    /\ (compare.pc = "plan" \/ (compare.pc = "release" /\ ~compare.err) \/ compare.complete) =>
          \E a \in compare.answers : compare.answers = {a}

\* No variant has failed so far, and those planned have an acceptable plan.
Accepted(v) == compare.status[v] \in {"matched", "unrequested"}
PlanInv ==
    /\ compare.pc \in {"select", "probe"} => \A v \in Variants : ~compare.failed[v]
    /\ compare.pc = "plan" /\ ~compare.err =>
          \A v \in Variants : ~compare.failed[v] /\ (v <= compare.step - 3 * Rounds => Accepted(v))
    /\ (compare.pc = "release" /\ ~compare.err) \/ compare.complete =>
          compare.step = 3 * Rounds + 3 /\ \A v \in Variants : ~compare.failed[v] /\ Accepted(v)

CompareInv ==
    /\ CompareTyping /\ ConnInv /\ StepInv /\ Fresh /\ Numbered /\ Counted
    /\ SampleInv /\ AnswerInv /\ PlanInv

Errors == {"none", "refused", "context", "query", "not found", "invalid", "not configured"}

\* The wait answers with what it last saw.
WaitInv ==
    /\ wait \in [pc : {"rest", "inspect", "timer", "answered"}, last : {seen}, err : Errors]
    /\ wait.pc = "answered" /\ wait.err = "none" => seen.count > 0 /\ seen.available
    /\ wait.err = "context" => cancelled

ProbeStates == [DOMAIN Capabilities -> {"unknown", "supported", "unsupported"}]
Probes == [pc : {"rest", "probe", "answered"}, next : Nat \ {0}, state : {<<>>} \cup ProbeStates,
           err : BOOLEAN]

\* Every capability already probed is known, unless the call fails.
ProbeInv ==
    /\ probe \in Probes
    /\ probe.pc # "rest" => probe.state \in ProbeStates
    /\ probe.pc # "rest" /\ ~probe.err =>
          \A i \in DOMAIN Capabilities : i < probe.next => probe.state[i] # "unknown"
    /\ probe.pc = "answered" /\ ~probe.err => probe.next > Len(Capabilities)

\* What a task does not concern is as it was.
TaskInv ==
    /\ cancelled \in BOOLEAN
    /\ task # "session" => run = AtRest /\ zone = home /\ lock = Nobody
    /\ task # "compare" => compare = NoCompare

MeasureInv == SessionsInv /\ TaskInv /\ CompareInv /\ WaitInv /\ ProbeInv

---------------------------------------------------------------------------
(* What a step of the call does to its record, field by field.                *)

Fields == {"pc", "kind", "conn", "step", "arrays", "ref", "buf", "samples", "status", "failed",
           "pending", "err", "complete", "answers", "delivered"}

\* d differs from c in these fields at most.
Only(c, d, changed) == \A f \in Fields \ changed : d[f] = c[f]

LEMMA Set_pc ==
  ASSUME NEW c \in Calls, NEW x \in CompareStates
  PROVE  \E d \in Calls : d = [c EXCEPT !.pc = x] /\ d.pc = x /\ Only(c, d, {"pc"})
<1>1. PICK d : d = [c EXCEPT !.pc = x]
  OBVIOUS
<1>2. d \in Calls /\ d.pc = x
  BY <1>1 DEF Calls
<1>3. Only(c, d, {"pc"})
  BY <1>1 DEF Calls, Only, Fields
<1> QED BY <1>1, <1>2, <1>3

LEMMA Set_kind ==
  ASSUME NEW c \in Calls, NEW x \in {"", "db", "borrowed"}
  PROVE  \E d \in Calls : d = [c EXCEPT !.kind = x] /\ d.kind = x /\ Only(c, d, {"kind"})
<1>1. PICK d : d = [c EXCEPT !.kind = x]
  OBVIOUS
<1>2. d \in Calls /\ d.kind = x
  BY <1>1 DEF Calls
<1>3. Only(c, d, {"kind"})
  BY <1>1 DEF Calls, Only, Fields
<1> QED BY <1>1, <1>2, <1>3

LEMMA Set_conn ==
  ASSUME NEW c \in Calls, NEW x \in Connections \cup {NoConn}
  PROVE  \E d \in Calls : d = [c EXCEPT !.conn = x] /\ d.conn = x /\ Only(c, d, {"conn"})
<1>1. PICK d : d = [c EXCEPT !.conn = x]
  OBVIOUS
<1>2. d \in Calls /\ d.conn = x
  BY <1>1 DEF Calls
<1>3. Only(c, d, {"conn"})
  BY <1>1 DEF Calls, Only, Fields
<1> QED BY <1>1, <1>2, <1>3

LEMMA Set_step ==
  ASSUME NEW c \in Calls, NEW x \in Nat
  PROVE  \E d \in Calls : d = [c EXCEPT !.step = x] /\ d.step = x /\ Only(c, d, {"step"})
<1>1. PICK d : d = [c EXCEPT !.step = x]
  OBVIOUS
<1>2. d \in Calls /\ d.step = x
  BY <1>1 DEF Calls
<1>3. Only(c, d, {"step"})
  BY <1>1 DEF Calls, Only, Fields
<1> QED BY <1>1, <1>2, <1>3

LEMMA Set_arrays ==
  ASSUME NEW c \in Calls, NEW x \in Seq(Nat)
  PROVE  \E d \in Calls : d = [c EXCEPT !.arrays = x] /\ d.arrays = x /\ Only(c, d, {"arrays"})
<1>1. PICK d : d = [c EXCEPT !.arrays = x]
  OBVIOUS
<1>2. d \in Calls /\ d.arrays = x
  BY <1>1 DEF Calls
<1>3. Only(c, d, {"arrays"})
  BY <1>1 DEF Calls, Only, Fields
<1> QED BY <1>1, <1>2, <1>3

LEMMA Set_ref ==
  ASSUME NEW c \in Calls, NEW x \in Nat
  PROVE  \E d \in Calls : d = [c EXCEPT !.ref = x] /\ d.ref = x /\ Only(c, d, {"ref"})
<1>1. PICK d : d = [c EXCEPT !.ref = x]
  OBVIOUS
<1>2. d \in Calls /\ d.ref = x
  BY <1>1 DEF Calls
<1>3. Only(c, d, {"ref"})
  BY <1>1 DEF Calls, Only, Fields
<1> QED BY <1>1, <1>2, <1>3

LEMMA Set_buf ==
  ASSUME NEW c \in Calls, NEW x \in Nat
  PROVE  \E d \in Calls : d = [c EXCEPT !.buf = x] /\ d.buf = x /\ Only(c, d, {"buf"})
<1>1. PICK d : d = [c EXCEPT !.buf = x]
  OBVIOUS
<1>2. d \in Calls /\ d.buf = x
  BY <1>1 DEF Calls
<1>3. Only(c, d, {"buf"})
  BY <1>1 DEF Calls, Only, Fields
<1> QED BY <1>1, <1>2, <1>3

LEMMA Set_samples ==
  ASSUME NEW c \in Calls, NEW x \in [Variants -> Seq(Sample)]
  PROVE  \E d \in Calls : d = [c EXCEPT !.samples = x] /\ d.samples = x /\ Only(c, d, {"samples"})
<1>1. PICK d : d = [c EXCEPT !.samples = x]
  OBVIOUS
<1>2. d \in Calls /\ d.samples = x
  BY <1>1 DEF Calls
<1>3. Only(c, d, {"samples"})
  BY <1>1 DEF Calls, Only, Fields
<1> QED BY <1>1, <1>2, <1>3

LEMMA Set_status ==
  ASSUME NEW c \in Calls, NEW x \in [Variants -> Statuses]
  PROVE  \E d \in Calls : d = [c EXCEPT !.status = x] /\ d.status = x /\ Only(c, d, {"status"})
<1>1. PICK d : d = [c EXCEPT !.status = x]
  OBVIOUS
<1>2. d \in Calls /\ d.status = x
  BY <1>1 DEF Calls
<1>3. Only(c, d, {"status"})
  BY <1>1 DEF Calls, Only, Fields
<1> QED BY <1>1, <1>2, <1>3

LEMMA Set_failed ==
  ASSUME NEW c \in Calls, NEW x \in [Variants -> BOOLEAN]
  PROVE  \E d \in Calls : d = [c EXCEPT !.failed = x] /\ d.failed = x /\ Only(c, d, {"failed"})
<1>1. PICK d : d = [c EXCEPT !.failed = x]
  OBVIOUS
<1>2. d \in Calls /\ d.failed = x
  BY <1>1 DEF Calls
<1>3. Only(c, d, {"failed"})
  BY <1>1 DEF Calls, Only, Fields
<1> QED BY <1>1, <1>2, <1>3

LEMMA Set_pending ==
  ASSUME NEW c \in Calls, NEW x \in Seq(Observation)
  PROVE  \E d \in Calls : d = [c EXCEPT !.pending = x] /\ d.pending = x /\ Only(c, d, {"pending"})
<1>1. PICK d : d = [c EXCEPT !.pending = x]
  OBVIOUS
<1>2. d \in Calls /\ d.pending = x
  BY <1>1 DEF Calls
<1>3. Only(c, d, {"pending"})
  BY <1>1 DEF Calls, Only, Fields
<1> QED BY <1>1, <1>2, <1>3

LEMMA Set_err ==
  ASSUME NEW c \in Calls, NEW x \in BOOLEAN
  PROVE  \E d \in Calls : d = [c EXCEPT !.err = x] /\ d.err = x /\ Only(c, d, {"err"})
<1>1. PICK d : d = [c EXCEPT !.err = x]
  OBVIOUS
<1>2. d \in Calls /\ d.err = x
  BY <1>1 DEF Calls
<1>3. Only(c, d, {"err"})
  BY <1>1 DEF Calls, Only, Fields
<1> QED BY <1>1, <1>2, <1>3

LEMMA Set_complete ==
  ASSUME NEW c \in Calls, NEW x \in BOOLEAN
  PROVE  \E d \in Calls : d = [c EXCEPT !.complete = x] /\ d.complete = x /\ Only(c, d, {"complete"})
<1>1. PICK d : d = [c EXCEPT !.complete = x]
  OBVIOUS
<1>2. d \in Calls /\ d.complete = x
  BY <1>1 DEF Calls
<1>3. Only(c, d, {"complete"})
  BY <1>1 DEF Calls, Only, Fields
<1> QED BY <1>1, <1>2, <1>3

LEMMA Set_answers ==
  ASSUME NEW c \in Calls, NEW x \in SUBSET Nat
  PROVE  \E d \in Calls : d = [c EXCEPT !.answers = x] /\ d.answers = x /\ Only(c, d, {"answers"})
<1>1. PICK d : d = [c EXCEPT !.answers = x]
  OBVIOUS
<1>2. d \in Calls /\ d.answers = x
  BY <1>1 DEF Calls
<1>3. Only(c, d, {"answers"})
  BY <1>1 DEF Calls, Only, Fields
<1> QED BY <1>1, <1>2, <1>3

LEMMA Set_delivered ==
  ASSUME NEW c \in Calls, NEW x \in Seq(Nat)
  PROVE  \E d \in Calls : d = [c EXCEPT !.delivered = x] /\ d.delivered = x /\ Only(c, d, {"delivered"})
<1>1. PICK d : d = [c EXCEPT !.delivered = x]
  OBVIOUS
<1>2. d \in Calls /\ d.delivered = x
  BY <1>1 DEF Calls
<1>3. Only(c, d, {"delivered"})
  BY <1>1 DEF Calls, Only, Fields
<1> QED BY <1>1, <1>2, <1>3

LEMMA FieldTypes ==
  ASSUME NEW c \in Calls
  PROVE  /\ c.pc \in CompareStates
         /\ c.kind \in {"", "db", "borrowed"}
         /\ c.conn \in Connections \cup {NoConn}
         /\ c.step \in Nat
         /\ c.arrays \in Seq(Nat)
         /\ c.ref \in Nat
         /\ c.buf \in Nat
         /\ c.samples \in [Variants -> Seq(Sample)]
         /\ c.status \in [Variants -> Statuses]
         /\ c.failed \in [Variants -> BOOLEAN]
         /\ c.pending \in Seq(Observation)
         /\ c.err \in BOOLEAN
         /\ c.complete \in BOOLEAN
         /\ c.answers \in SUBSET Nat
         /\ c.delivered \in Seq(Nat)
  BY DEF Calls

LEMMA VariantType == ASSUME NEW s \in Nat PROVE Variant(s) \in Variants
  BY DEF Variant, Variants, Round

LEMMA DataType == CompareTyping => data \in Nat
  BY DEF CompareTyping

LEMMA Refilled ==
  ASSUME NEW a \in Seq(Nat), NEW b \in Nat, NEW x \in Nat
  PROVE  (IF b = 0 THEN Append(a, x) ELSE [a EXCEPT ![b] = x]) \in Seq(Nat)
<1>1. PICK n \in Nat : a \in [1..n -> Nat]
  OBVIOUS
<1>2. [a EXCEPT ![b] = x] \in [1..n -> Nat]
  BY <1>1
<1> QED BY <1>2

LEMMA ObservedTypes ==
  ASSUME NEW n \in Nat, NEW p \in Seq(Observation)
  PROVE  /\ Append(p, Observed(n, TRUE)) \in Seq(Observation)
         /\ Append(p, Observed(n, FALSE)) \in Seq(Observation)
         /\ Append(p, Observed(n + 1, FALSE)) \in Seq(Observation)
<1>1. \A m \in Nat, k \in BOOLEAN : Observed(m, k) \in Observation
  BY DEF Observed, Observation
<1>2. n + 1 \in Nat
  OBVIOUS
<1>3. \A x \in Observation : Append(p, x) \in Seq(Observation)
  OBVIOUS
<1> QED BY <1>1, <1>2, <1>3, Zenon

LEMMA NoCompareTypes == NoCompare \in Calls
<1>1. <<>> \in Seq(Nat) /\ <<>> \in Seq(Observation) /\ <<>> \in Seq(Sample)
  OBVIOUS
<1>2. [v \in Variants |-> <<>>] \in [Variants -> Seq(Sample)]
  BY <1>1, Zenon
<1>3. [v \in Variants |-> "unknown"] \in [Variants -> Statuses]
  BY DEF Statuses
<1>4. [v \in Variants |-> FALSE] \in [Variants -> BOOLEAN]
  OBVIOUS
<1> QED BY <1>1, <1>2, <1>3, <1>4 DEF NoCompare, Calls, CompareStates

LEMMA PlanStatusTypes ==
  ASSUME NEW v, NEW rows
  PROVE  PlanStatus(v, rows) \in Statuses
  BY DEF PlanStatus, Statuses

LEMMA RefuseFields ==
  ASSUME CompareTyping, RefuseCompare
  PROVE  /\ compare' \in Calls /\ Only(NoCompare, compare', {"pc", "err"})
         /\ compare'.pc = "returned"
         /\ compare'.err = TRUE
<1>0. NoCompare \in Calls
  BY NoCompareTypes
<1>1. PICK x1 \in CompareStates : x1 = "returned"
  BY DEF CompareStates
<1>2. PICK c1 \in Calls : c1 = [NoCompare EXCEPT !.pc = x1] /\ c1.pc = x1 /\ Only(NoCompare, c1, {"pc"})
  BY <1>0, Set_pc
<1>3. PICK x2 \in BOOLEAN : x2 = TRUE
  OBVIOUS
<1>4. PICK c2 \in Calls : c2 = [c1 EXCEPT !.err = x2] /\ c2.err = x2 /\ Only(c1, c2, {"err"})
  BY Set_err
<1>5. compare' = c2
  BY <1>2, <1>4, <1>1, <1>3, Zenon DEF RefuseCompare
<1>6. Only(NoCompare, c1, {"pc"}) /\ Only(c1, c2, {"err"})
  BY <1>2, <1>4, Zenon
<1>7. c1.pc = x1 /\ c2.err = x2
  BY <1>2, <1>4, Zenon
<1>8. Only(NoCompare, compare', {"pc", "err"})
  BY <1>5, <1>6 DEF Only, Fields
<1>9. compare'.pc = c1.pc
  BY <1>5, <1>6 DEF Only, Fields
<1>10. compare'.err = c2.err
  BY <1>5, <1>6 DEF Only, Fields
<1> QED BY <1>1, <1>3, <1>5, <1>7, <1>8, <1>9, <1>10, Zenon

LEMMA StartFields ==
  ASSUME CompareTyping, NEW kind \in Executors, StartCompare(kind)
  PROVE  /\ compare' \in Calls /\ Only(NoCompare, compare', {"pc", "kind"})
         /\ compare'.pc = (IF kind = "db" THEN "pin" ELSE "borrow")
         /\ compare'.kind = kind
<1>0. NoCompare \in Calls
  BY NoCompareTypes
<1>1. PICK x1 \in CompareStates : x1 = (IF kind = "db" THEN "pin" ELSE "borrow")
  BY DEF CompareStates
<1>2. PICK c1 \in Calls : c1 = [NoCompare EXCEPT !.pc = x1] /\ c1.pc = x1 /\ Only(NoCompare, c1, {"pc"})
  BY <1>0, Set_pc
<1>3. PICK x2 \in {"", "db", "borrowed"} : x2 = kind
  BY ComparisonsAssumption
<1>4. PICK c2 \in Calls : c2 = [c1 EXCEPT !.kind = x2] /\ c2.kind = x2 /\ Only(c1, c2, {"kind"})
  BY Set_kind
<1>5. compare' = c2
  BY <1>2, <1>4, <1>1, <1>3, Zenon DEF StartCompare
<1>6. Only(NoCompare, c1, {"pc"}) /\ Only(c1, c2, {"kind"})
  BY <1>2, <1>4, Zenon
<1>7. c1.pc = x1 /\ c2.kind = x2
  BY <1>2, <1>4, Zenon
<1>8. Only(NoCompare, compare', {"pc", "kind"})
  BY <1>5, <1>6 DEF Only, Fields
<1>9. compare'.pc = c1.pc
  BY <1>5, <1>6 DEF Only, Fields
<1>10. compare'.kind = c2.kind
  BY <1>5, <1>6 DEF Only, Fields
<1> QED BY <1>1, <1>3, <1>5, <1>7, <1>8, <1>9, <1>10, Zenon

LEMMA PinFields ==
  ASSUME CompareTyping, NEW c \in Connections, Pin(c)
  PROVE  /\ compare' \in Calls /\ Only(compare, compare', {"pc", "conn"})
         /\ compare'.pc = "select"
         /\ compare'.conn = c
<1>0. compare \in Calls
  BY DEF CompareTyping
<1>1. PICK x1 \in CompareStates : x1 = "select"
  BY DEF CompareStates
<1>2. PICK c1 \in Calls : c1 = [compare EXCEPT !.pc = x1] /\ c1.pc = x1 /\ Only(compare, c1, {"pc"})
  BY <1>0, Set_pc
<1>3. PICK x2 \in Connections \cup {NoConn} : x2 = c
  OBVIOUS
<1>4. PICK c2 \in Calls : c2 = [c1 EXCEPT !.conn = x2] /\ c2.conn = x2 /\ Only(c1, c2, {"conn"})
  BY Set_conn
<1>5. compare' = c2
  BY <1>2, <1>4, <1>1, <1>3, Zenon DEF Pin
<1>6. Only(compare, c1, {"pc"}) /\ Only(c1, c2, {"conn"})
  BY <1>2, <1>4, Zenon
<1>7. c1.pc = x1 /\ c2.conn = x2
  BY <1>2, <1>4, Zenon
<1>8. Only(compare, compare', {"pc", "conn"})
  BY <1>5, <1>6 DEF Only, Fields
<1>9. compare'.pc = c1.pc
  BY <1>5, <1>6 DEF Only, Fields
<1>10. compare'.conn = c2.conn
  BY <1>5, <1>6 DEF Only, Fields
<1> QED BY <1>1, <1>3, <1>5, <1>7, <1>8, <1>9, <1>10, Zenon

LEMMA PinFailsFields ==
  ASSUME CompareTyping, PinFails
  PROVE  /\ compare' \in Calls /\ Only(compare, compare', {"pc", "err"})
         /\ compare'.pc = "returned"
         /\ compare'.err = TRUE
<1>0. compare \in Calls
  BY DEF CompareTyping
<1>1. PICK x1 \in CompareStates : x1 = "returned"
  BY DEF CompareStates
<1>2. PICK c1 \in Calls : c1 = [compare EXCEPT !.pc = x1] /\ c1.pc = x1 /\ Only(compare, c1, {"pc"})
  BY <1>0, Set_pc
<1>3. PICK x2 \in BOOLEAN : x2 = TRUE
  OBVIOUS
<1>4. PICK c2 \in Calls : c2 = [c1 EXCEPT !.err = x2] /\ c2.err = x2 /\ Only(c1, c2, {"err"})
  BY Set_err
<1>5. compare' = c2
  BY <1>2, <1>4, <1>1, <1>3, Zenon DEF PinFails
<1>6. Only(compare, c1, {"pc"}) /\ Only(c1, c2, {"err"})
  BY <1>2, <1>4, Zenon
<1>7. c1.pc = x1 /\ c2.err = x2
  BY <1>2, <1>4, Zenon
<1>8. Only(compare, compare', {"pc", "err"})
  BY <1>5, <1>6 DEF Only, Fields
<1>9. compare'.pc = c1.pc
  BY <1>5, <1>6 DEF Only, Fields
<1>10. compare'.err = c2.err
  BY <1>5, <1>6 DEF Only, Fields
<1> QED BY <1>1, <1>3, <1>5, <1>7, <1>8, <1>9, <1>10, Zenon

LEMMA StopFields ==
  ASSUME CompareTyping, CompareStops
  PROVE  /\ compare' \in Calls /\ Only(compare, compare', {"pc", "failed", "err"})
         /\ compare'.pc = "release"
         /\ compare'.failed = [compare.failed EXCEPT ![Variant(compare.step)] = TRUE]
         /\ compare'.err = TRUE
<1>0. compare \in Calls
  BY DEF CompareTyping
<1>1. PICK x1 \in CompareStates : x1 = "release"
  BY DEF CompareStates
<1>2. PICK c1 \in Calls : c1 = [compare EXCEPT !.pc = x1] /\ c1.pc = x1 /\ Only(compare, c1, {"pc"})
  BY <1>0, Set_pc
<1>3. compare.failed \in [Variants -> BOOLEAN]
  BY <1>0, FieldTypes
<1>4. PICK x2 \in [Variants -> BOOLEAN] : x2 = [compare.failed EXCEPT ![Variant(compare.step)] = TRUE]
  BY <1>3
<1>5. c1.failed = compare.failed
  BY <1>2 DEF Only, Fields
<1>6. PICK c2 \in Calls : c2 = [c1 EXCEPT !.failed = x2] /\ c2.failed = x2 /\ Only(c1, c2, {"failed"})
  BY Set_failed
<1>7. PICK x3 \in BOOLEAN : x3 = TRUE
  OBVIOUS
<1>8. PICK c3 \in Calls : c3 = [c2 EXCEPT !.err = x3] /\ c3.err = x3 /\ Only(c2, c3, {"err"})
  BY Set_err
<1>9. compare' = c3
  BY <1>2, <1>6, <1>8, <1>1, <1>4, <1>5, <1>7, Zenon DEF CompareStops, Fails
<1>10. Only(compare, c1, {"pc"}) /\ Only(c1, c2, {"failed"}) /\ Only(c2, c3, {"err"})
  BY <1>2, <1>6, <1>8, Zenon
<1>11. c1.pc = x1 /\ c2.failed = x2 /\ c3.err = x3
  BY <1>2, <1>6, <1>8, Zenon
<1>12. Only(compare, compare', {"pc", "failed", "err"})
  BY <1>9, <1>10 DEF Only, Fields
<1>13. compare'.pc = c1.pc
  BY <1>9, <1>10 DEF Only, Fields
<1>14. compare'.failed = c2.failed
  BY <1>9, <1>10 DEF Only, Fields
<1>15. compare'.err = c3.err
  BY <1>9, <1>10 DEF Only, Fields
<1> QED BY <1>1, <1>4, <1>5, <1>7, <1>9, <1>11, <1>12, <1>13, <1>14, <1>15, Zenon

LEMMA SelectFailsFields ==
  ASSUME CompareTyping, SelectFails
  PROVE  /\ compare' \in Calls /\ Only(compare, compare', {"pc", "failed", "err", "pending"})
         /\ compare'.pc = "release"
         /\ compare'.failed = [compare.failed EXCEPT ![Variant(compare.step)] = TRUE]
         /\ compare'.err = TRUE
         /\ compare'.pending = Append(compare.pending, Observed(compare.step + 1, FALSE))
<1>0. compare \in Calls
  BY DEF CompareTyping
<1>1. PICK x1 \in CompareStates : x1 = "release"
  BY DEF CompareStates
<1>2. PICK c1 \in Calls : c1 = [compare EXCEPT !.pc = x1] /\ c1.pc = x1 /\ Only(compare, c1, {"pc"})
  BY <1>0, Set_pc
<1>3. compare.failed \in [Variants -> BOOLEAN]
  BY <1>0, FieldTypes
<1>4. PICK x2 \in [Variants -> BOOLEAN] : x2 = [compare.failed EXCEPT ![Variant(compare.step)] = TRUE]
  BY <1>3
<1>5. c1.failed = compare.failed
  BY <1>2 DEF Only, Fields
<1>6. PICK c2 \in Calls : c2 = [c1 EXCEPT !.failed = x2] /\ c2.failed = x2 /\ Only(c1, c2, {"failed"})
  BY Set_failed
<1>7. PICK x3 \in BOOLEAN : x3 = TRUE
  OBVIOUS
<1>8. PICK c3 \in Calls : c3 = [c2 EXCEPT !.err = x3] /\ c3.err = x3 /\ Only(c2, c3, {"err"})
  BY Set_err
<1>9. compare.step \in Nat /\ compare.pending \in Seq(Observation)
  BY <1>0, FieldTypes
<1>10. PICK x4 \in Seq(Observation) : x4 = Append(compare.pending, Observed(compare.step + 1, FALSE))
  BY <1>9, ObservedTypes
<1>11. c3.pending = compare.pending
  BY <1>2, <1>6, <1>8 DEF Only, Fields
<1>12. PICK c4 \in Calls :
            c4 = [c3 EXCEPT !.pending = x4] /\ c4.pending = x4 /\ Only(c3, c4, {"pending"})
  BY Set_pending
<1>13. compare' = c4
  BY <1>2, <1>6, <1>8, <1>12, <1>1, <1>4, <1>5, <1>7, <1>10, <1>11, Zenon DEF SelectFails, Fails
<1>14. /\ Only(compare, c1, {"pc"}) /\ Only(c1, c2, {"failed"})
       /\ Only(c2, c3, {"err"}) /\ Only(c3, c4, {"pending"})
  BY <1>2, <1>6, <1>8, <1>12, Zenon
<1>15. c1.pc = x1 /\ c2.failed = x2 /\ c3.err = x3 /\ c4.pending = x4
  BY <1>2, <1>6, <1>8, <1>12, Zenon
<1>16. Only(compare, compare', {"pc", "failed", "err", "pending"})
  BY <1>13, <1>14 DEF Only, Fields
<1>17. compare'.pc = c1.pc
  BY <1>13, <1>14 DEF Only, Fields
<1>18. compare'.failed = c2.failed
  BY <1>13, <1>14 DEF Only, Fields
<1>19. compare'.err = c3.err
  BY <1>13, <1>14 DEF Only, Fields
<1>20. compare'.pending = c4.pending
  BY <1>13, <1>14 DEF Only, Fields
<1> QED BY <1>1, <1>4, <1>5, <1>7, <1>10, <1>11, <1>13, <1>15, <1>16, <1>17, <1>18, <1>19, <1>20, Zenon

LEMMA SelectFields ==
  ASSUME CompareTyping, Select
  PROVE  /\ compare' \in Calls /\ Only(compare, compare', {"pc", "step", "answers", "arrays", "buf"})
         /\ compare'.pc = "probe"
         /\ compare'.step = compare.step + 1
         /\ compare'.answers = compare.answers \cup {data}
         /\ compare'.arrays = (IF compare.buf = 0 THEN Append(compare.arrays, data)
                               ELSE [compare.arrays EXCEPT ![compare.buf] = data])
         /\ compare'.buf = (IF compare.buf = 0 THEN Len(compare.arrays) + 1 ELSE compare.buf)
<1>0. compare \in Calls
  BY DEF CompareTyping
<1>1. PICK x1 \in CompareStates : x1 = "probe"
  BY DEF CompareStates
<1>2. PICK c1 \in Calls : c1 = [compare EXCEPT !.pc = x1] /\ c1.pc = x1 /\ Only(compare, c1, {"pc"})
  BY <1>0, Set_pc
<1>3. compare.step \in Nat
  BY <1>0, FieldTypes
<1>4. PICK x2 \in Nat : x2 = compare.step + 1
  BY <1>3
<1>5. c1.step = compare.step
  BY <1>2 DEF Only, Fields
<1>6. PICK c2 \in Calls : c2 = [c1 EXCEPT !.step = x2] /\ c2.step = x2 /\ Only(c1, c2, {"step"})
  BY Set_step
<1>7. PICK x3 \in SUBSET Nat : x3 = compare.answers \cup {data}
  BY <1>0, FieldTypes, DataType
<1>8. c2.answers = compare.answers
  BY <1>2, <1>6 DEF Only, Fields
<1>9. PICK c3 \in Calls :
            c3 = [c2 EXCEPT !.answers = x3] /\ c3.answers = x3 /\ Only(c2, c3, {"answers"})
  BY Set_answers
<1>10. compare.arrays \in Seq(Nat) /\ compare.buf \in Nat
  BY <1>0, FieldTypes
<1>11. PICK x4 \in Seq(Nat) :
            x4 = (IF compare.buf = 0 THEN Append(compare.arrays, data)
                  ELSE [compare.arrays EXCEPT ![compare.buf] = data])
  BY <1>10, Refilled, DataType
<1>12. c3.arrays = compare.arrays
  BY <1>2, <1>6, <1>9 DEF Only, Fields
<1>13. PICK c4 \in Calls : c4 = [c3 EXCEPT !.arrays = x4] /\ c4.arrays = x4 /\ Only(c3, c4, {"arrays"})
  BY Set_arrays
<1>14. compare.arrays \in Seq(Nat) /\ compare.buf \in Nat
  BY <1>0, FieldTypes
<1>15. PICK x5 \in Nat : x5 = (IF compare.buf = 0 THEN Len(compare.arrays) + 1 ELSE compare.buf)
  BY <1>14
<1>16. c4.buf = compare.buf
  BY <1>2, <1>6, <1>9, <1>13 DEF Only, Fields
<1>17. PICK c5 \in Calls : c5 = [c4 EXCEPT !.buf = x5] /\ c5.buf = x5 /\ Only(c4, c5, {"buf"})
  BY Set_buf
<1>18. compare' = c5
  BY <1>2, <1>6, <1>9, <1>13, <1>17, <1>1, <1>4, <1>5, <1>7, <1>8, <1>11, <1>12, <1>15, <1>16,
     Zenon DEF Select
<1>19. /\ Only(compare, c1, {"pc"}) /\ Only(c1, c2, {"step"}) /\ Only(c2, c3, {"answers"})
       /\ Only(c3, c4, {"arrays"}) /\ Only(c4, c5, {"buf"})
  BY <1>2, <1>6, <1>9, <1>13, <1>17, Zenon
<1>20. c1.pc = x1 /\ c2.step = x2 /\ c3.answers = x3 /\ c4.arrays = x4 /\ c5.buf = x5
  BY <1>2, <1>6, <1>9, <1>13, <1>17, Zenon
<1>21. Only(compare, compare', {"pc", "step", "answers", "arrays", "buf"})
  BY <1>18, <1>19 DEF Only, Fields
<1>22. compare'.pc = c1.pc
  BY <1>18, <1>19 DEF Only, Fields
<1>23. compare'.step = c2.step
  BY <1>18, <1>19 DEF Only, Fields
<1>24. compare'.answers = c3.answers
  BY <1>18, <1>19 DEF Only, Fields
<1>25. compare'.arrays = c4.arrays
  BY <1>18, <1>19 DEF Only, Fields
<1>26. compare'.buf = c5.buf
  BY <1>18, <1>19 DEF Only, Fields
<1> QED BY <1>1, <1>4, <1>5, <1>7, <1>8, <1>11, <1>12, <1>15, <1>16, <1>18, <1>20, <1>21, <1>22,
    <1>23, <1>24, <1>25, <1>26, Zenon

LEMMA ProbeFailsFields ==
  ASSUME CompareTyping, ProbeFails
  PROVE  /\ compare' \in Calls /\ Only(compare, compare', {"pc", "failed", "err", "pending"})
         /\ compare'.pc = "release"
         /\ compare'.failed = [compare.failed EXCEPT ![Variant(compare.step - 1)] = TRUE]
         /\ compare'.err = TRUE
         /\ compare'.pending = Append(compare.pending, Observed(compare.step, FALSE))
<1>0. compare \in Calls
  BY DEF CompareTyping
<1>1. PICK x1 \in CompareStates : x1 = "release"
  BY DEF CompareStates
<1>2. PICK c1 \in Calls : c1 = [compare EXCEPT !.pc = x1] /\ c1.pc = x1 /\ Only(compare, c1, {"pc"})
  BY <1>0, Set_pc
<1>3. compare.failed \in [Variants -> BOOLEAN]
  BY <1>0, FieldTypes
<1>4. PICK x2 \in [Variants -> BOOLEAN] :
            x2 = [compare.failed EXCEPT ![Variant(compare.step - 1)] = TRUE]
  BY <1>3
<1>5. c1.failed = compare.failed
  BY <1>2 DEF Only, Fields
<1>6. PICK c2 \in Calls : c2 = [c1 EXCEPT !.failed = x2] /\ c2.failed = x2 /\ Only(c1, c2, {"failed"})
  BY Set_failed
<1>7. PICK x3 \in BOOLEAN : x3 = TRUE
  OBVIOUS
<1>8. PICK c3 \in Calls : c3 = [c2 EXCEPT !.err = x3] /\ c3.err = x3 /\ Only(c2, c3, {"err"})
  BY Set_err
<1>9. compare.step \in Nat /\ compare.pending \in Seq(Observation)
  BY <1>0, FieldTypes
<1>10. PICK x4 \in Seq(Observation) : x4 = Append(compare.pending, Observed(compare.step, FALSE))
  BY <1>9, ObservedTypes
<1>11. c3.pending = compare.pending
  BY <1>2, <1>6, <1>8 DEF Only, Fields
<1>12. PICK c4 \in Calls :
            c4 = [c3 EXCEPT !.pending = x4] /\ c4.pending = x4 /\ Only(c3, c4, {"pending"})
  BY Set_pending
<1>13. compare' = c4
  BY <1>2, <1>6, <1>8, <1>12, <1>1, <1>4, <1>5, <1>7, <1>10, <1>11, Zenon DEF ProbeFails, Fails
<1>14. /\ Only(compare, c1, {"pc"}) /\ Only(c1, c2, {"failed"})
       /\ Only(c2, c3, {"err"}) /\ Only(c3, c4, {"pending"})
  BY <1>2, <1>6, <1>8, <1>12, Zenon
<1>15. c1.pc = x1 /\ c2.failed = x2 /\ c3.err = x3 /\ c4.pending = x4
  BY <1>2, <1>6, <1>8, <1>12, Zenon
<1>16. Only(compare, compare', {"pc", "failed", "err", "pending"})
  BY <1>13, <1>14 DEF Only, Fields
<1>17. compare'.pc = c1.pc
  BY <1>13, <1>14 DEF Only, Fields
<1>18. compare'.failed = c2.failed
  BY <1>13, <1>14 DEF Only, Fields
<1>19. compare'.err = c3.err
  BY <1>13, <1>14 DEF Only, Fields
<1>20. compare'.pending = c4.pending
  BY <1>13, <1>14 DEF Only, Fields
<1> QED BY <1>1, <1>4, <1>5, <1>7, <1>10, <1>11, <1>13, <1>15, <1>16, <1>17, <1>18, <1>19, <1>20, Zenon

LEMMA DiffersFields ==
  ASSUME CompareTyping, Probe, Differs
  PROVE  /\ compare' \in Calls /\ Only(compare, compare', {"pending", "pc", "failed", "err"})
         /\ compare'.pending = Append(compare.pending, Observed(compare.step, TRUE))
         /\ compare'.pc = "release"
         /\ compare'.failed = [compare.failed EXCEPT ![Variant(compare.step - 1)] = TRUE]
         /\ compare'.err = TRUE
<1>0. compare \in Calls
  BY DEF CompareTyping
<1>1. compare.step \in Nat /\ compare.pending \in Seq(Observation)
  BY <1>0, FieldTypes
<1>2. PICK x1 \in Seq(Observation) : x1 = Append(compare.pending, Observed(compare.step, TRUE))
  BY <1>1, ObservedTypes
<1>3. PICK c1 \in Calls :
            c1 = [compare EXCEPT !.pending = x1] /\ c1.pending = x1 /\ Only(compare, c1, {"pending"})
  BY <1>0, Set_pending
<1>4. PICK x2 \in CompareStates : x2 = "release"
  BY DEF CompareStates
<1>5. PICK c2 \in Calls : c2 = [c1 EXCEPT !.pc = x2] /\ c2.pc = x2 /\ Only(c1, c2, {"pc"})
  BY Set_pc
<1>6. compare.failed \in [Variants -> BOOLEAN]
  BY <1>0, FieldTypes
<1>7. PICK x3 \in [Variants -> BOOLEAN] :
            x3 = [compare.failed EXCEPT ![Variant(compare.step - 1)] = TRUE]
  BY <1>6
<1>8. c2.failed = compare.failed
  BY <1>3, <1>5 DEF Only, Fields
<1>9. PICK c3 \in Calls : c3 = [c2 EXCEPT !.failed = x3] /\ c3.failed = x3 /\ Only(c2, c3, {"failed"})
  BY Set_failed
<1>10. PICK x4 \in BOOLEAN : x4 = TRUE
  OBVIOUS
<1>11. PICK c4 \in Calls : c4 = [c3 EXCEPT !.err = x4] /\ c4.err = x4 /\ Only(c3, c4, {"err"})
  BY Set_err
<1>12. compare' = c4
  BY <1>3, <1>5, <1>9, <1>11, <1>2, <1>4, <1>7, <1>8, <1>10, Zenon DEF Probe
<1>13. /\ Only(compare, c1, {"pending"}) /\ Only(c1, c2, {"pc"})
       /\ Only(c2, c3, {"failed"}) /\ Only(c3, c4, {"err"})
  BY <1>3, <1>5, <1>9, <1>11, Zenon
<1>14. c1.pending = x1 /\ c2.pc = x2 /\ c3.failed = x3 /\ c4.err = x4
  BY <1>3, <1>5, <1>9, <1>11, Zenon
<1>15. Only(compare, compare', {"pending", "pc", "failed", "err"})
  BY <1>12, <1>13 DEF Only, Fields
<1>16. compare'.pending = c1.pending
  BY <1>12, <1>13 DEF Only, Fields
<1>17. compare'.pc = c2.pc
  BY <1>12, <1>13 DEF Only, Fields
<1>18. compare'.failed = c3.failed
  BY <1>12, <1>13 DEF Only, Fields
<1>19. compare'.err = c4.err
  BY <1>12, <1>13 DEF Only, Fields
<1> QED BY <1>2, <1>4, <1>7, <1>8, <1>10, <1>12, <1>14, <1>15, <1>16, <1>17, <1>18, <1>19, Zenon

\* The samples after a probe that answered.
Sampled ==
    [compare.samples EXCEPT
       ![Variant(compare.step - 1)] = IF Round(compare.step - 1) < Warmup THEN @
                                      ELSE Append(@, [of |-> compare.step, by |-> last[ProbeSession]])]

LEMMA SampledType ==
  ASSUME CompareTyping, ConnInv, StepInv, compare.pc = "probe"
  PROVE  Sampled \in [Variants -> Seq(Sample)]
<1>0. compare \in Calls /\ last \in [Connections -> Nat]
  BY DEF CompareTyping
<1>1. compare.step \in Nat /\ compare.samples \in [Variants -> Seq(Sample)]
  BY <1>0, FieldTypes
<1>2. compare.step - 1 \in Nat
  BY <1>1 DEF StepInv
<1>3. PICK v \in Variants : v = Variant(compare.step - 1)
  BY <1>2, VariantType
<1>4. last[ProbeSession] \in Nat
  BY <1>0 DEF ConnInv, Holding, ProbeSession
<1>5. [of |-> compare.step, by |-> last[ProbeSession]] \in Sample
  BY <1>1, <1>4 DEF Sample
<1>6. compare.samples[v] \in Seq(Sample)
  BY <1>1
<1>9. Append(compare.samples[v], [of |-> compare.step, by |-> last[ProbeSession]]) \in Seq(Sample)
  BY <1>5, <1>6
<1>7. PICK x \in Seq(Sample) : x = IF Round(compare.step - 1) < Warmup THEN compare.samples[v]
                                
                    ELSE Append(compare.samples[v], [of |-> compare.step, by |-> last[ProbeSession]])
  BY <1>6, <1>9
<1>8. Sampled = [compare.samples EXCEPT ![v] = x]
  BY <1>3, <1>7, Zenon DEF Sampled
<1> QED BY <1>1, <1>8

LEMMA AdoptedTypes == CompareTyping => Adopted.ref \in Nat /\ Adopted.buf \in Nat
<1> SUFFICES ASSUME CompareTyping PROVE Adopted.ref \in Nat /\ Adopted.buf \in Nat
  OBVIOUS
<1>0. compare \in Calls
  BY DEF CompareTyping
<1>1. compare.ref \in Nat /\ compare.buf \in Nat
  BY <1>0, FieldTypes
<1> QED BY <1>1 DEF Adopted

LEMMA AgreesFields ==
  ASSUME CompareTyping, ConnInv, StepInv, Probe, ~Differs
  PROVE  /\ compare' \in Calls /\ Only(compare, compare', {"pending", "pc", "ref", "buf", "samples"})
         /\ compare'.pending = Append(compare.pending, Observed(compare.step, TRUE))
         /\ compare'.pc = (IF compare.step = 3 * Rounds THEN "plan" ELSE "select")
         /\ compare'.ref = Adopted.ref
         /\ compare'.buf = Adopted.buf
         /\ compare'.samples = Sampled
<1>0. compare \in Calls
  BY DEF CompareTyping
<1>1. compare.step \in Nat /\ compare.pending \in Seq(Observation)
  BY <1>0, FieldTypes
<1>2. PICK x1 \in Seq(Observation) : x1 = Append(compare.pending, Observed(compare.step, TRUE))
  BY <1>1, ObservedTypes
<1>3. PICK c1 \in Calls :
            c1 = [compare EXCEPT !.pending = x1] /\ c1.pending = x1 /\ Only(compare, c1, {"pending"})
  BY <1>0, Set_pending
<1>4. PICK x2 \in CompareStates : x2 = (IF compare.step = 3 * Rounds THEN "plan" ELSE "select")
  BY DEF CompareStates
<1>5. PICK c2 \in Calls : c2 = [c1 EXCEPT !.pc = x2] /\ c2.pc = x2 /\ Only(c1, c2, {"pc"})
  BY Set_pc
<1>6. PICK x3 \in Nat : x3 = Adopted.ref
  BY AdoptedTypes
<1>7. PICK c3 \in Calls : c3 = [c2 EXCEPT !.ref = x3] /\ c3.ref = x3 /\ Only(c2, c3, {"ref"})
  BY Set_ref
<1>8. PICK x4 \in Nat : x4 = Adopted.buf
  BY AdoptedTypes
<1>9. PICK c4 \in Calls : c4 = [c3 EXCEPT !.buf = x4] /\ c4.buf = x4 /\ Only(c3, c4, {"buf"})
  BY Set_buf
<1>10. PICK x5 \in [Variants -> Seq(Sample)] : x5 = Sampled
  BY SampledType DEF Probe
<1>11. c1.samples = compare.samples /\ c4.samples = compare.samples
  BY <1>3, <1>5, <1>7, <1>9 DEF Only, Fields
<1>12. PICK c5 \in Calls :
            c5 = [c4 EXCEPT !.samples = x5] /\ c5.samples = x5 /\ Only(c4, c5, {"samples"})
  BY Set_samples
<1>13. compare' = [c1 EXCEPT !.pc = IF compare.step = 3 * Rounds THEN "plan" ELSE "select",
                               !.ref = Adopted.ref, !.buf = Adopted.buf,
                               !.samples[Variant(compare.step - 1)] =
                                  IF Round(compare.step - 1) < Warmup THEN @
                                  ELSE Append(@, [of |-> compare.step, by |-> last[ProbeSession]])]
  BY <1>3, <1>2, Zenon DEF Probe
<1>14. compare' = c5
  BY <1>3, <1>5, <1>7, <1>9, <1>12, <1>13, <1>2, <1>4, <1>6, <1>8, <1>10, <1>11, Zenon
     DEF Sampled
<1>15. /\ Only(compare, c1, {"pending"}) /\ Only(c1, c2, {"pc"}) /\ Only(c2, c3, {"ref"})
       /\ Only(c3, c4, {"buf"}) /\ Only(c4, c5, {"samples"})
  BY <1>3, <1>5, <1>7, <1>9, <1>12, Zenon
<1>16. c1.pending = x1 /\ c2.pc = x2 /\ c3.ref = x3 /\ c4.buf = x4 /\ c5.samples = x5
  BY <1>3, <1>5, <1>7, <1>9, <1>12, Zenon
<1>17. Only(compare, compare', {"pending", "pc", "ref", "buf", "samples"})
  BY <1>14, <1>15 DEF Only, Fields
<1>18. compare'.pending = c1.pending
  BY <1>14, <1>15 DEF Only, Fields
<1>19. compare'.pc = c2.pc
  BY <1>14, <1>15 DEF Only, Fields
<1>20. compare'.ref = c3.ref
  BY <1>14, <1>15 DEF Only, Fields
<1>21. compare'.buf = c4.buf
  BY <1>14, <1>15 DEF Only, Fields
<1>22. compare'.samples = c5.samples
  BY <1>14, <1>15 DEF Only, Fields
<1> QED BY <1>2, <1>4, <1>6, <1>8, <1>10, <1>11, <1>14, <1>16, <1>17, <1>18, <1>19, <1>20, <1>21,
    <1>22, Zenon

\* Every EXPLAIN ANALYZE goes on with its own outcome.
Explained(ok, status) ==
    LET v == compare.step - 3 * Rounds + 1
    IN  compare' = [compare EXCEPT
                      !.step = @ + 1, !.pending = Append(@, Observed(compare.step + 1, FALSE)),
                      !.status[v] = status, !.failed[v] = ~ok, !.err = @ \/ ~ok \/ cancelled',
                      !.pc = IF v = 3 \/ cancelled' THEN "release" ELSE "plan"]

LEMMA ExplainOutcomes ==
  ASSUME Explain
  PROVE  \/ Explained(FALSE, "unknown")
         \/ ~cancelled /\ \E status \in Statuses : Explained(status \in {"matched", "unrequested"}, status)
<1>2. CASE ~cancelled /\ \E rows \in Plans :
              Explained(PlanStatus(compare.step - 3 * Rounds + 1, rows) \in {"matched", "unrequested"},
                        PlanStatus(compare.step - 3 * Rounds + 1, rows))
  <2>1. PICK rows \in Plans :
              Explained(PlanStatus(compare.step - 3 * Rounds + 1, rows) \in {"matched", "unrequested"},
                        PlanStatus(compare.step - 3 * Rounds + 1, rows))
    BY <1>2, Zenon
  <2>2. PICK status \in Statuses : status = PlanStatus(compare.step - 3 * Rounds + 1, rows)
    BY PlanStatusTypes, Zenon
  <2>4. Explained(status \in {"matched", "unrequested"}, status)
    BY <2>1, <2>2, Zenon
  <2> QED BY <1>2, <2>4, Zenon
<1> QED BY <1>2, Zenon DEF Explain, Explained

LEMMA ExplainFailsFields ==
  ASSUME CompareTyping, Explained(FALSE, "unknown"), cancelled' \in BOOLEAN
  PROVE  /\ compare' \in Calls
         /\ Only(compare, compare', {"step", "pending", "status", "failed", "err", "pc"})
         /\ compare'.step = compare.step + 1
         /\ compare'.pending = Append(compare.pending, Observed(compare.step + 1, FALSE))
         /\ compare'.status = [compare.status EXCEPT ![compare.step - 3 * Rounds + 1] = "unknown"]
         /\ compare'.failed = [compare.failed EXCEPT ![compare.step - 3 * Rounds + 1] = ~FALSE]
         /\ compare'.err = (compare.err \/ ~FALSE \/ cancelled')
         /\ compare'.pc = (IF compare.step - 3 * Rounds + 1 = 3 \/ cancelled' THEN "release" ELSE "plan")
<1>0. compare \in Calls
  BY DEF CompareTyping
<1>1. compare.step \in Nat
  BY <1>0, FieldTypes
<1>2. PICK x1 \in Nat : x1 = compare.step + 1
  BY <1>1
<1>3. PICK c1 \in Calls :
            c1 = [compare EXCEPT !.step = x1] /\ c1.step = x1 /\ Only(compare, c1, {"step"})
  BY <1>0, Set_step
<1>4. compare.step \in Nat /\ compare.pending \in Seq(Observation)
  BY <1>0, FieldTypes
<1>5. PICK x2 \in Seq(Observation) : x2 = Append(compare.pending, Observed(compare.step + 1, FALSE))
  BY <1>4, ObservedTypes
<1>6. c1.pending = compare.pending
  BY <1>3 DEF Only, Fields
<1>7. PICK c2 \in Calls :
            c2 = [c1 EXCEPT !.pending = x2] /\ c2.pending = x2 /\ Only(c1, c2, {"pending"})
  BY Set_pending
<1>8. compare.status \in [Variants -> Statuses]
  BY <1>0, FieldTypes
<1>9. PICK x3 \in [Variants -> Statuses] :
            x3 = [compare.status EXCEPT ![compare.step - 3 * Rounds + 1] = "unknown"]
  BY <1>8 DEF Statuses
<1>10. c2.status = compare.status
  BY <1>3, <1>7 DEF Only, Fields
<1>11. PICK c3 \in Calls : c3 = [c2 EXCEPT !.status = x3] /\ c3.status = x3 /\ Only(c2, c3, {"status"})
  BY Set_status
<1>12. compare.failed \in [Variants -> BOOLEAN]
  BY <1>0, FieldTypes
<1>13. PICK x4 \in [Variants -> BOOLEAN] :
            x4 = [compare.failed EXCEPT ![compare.step - 3 * Rounds + 1] = ~FALSE]
  BY <1>12
<1>14. c3.failed = compare.failed
  BY <1>3, <1>7, <1>11 DEF Only, Fields
<1>15. PICK c4 \in Calls : c4 = [c3 EXCEPT !.failed = x4] /\ c4.failed = x4 /\ Only(c3, c4, {"failed"})
  BY Set_failed
<1>16. compare.err \in BOOLEAN
  BY <1>0, FieldTypes
<1>17. PICK x5 \in BOOLEAN : x5 = (compare.err \/ ~FALSE \/ cancelled')
  BY <1>16
<1>18. c4.err = compare.err
  BY <1>3, <1>7, <1>11, <1>15 DEF Only, Fields
<1>19. PICK c5 \in Calls : c5 = [c4 EXCEPT !.err = x5] /\ c5.err = x5 /\ Only(c4, c5, {"err"})
  BY Set_err
<1>20. PICK x6 \in CompareStates : x6 = (IF compare.step - 3 * Rounds + 1 = 3 \/ cancelled' THEN "release" ELSE "plan")
  BY DEF CompareStates
<1>21. PICK c6 \in Calls : c6 = [c5 EXCEPT !.pc = x6] /\ c6.pc = x6 /\ Only(c5, c6, {"pc"})
  BY Set_pc
<1>22. compare' = c6
  BY <1>3, <1>7, <1>11, <1>15, <1>19, <1>21, <1>2, <1>5, <1>6, <1>9, <1>10, <1>13, <1>14, <1>17,
     <1>18, <1>20, Zenon DEF Explained
<1>23. /\ Only(compare, c1, {"step"}) /\ Only(c1, c2, {"pending"}) /\ Only(c2, c3, {"status"})
       /\ Only(c3, c4, {"failed"}) /\ Only(c4, c5, {"err"}) /\ Only(c5, c6, {"pc"})
  BY <1>3, <1>7, <1>11, <1>15, <1>19, <1>21, Zenon
<1>24. c1.step = x1 /\ c2.pending = x2 /\ c3.status = x3 /\ c4.failed = x4 /\ c5.err = x5 /\ c6.pc = x6
  BY <1>3, <1>7, <1>11, <1>15, <1>19, <1>21, Zenon
<1>25. Only(compare, compare', {"step", "pending", "status", "failed", "err", "pc"})
  BY <1>22, <1>23 DEF Only, Fields
<1>26. compare'.step = c1.step
  BY <1>22, <1>23 DEF Only, Fields
<1>27. compare'.pending = c2.pending
  BY <1>22, <1>23 DEF Only, Fields
<1>28. compare'.status = c3.status
  BY <1>22, <1>23 DEF Only, Fields
<1>29. compare'.failed = c4.failed
  BY <1>22, <1>23 DEF Only, Fields
<1>30. compare'.err = c5.err
  BY <1>22, <1>23 DEF Only, Fields
<1>31. compare'.pc = c6.pc
  BY <1>22, <1>23 DEF Only, Fields
<1> QED BY <1>2, <1>5, <1>6, <1>9, <1>10, <1>13, <1>14, <1>17, <1>18, <1>20, <1>22, <1>24, <1>25,
    <1>26, <1>27, <1>28, <1>29, <1>30, <1>31, Zenon

LEMMA ExplainFields ==
  ASSUME CompareTyping, NEW status \in Statuses,
         Explained(status \in {"matched", "unrequested"}, status), cancelled' \in BOOLEAN
  PROVE  /\ compare' \in Calls
         /\ Only(compare, compare', {"step", "pending", "status", "failed", "err", "pc"})
         /\ compare'.step = compare.step + 1
         /\ compare'.pending = Append(compare.pending, Observed(compare.step + 1, FALSE))
         /\ compare'.status = [compare.status EXCEPT ![compare.step - 3 * Rounds + 1] = status]
         /\ compare'.failed =
               [compare.failed EXCEPT ![compare.step - 3 * Rounds + 1] = ~(status \in {"matched", "unrequested"})]
         /\ compare'.err = (compare.err \/ ~(status \in {"matched", "unrequested"}) \/ cancelled')
         /\ compare'.pc = (IF compare.step - 3 * Rounds + 1 = 3 \/ cancelled' THEN "release" ELSE "plan")
<1>0. compare \in Calls
  BY DEF CompareTyping
<1>1. compare.step \in Nat
  BY <1>0, FieldTypes
<1>2. PICK x1 \in Nat : x1 = compare.step + 1
  BY <1>1
<1>3. PICK c1 \in Calls :
            c1 = [compare EXCEPT !.step = x1] /\ c1.step = x1 /\ Only(compare, c1, {"step"})
  BY <1>0, Set_step
<1>4. compare.step \in Nat /\ compare.pending \in Seq(Observation)
  BY <1>0, FieldTypes
<1>5. PICK x2 \in Seq(Observation) : x2 = Append(compare.pending, Observed(compare.step + 1, FALSE))
  BY <1>4, ObservedTypes
<1>6. c1.pending = compare.pending
  BY <1>3 DEF Only, Fields
<1>7. PICK c2 \in Calls :
            c2 = [c1 EXCEPT !.pending = x2] /\ c2.pending = x2 /\ Only(c1, c2, {"pending"})
  BY Set_pending
<1>8. compare.status \in [Variants -> Statuses]
  BY <1>0, FieldTypes
<1>9. PICK x3 \in [Variants -> Statuses] :
            x3 = [compare.status EXCEPT ![compare.step - 3 * Rounds + 1] = status]
  BY <1>8 DEF Statuses
<1>10. c2.status = compare.status
  BY <1>3, <1>7 DEF Only, Fields
<1>11. PICK c3 \in Calls : c3 = [c2 EXCEPT !.status = x3] /\ c3.status = x3 /\ Only(c2, c3, {"status"})
  BY Set_status
<1>12. compare.failed \in [Variants -> BOOLEAN]
  BY <1>0, FieldTypes
<1>13. PICK x4 \in [Variants -> BOOLEAN] : x4 = [compare.failed EXCEPT ![compare.step - 3 * Rounds + 1] = ~(status \in {"matched", "unrequested"})]
  BY <1>12
<1>14. c3.failed = compare.failed
  BY <1>3, <1>7, <1>11 DEF Only, Fields
<1>15. PICK c4 \in Calls : c4 = [c3 EXCEPT !.failed = x4] /\ c4.failed = x4 /\ Only(c3, c4, {"failed"})
  BY Set_failed
<1>16. compare.err \in BOOLEAN
  BY <1>0, FieldTypes
<1>17. PICK x5 \in BOOLEAN : x5 = (compare.err \/ ~(status \in {"matched", "unrequested"}) \/ cancelled')
  BY <1>16
<1>18. c4.err = compare.err
  BY <1>3, <1>7, <1>11, <1>15 DEF Only, Fields
<1>19. PICK c5 \in Calls : c5 = [c4 EXCEPT !.err = x5] /\ c5.err = x5 /\ Only(c4, c5, {"err"})
  BY Set_err
<1>20. PICK x6 \in CompareStates : x6 = (IF compare.step - 3 * Rounds + 1 = 3 \/ cancelled' THEN "release" ELSE "plan")
  BY DEF CompareStates
<1>21. PICK c6 \in Calls : c6 = [c5 EXCEPT !.pc = x6] /\ c6.pc = x6 /\ Only(c5, c6, {"pc"})
  BY Set_pc
<1>22. compare' = c6
  BY <1>3, <1>7, <1>11, <1>15, <1>19, <1>21, <1>2, <1>5, <1>6, <1>9, <1>10, <1>13, <1>14, <1>17,
     <1>18, <1>20, Zenon DEF Explained
<1>23. /\ Only(compare, c1, {"step"}) /\ Only(c1, c2, {"pending"}) /\ Only(c2, c3, {"status"})
       /\ Only(c3, c4, {"failed"}) /\ Only(c4, c5, {"err"}) /\ Only(c5, c6, {"pc"})
  BY <1>3, <1>7, <1>11, <1>15, <1>19, <1>21, Zenon
<1>24. c1.step = x1 /\ c2.pending = x2 /\ c3.status = x3 /\ c4.failed = x4 /\ c5.err = x5 /\ c6.pc = x6
  BY <1>3, <1>7, <1>11, <1>15, <1>19, <1>21, Zenon
<1>25. Only(compare, compare', {"step", "pending", "status", "failed", "err", "pc"})
  BY <1>22, <1>23 DEF Only, Fields
<1>26. compare'.step = c1.step
  BY <1>22, <1>23 DEF Only, Fields
<1>27. compare'.pending = c2.pending
  BY <1>22, <1>23 DEF Only, Fields
<1>28. compare'.status = c3.status
  BY <1>22, <1>23 DEF Only, Fields
<1>29. compare'.failed = c4.failed
  BY <1>22, <1>23 DEF Only, Fields
<1>30. compare'.err = c5.err
  BY <1>22, <1>23 DEF Only, Fields
<1>31. compare'.pc = c6.pc
  BY <1>22, <1>23 DEF Only, Fields
<1> QED BY <1>2, <1>5, <1>6, <1>9, <1>10, <1>13, <1>14, <1>17, <1>18, <1>20, <1>22, <1>24, <1>25,
    <1>26, <1>27, <1>28, <1>29, <1>30, <1>31, Zenon

LEMMA EmptyNat == <<>> \in Seq(Nat)
  OBVIOUS

\* The release, with its own outcome.
Freed(ok) ==
    compare' = [compare EXCEPT !.pc = "deliver", !.err = @ \/ ~ok, !.complete = ok /\ ~compare.err,
                               !.arrays = <<>>, !.ref = 0, !.buf = 0]

LEMMA ReleaseOutcomes == Release => \E ok \in BOOLEAN : Freed(ok)
  BY Zenon DEF Release, Freed

LEMMA ReleaseFields ==
  ASSUME CompareTyping, NEW ok \in BOOLEAN, Freed(ok)
  PROVE  /\ compare' \in Calls
         /\ Only(compare, compare', {"pc", "err", "complete", "arrays", "ref", "buf"})
         /\ compare'.pc = "deliver"
         /\ compare'.err = (compare.err \/ ~ok)
         /\ compare'.complete = (ok /\ ~compare.err)
         /\ compare'.arrays = <<>>
         /\ compare'.ref = 0
         /\ compare'.buf = 0
<1>0. compare \in Calls
  BY DEF CompareTyping
<1>1. PICK x1 \in CompareStates : x1 = "deliver"
  BY DEF CompareStates
<1>2. PICK c1 \in Calls : c1 = [compare EXCEPT !.pc = x1] /\ c1.pc = x1 /\ Only(compare, c1, {"pc"})
  BY <1>0, Set_pc
<1>3. compare.err \in BOOLEAN
  BY <1>0, FieldTypes
<1>4. PICK x2 \in BOOLEAN : x2 = (compare.err \/ ~ok)
  BY <1>3
<1>5. c1.err = compare.err
  BY <1>2 DEF Only, Fields
<1>6. PICK c2 \in Calls : c2 = [c1 EXCEPT !.err = x2] /\ c2.err = x2 /\ Only(c1, c2, {"err"})
  BY Set_err
<1>7. compare.err \in BOOLEAN
  BY <1>0, FieldTypes
<1>8. PICK x3 \in BOOLEAN : x3 = (ok /\ ~compare.err)
  BY <1>7
<1>9. PICK c3 \in Calls :
            c3 = [c2 EXCEPT !.complete = x3] /\ c3.complete = x3 /\ Only(c2, c3, {"complete"})
  BY Set_complete
<1>10. PICK x4 \in Seq(Nat) : x4 = <<>>
  BY EmptyNat
<1>11. PICK c4 \in Calls : c4 = [c3 EXCEPT !.arrays = x4] /\ c4.arrays = x4 /\ Only(c3, c4, {"arrays"})
  BY Set_arrays
<1>12. PICK x5 \in Nat : x5 = 0
  OBVIOUS
<1>13. PICK c5 \in Calls : c5 = [c4 EXCEPT !.ref = x5] /\ c5.ref = x5 /\ Only(c4, c5, {"ref"})
  BY Set_ref
<1>14. PICK x6 \in Nat : x6 = 0
  OBVIOUS
<1>15. PICK c6 \in Calls : c6 = [c5 EXCEPT !.buf = x6] /\ c6.buf = x6 /\ Only(c5, c6, {"buf"})
  BY Set_buf
<1>16. compare' = c6
  BY <1>2, <1>6, <1>9, <1>11, <1>13, <1>15, <1>1, <1>4, <1>5, <1>8, <1>10, <1>12, <1>14, Zenon
     DEF Freed
<1>17. /\ Only(compare, c1, {"pc"}) /\ Only(c1, c2, {"err"}) /\ Only(c2, c3, {"complete"})
       /\ Only(c3, c4, {"arrays"}) /\ Only(c4, c5, {"ref"}) /\ Only(c5, c6, {"buf"})
  BY <1>2, <1>6, <1>9, <1>11, <1>13, <1>15, Zenon
<1>18. c1.pc = x1 /\ c2.err = x2 /\ c3.complete = x3 /\ c4.arrays = x4 /\ c5.ref = x5 /\ c6.buf = x6
  BY <1>2, <1>6, <1>9, <1>11, <1>13, <1>15, Zenon
<1>19. Only(compare, compare', {"pc", "err", "complete", "arrays", "ref", "buf"})
  BY <1>16, <1>17 DEF Only, Fields
<1>20. compare'.pc = c1.pc
  BY <1>16, <1>17 DEF Only, Fields
<1>21. compare'.err = c2.err
  BY <1>16, <1>17 DEF Only, Fields
<1>22. compare'.complete = c3.complete
  BY <1>16, <1>17 DEF Only, Fields
<1>23. compare'.arrays = c4.arrays
  BY <1>16, <1>17 DEF Only, Fields
<1>24. compare'.ref = c5.ref
  BY <1>16, <1>17 DEF Only, Fields
<1>25. compare'.buf = c6.buf
  BY <1>16, <1>17 DEF Only, Fields
<1> QED BY <1>1, <1>4, <1>5, <1>8, <1>10, <1>12, <1>14, <1>16, <1>18, <1>19, <1>20, <1>21, <1>22,
    <1>23, <1>24, <1>25, Zenon

LEMMA HeadType ==
  ASSUME CompareTyping, Deliver
  PROVE  /\ Head(compare.pending) \in Observation /\ Head(compare.pending).of \in Nat
         /\ Tail(compare.pending) \in Seq(Observation)
         /\ Append(compare.delivered, Head(compare.pending).of) \in Seq(Nat)
<1>0. compare \in Calls
  BY DEF CompareTyping
<1>1. compare.pending \in Seq(Observation)
  BY <1>0, FieldTypes
<1>2. Head(compare.pending) \in Observation /\ Tail(compare.pending) \in Seq(Observation)
  BY <1>1 DEF Deliver
<1>3. PICK n \in Nat : n = Head(compare.pending).of
  BY <1>2 DEF Observation
<1>4. compare.delivered \in Seq(Nat)
  BY <1>0, FieldTypes
<1> QED BY <1>2, <1>3, <1>4

LEMMA DeliverFields ==
  ASSUME CompareTyping, Deliver
  PROVE  /\ compare' \in Calls /\ Only(compare, compare', {"pending", "delivered"})
         /\ compare'.pending = Tail(compare.pending)
         /\ compare'.delivered = Append(compare.delivered, Head(compare.pending).of)
<1>0. compare \in Calls
  BY DEF CompareTyping
<1>1. compare.pending \in Seq(Observation)
  BY <1>0, FieldTypes
<1>2. PICK x1 \in Seq(Observation) : x1 = Tail(compare.pending)
  BY <1>1, HeadType
<1>3. PICK c1 \in Calls :
            c1 = [compare EXCEPT !.pending = x1] /\ c1.pending = x1 /\ Only(compare, c1, {"pending"})
  BY <1>0, Set_pending
<1>4. compare.pending \in Seq(Observation) /\ compare.delivered \in Seq(Nat)
  BY <1>0, FieldTypes
<1>5. PICK x2 \in Seq(Nat) : x2 = Append(compare.delivered, Head(compare.pending).of)
  BY <1>4, HeadType
<1>6. c1.delivered = compare.delivered
  BY <1>3 DEF Only, Fields
<1>7. PICK c2 \in Calls :
            c2 = [c1 EXCEPT !.delivered = x2] /\ c2.delivered = x2 /\ Only(c1, c2, {"delivered"})
  BY Set_delivered
<1>8. compare' = c2
  BY <1>3, <1>7, <1>2, <1>5, <1>6, Zenon DEF Deliver
<1>9. Only(compare, c1, {"pending"}) /\ Only(c1, c2, {"delivered"})
  BY <1>3, <1>7, Zenon
<1>10. c1.pending = x1 /\ c2.delivered = x2
  BY <1>3, <1>7, Zenon
<1>11. Only(compare, compare', {"pending", "delivered"})
  BY <1>8, <1>9 DEF Only, Fields
<1>12. compare'.pending = c1.pending
  BY <1>8, <1>9 DEF Only, Fields
<1>13. compare'.delivered = c2.delivered
  BY <1>8, <1>9 DEF Only, Fields
<1> QED BY <1>2, <1>5, <1>6, <1>8, <1>10, <1>11, <1>12, <1>13, Zenon

LEMMA ReturnFields ==
  ASSUME CompareTyping, Return
  PROVE  /\ compare' \in Calls /\ Only(compare, compare', {"pc"})
         /\ compare'.pc = "returned"
<1>0. compare \in Calls
  BY DEF CompareTyping
<1>1. PICK x1 \in CompareStates : x1 = "returned"
  BY DEF CompareStates
<1>2. PICK c1 \in Calls : c1 = [compare EXCEPT !.pc = x1] /\ c1.pc = x1 /\ Only(compare, c1, {"pc"})
  BY <1>0, Set_pc
<1>3. compare' = c1
  BY <1>2, <1>1, Zenon DEF Return
<1>4. Only(compare, c1, {"pc"})
  BY <1>2, Zenon
<1>5. c1.pc = x1
  BY <1>2, Zenon
<1>6. Only(compare, compare', {"pc"})
  BY <1>3, <1>4 DEF Only, Fields
<1>7. compare'.pc = c1.pc
  BY <1>3, <1>4 DEF Only, Fields
<1> QED BY <1>1, <1>3, <1>5, <1>6, <1>7, Zenon

---------------------------------------------------------------------------
(* Rounds, variants and the samples they take.                                *)

LEMMA RoundsFacts ==
  /\ Rounds \in Nat /\ Rounds >= 1 /\ Warmup \in Nat /\ Warmup >= 1 /\ Samples \in Nat
  /\ Rounds = Warmup + Samples
  BY ComparisonsAssumption DEF Rounds

LEMMA TakenAtFirst == ASSUME NEW v PROVE Taken(v, 0) = 0
  BY RoundsFacts DEF Taken, Round

LEMMA TakenNext ==
  ASSUME NEW s \in Nat, NEW v \in Variants
  PROVE  Taken(v, s + 1) = Taken(v, s) + (IF Variant(s) = v /\ Round(s) >= Warmup THEN 1 ELSE 0)
<1>1. PICK r \in Nat, p \in 0..2 : s = 3 * r + p
  <2>1. s = 3 * (s \div 3) + (s % 3) /\ s \div 3 \in Nat /\ s % 3 \in 0..2
    OBVIOUS
  <2> QED BY <2>1
<1>2. Round(s) = r
  BY <1>1 DEF Round
<1>3. CASE p < 2
  <2>1. Round(s + 1) = r
    BY <1>1, <1>3 DEF Round
  <2>2. (3 * r)..(s + 1 - 1) = (3 * r)..(s - 1) \cup {s} /\ s \notin (3 * r)..(s - 1)
    BY <1>1
  <2>3. \A k \in (3 * r)..(s - 1) : Variant(k) # Variant(s)
    <3> SUFFICES ASSUME NEW k \in (3 * r)..(s - 1) PROVE Variant(k) # Variant(s)
      OBVIOUS
    <3>1. PICK q \in 0..2 : k = 3 * r + q /\ q < p
      BY <1>1
    <3>2. Round(k) = r /\ k % 3 = q /\ s % 3 = p
      BY <1>1, <3>1 DEF Round
    <3>3. (r + q) % 3 # (r + p) % 3
      BY <3>1
    <3> QED BY <1>2, <3>2, <3>3 DEF Variant
  <2> QED BY <1>2, <2>1, <2>2, <2>3, RoundsFacts DEF Taken
<1>4. CASE p = 2
  <2>1. Round(s + 1) = r + 1 /\ \A k \in Int : ~(3 * (r + 1) <= k /\ k <= s + 1 - 1)
    BY <1>1, <1>4 DEF Round
  <2>2. /\ Variant(3 * r) = (r % 3) + 1 /\ Variant(3 * r + 1) = ((r + 1) % 3) + 1
        /\ Variant(s) = ((r + 2) % 3) + 1
    BY <1>1, <1>4 DEF Variant, Round
  <2>3. (\E k \in (3 * r)..(s - 1) : Variant(k) = v) <=> Variant(s) # v
    <3>1. \A k \in (3 * r)..(s - 1) : k = 3 * r \/ k = 3 * r + 1
      BY <1>1, <1>4
    <3>2. 3 * r \in (3 * r)..(s - 1) /\ 3 * r + 1 \in (3 * r)..(s - 1)
      BY <1>1, <1>4
    <3>3. v \in 1..3
      BY DEF Variants
    <3>4. (v = (r % 3) + 1 \/ v = ((r + 1) % 3) + 1) <=> ((r + 2) % 3) + 1 # v
      BY <3>3
    <3> QED BY <2>2, <3>1, <3>2, <3>4
  <2>4. PICK a \in {0, 1} : /\ a = 1 <=> \E k \in (3 * r)..(s - 1) : Variant(k) = v
                          /\ Taken(v, s) = IF r < Warmup THEN 0 ELSE r - Warmup + a
    <3>1. CASE \E k \in (3 * r)..(s - 1) : Variant(k) = v
      BY <1>2, <3>1 DEF Taken
    <3>2. CASE ~\E k \in (3 * r)..(s - 1) : Variant(k) = v
      BY <1>2, <3>2 DEF Taken
    <3> QED BY <3>1, <3>2
  <2>5. Taken(v, s + 1) = IF r + 1 < Warmup THEN 0 ELSE r + 1 - Warmup
    <3>1. ~\E k \in (3 * Round(s + 1))..(s + 1 - 1) : Variant(k) = v
      BY <2>1, <1>1
    <3> QED BY <2>1, <3>1, RoundsFacts DEF Taken
  <2> QED BY <1>2, <2>3, <2>4, <2>5, RoundsFacts
<1> QED BY <1>1, <1>3, <1>4

LEMMA TakenAtLast == ASSUME NEW v PROVE Taken(v, 3 * Rounds) = Samples
<1>1. PICK n \in Nat : n = Rounds /\ n = Warmup + Samples
  BY RoundsFacts
<1>2. Round(3 * n) = n
  BY DEF Round
<1>3. (3 * n)..(3 * n - 1) = {}
  OBVIOUS
<1> QED BY <1>1, <1>2, <1>3, RoundsFacts DEF Taken

---------------------------------------------------------------------------
(* Every step of the call keeps the invariant.                                *)

PoolTyping == idle \subseteq Connections /\ others \subseteq Connections /\ idle \cap others = {}

LEMMA NothingObserved ==
  /\ <<>> \in Seq(Nat) /\ <<>> \in Seq(Observation) /\ Len(<<>>) = 0
  /\ InOrder(<<>>, <<>>)
<1>1. Len(<<>>) = 0 /\ 1..0 = {}
  OBVIOUS
<1>2. InOrder(<<>>, <<>>)
  BY <1>1 DEF InOrder
<1> QED BY <1>1, <1>2

LEMMA ObserveInOrder ==
  ASSUME NEW d \in Seq(Nat), NEW p \in Seq(Observation), InOrder(d, p),
         NEW n \in Nat, NEW k \in BOOLEAN
  PROVE  /\ Len(Append(p, Observed(n, k))) = Len(p) + 1
         /\ n = Len(d) + Len(p) + 1 => InOrder(d, Append(p, Observed(n, k)))
<1>0. Observed(n, k) \in Observation /\ Observed(n, k).of = n
  BY DEF Observed, Observation
<1>1. PICK o \in Observation : o = Observed(n, k) /\ o.of = n
  BY <1>0, Zenon
<1>2. Len(Append(p, o)) = Len(p) + 1 /\ \A j \in 1..(Len(p) + 1) : Append(p, o)[j] = IF j <= Len(p) THEN p[j] ELSE o
  OBVIOUS
<1>3. ASSUME n = Len(d) + Len(p) + 1 PROVE InOrder(d, Append(p, o))
  <2>1. Len(d) \in Nat /\ Len(p) \in Nat /\ \A j \in 1..Len(p) : p[j].of = Len(d) + j
    BY DEF InOrder
  <2>2. ASSUME NEW j \in 1..(Len(p) + 1) PROVE Append(p, o)[j].of = Len(d) + j
    <3>1. CASE j <= Len(p)
      BY <1>2, <2>1, <3>1
    <3>2. CASE j = Len(p) + 1
      BY <1>1, <1>2, <1>3, <2>1, <3>2
    <3> QED BY <2>1, <3>1, <3>2
  <2>3. \A j \in 1..Len(Append(p, o)) : Append(p, o)[j].of = Len(d) + j
    BY <1>2, <2>2
  <2> QED BY <2>3 DEF InOrder
<1> QED BY <1>1, <1>2, <1>3

LEMMA DeliverInOrder ==
  ASSUME NEW d \in Seq(Nat), NEW p \in Seq(Observation), InOrder(d, p), p # <<>>
  PROVE  /\ InOrder(Append(d, Head(p).of), Tail(p))
         /\ Len(Append(d, Head(p).of)) + Len(Tail(p)) = Len(d) + Len(p)
<1>1. Len(p) \in Nat /\ Len(p) >= 1 /\ Head(p) = p[1] /\ Len(d) \in Nat
  OBVIOUS
<1>2. Head(p).of = Len(d) + 1
  BY <1>1 DEF InOrder
<1>3. Len(Tail(p)) = Len(p) - 1 /\ \A j \in 1..(Len(p) - 1) : Tail(p)[j] = p[j + 1]
  BY <1>1
<1>4. PICK m \in Nat : m = Len(d) + 1
  BY <1>1
<1>5. Len(Append(d, m)) = Len(d) + 1 /\ \A i \in 1..(Len(d) + 1) : Append(d, m)[i] = IF i <= Len(d) THEN d[i] ELSE m
  OBVIOUS
<1>6. \A i \in 1..Len(Append(d, m)) : Append(d, m)[i] = i
  BY <1>1, <1>4, <1>5 DEF InOrder
<1>7. \A j \in 1..Len(Tail(p)) : Tail(p)[j].of = Len(Append(d, m)) + j
  <2> SUFFICES ASSUME NEW j \in 1..(Len(p) - 1) PROVE Tail(p)[j].of = Len(d) + 1 + j
    BY <1>1, <1>3, <1>5
  <2>1. j + 1 \in 1..Len(p) /\ Tail(p)[j] = p[j + 1]
    BY <1>1, <1>3
  <2>2. p[j + 1].of = Len(d) + (j + 1)
    BY <2>1 DEF InOrder
  <2> QED BY <1>1, <2>1, <2>2
<1>8. InOrder(Append(d, m), Tail(p))
  BY <1>6, <1>7 DEF InOrder
<1>9. Len(Append(d, m)) + Len(Tail(p)) = Len(d) + Len(p)
  BY <1>1, <1>3, <1>5
<1> QED BY <1>2, <1>4, <1>8, <1>9

LEMMA RefuseKeeps ==
  ASSUME CompareInv, PoolTyping, RefuseCompare
  PROVE  CompareInv'
<1>0. /\ CompareTyping /\ ConnInv /\ StepInv /\ Fresh /\ Numbered
      /\ Counted /\ SampleInv /\ AnswerInv /\ PlanInv
  BY DEF CompareInv
<1>1. /\ compare' \in Calls /\ Only(NoCompare, compare', {"pc", "err"})
      /\ compare'.pc = "returned"
      /\ compare'.err = TRUE
  BY <1>0, RefuseFields
<1>2. /\ compare'.kind = NoCompare.kind /\ compare'.conn = NoCompare.conn
      /\ compare'.step = NoCompare.step
      /\ compare'.arrays = NoCompare.arrays /\ compare'.ref = NoCompare.ref
      /\ compare'.buf = NoCompare.buf
      /\ compare'.samples = NoCompare.samples /\ compare'.status = NoCompare.status
      /\ compare'.failed = NoCompare.failed
      /\ compare'.pending = NoCompare.pending /\ compare'.complete = NoCompare.complete
      /\ compare'.answers = NoCompare.answers
      /\ compare'.delivered = NoCompare.delivered
  BY <1>1 DEF Only, Fields
<1>3. UNCHANGED <<idle, others, last, data>>
  BY DEF RefuseCompare, sessionVars
<1>4. /\ compare \in Calls /\ compare.step \in Nat
      /\ compare.err \in BOOLEAN /\ compare.complete \in BOOLEAN
  BY <1>0, FieldTypes DEF CompareTyping
<1>6. CompareTyping'
  BY <1>0, <1>1, <1>3 DEF CompareTyping
<1>7. ConnInv'
  BY <1>0, <1>1, <1>2, <1>3, <1>4, RoundsFacts DEF ConnInv, Holding, StepInv, NoCompare
<1>8. StepInv'
  BY <1>0, <1>1, <1>2, <1>3, <1>4, RoundsFacts DEF StepInv, NoCompare
<1>9. Fresh'
  BY <1>0, <1>1, <1>2, <1>3, <1>4, RoundsFacts DEF Fresh, StepInv, NoCompare
<1>10. Numbered'
  BY <1>0, <1>1, <1>2, NothingObserved DEF Numbered, NoCompare
<1>11. Counted'
  BY <1>0, <1>1, <1>2, <1>4, NothingObserved DEF Counted, NoCompare, StepInv
<1>12. SampleInv'
  <2>1. compare'.samples = NoCompare.samples /\ ~compare'.complete
    BY <1>2 DEF NoCompare
  <2>2. compare'.pc \notin {"select", "probe", "plan", "release"}
    BY <1>1
  <2>3. \A v \in Variants : compare'.samples[v] = <<>>
    BY <2>1 DEF NoCompare
  <2>4. \A v \in Variants : \A i \in 1..Len(compare'.samples[v]) :
           compare'.samples[v][i].by = compare'.samples[v][i].of
    BY <2>3, NothingObserved
  <2> QED BY <2>1, <2>2, <2>4 DEF SampleInv
<1>13. AnswerInv'
  BY <1>0, <1>1, <1>2, <1>3, <1>4, RoundsFacts DEF AnswerInv, Kept, StepInv, NoCompare
<1>14. PlanInv'
  BY <1>0, <1>1, <1>2, <1>3, <1>4, RoundsFacts DEF PlanInv, Accepted, StepInv, NoCompare
<1> QED BY <1>6, <1>7, <1>8, <1>9, <1>10, <1>11, <1>12, <1>13, <1>14 DEF CompareInv

LEMMA StartKeeps ==
  ASSUME CompareInv, PoolTyping, NEW kind \in Executors, StartCompare(kind)
  PROVE  CompareInv'
<1>0. /\ CompareTyping /\ ConnInv /\ StepInv /\ Fresh /\ Numbered
      /\ Counted /\ SampleInv /\ AnswerInv /\ PlanInv
  BY DEF CompareInv
<1>1. /\ compare' \in Calls /\ Only(NoCompare, compare', {"pc", "kind"})
      /\ compare'.pc = (IF kind = "db" THEN "pin" ELSE "borrow")
      /\ compare'.kind = kind
  BY <1>0, StartFields
<1>2. /\ compare'.conn = NoCompare.conn /\ compare'.step = NoCompare.step
      /\ compare'.arrays = NoCompare.arrays
      /\ compare'.ref = NoCompare.ref /\ compare'.buf = NoCompare.buf
      /\ compare'.samples = NoCompare.samples
      /\ compare'.status = NoCompare.status /\ compare'.failed = NoCompare.failed
      /\ compare'.pending = NoCompare.pending
      /\ compare'.err = NoCompare.err /\ compare'.complete = NoCompare.complete
      /\ compare'.answers = NoCompare.answers
      /\ compare'.delivered = NoCompare.delivered
  BY <1>1 DEF Only, Fields
<1>3. UNCHANGED <<idle, others, last, data>>
  BY DEF StartCompare, sessionVars
<1>4. /\ compare \in Calls /\ compare.step \in Nat
      /\ compare.err \in BOOLEAN /\ compare.complete \in BOOLEAN
  BY <1>0, FieldTypes DEF CompareTyping
<1>6. CompareTyping'
  BY <1>0, <1>1, <1>3 DEF CompareTyping
<1>7. ConnInv'
  BY <1>0, <1>1, <1>2, <1>3, ComparisonsAssumption DEF ConnInv, Holding
<1>8. StepInv'
  BY <1>0, <1>1, <1>2, <1>3, <1>4, RoundsFacts DEF StepInv, NoCompare
<1>9. Fresh'
  BY <1>0, <1>1, <1>2, <1>3, <1>4, RoundsFacts DEF Fresh, StepInv, NoCompare
<1>10. Numbered'
  BY <1>0, <1>1, <1>2, NothingObserved DEF Numbered, NoCompare
<1>11. Counted'
  BY <1>0, <1>1, <1>2, <1>4, NothingObserved DEF Counted, NoCompare, StepInv
<1>12. SampleInv'
  <2>1. compare'.samples = NoCompare.samples /\ ~compare'.complete
    BY <1>2 DEF NoCompare
  <2>2. compare'.pc \notin {"select", "probe", "plan", "release"}
    BY <1>1
  <2>3. \A v \in Variants : compare'.samples[v] = <<>>
    BY <2>1 DEF NoCompare
  <2>4. \A v \in Variants : \A i \in 1..Len(compare'.samples[v]) :
           compare'.samples[v][i].by = compare'.samples[v][i].of
    BY <2>3, NothingObserved
  <2> QED BY <2>1, <2>2, <2>4 DEF SampleInv
<1>13. AnswerInv'
  BY <1>0, <1>1, <1>2, <1>3, <1>4, RoundsFacts DEF AnswerInv, Kept, StepInv, NoCompare
<1>14. PlanInv'
  BY <1>0, <1>1, <1>2, <1>3, <1>4, RoundsFacts DEF PlanInv, Accepted, StepInv, NoCompare
<1> QED BY <1>6, <1>7, <1>8, <1>9, <1>10, <1>11, <1>12, <1>13, <1>14 DEF CompareInv

LEMMA PinKeeps ==
  ASSUME CompareInv, PoolTyping, NEW c \in Connections, Pin(c)
  PROVE  CompareInv'
<1>0. /\ CompareTyping /\ ConnInv /\ StepInv /\ Fresh /\ Numbered
      /\ Counted /\ SampleInv /\ AnswerInv /\ PlanInv
  BY DEF CompareInv
<1>1. /\ compare' \in Calls /\ Only(compare, compare', {"pc", "conn"})
      /\ compare'.pc = "select"
      /\ compare'.conn = c
  BY <1>0, PinFields
<1>2. /\ compare'.kind = compare.kind /\ compare'.step = compare.step
      /\ compare'.arrays = compare.arrays
      /\ compare'.ref = compare.ref /\ compare'.buf = compare.buf /\ compare'.samples = compare.samples
      /\ compare'.status = compare.status /\ compare'.failed = compare.failed
      /\ compare'.pending = compare.pending
      /\ compare'.err = compare.err /\ compare'.complete = compare.complete
      /\ compare'.answers = compare.answers
      /\ compare'.delivered = compare.delivered
  BY <1>1 DEF Only, Fields
<1>3. /\ UNCHANGED <<others, last, data>> /\ idle' = idle \ {c} /\ c \in idle
  BY DEF Pin, Take, sessionVars
<1>4. /\ compare \in Calls /\ compare.step \in Nat
      /\ compare.err \in BOOLEAN /\ compare.complete \in BOOLEAN
  BY <1>0, FieldTypes DEF CompareTyping
<1>5. compare.pc \in {"pin", "borrow"}
  BY DEF Pin, Take
<1>6. CompareTyping'
  BY <1>0, <1>1, <1>3 DEF CompareTyping
<1>7. ConnInv'
  <2>1. c \notin idle' /\ c \notin others'
    BY <1>3 DEF PoolTyping
  <2> QED BY <1>0, <1>1, <1>2, <1>5, <2>1 DEF ConnInv, Holding
<1>8. StepInv'
  BY <1>0, <1>1, <1>2, <1>3, <1>4, <1>5, RoundsFacts DEF StepInv
<1>9. Fresh'
  BY <1>0, <1>1, <1>2, <1>3, <1>4, <1>5, RoundsFacts DEF Fresh, StepInv
<1>10. Numbered'
  BY <1>0, <1>1, <1>2, <1>3, <1>4, <1>5, RoundsFacts DEF Numbered, StepInv
<1>11. Counted'
  <2>1. compare.delivered = <<>> /\ Len(compare.pending) = 0 /\ compare.step = 0
    BY <1>0, <1>5, NothingObserved DEF Fresh, StepInv
  <2> QED BY <1>0, <1>1, <1>2, <1>5, <2>1 DEF Counted, StepInv
<1>12. SampleInv'
  <2>1. compare.step = 0 /\ \A v \in Variants : compare.samples[v] = <<>>
    BY <1>0, <1>5 DEF Fresh, StepInv
  <2>2. \A v \in Variants : Len(compare.samples[v]) = 0 /\ Len(compare.samples[v]) = Taken(v, compare.step)
    BY <2>1, TakenAtFirst, NothingObserved
  <2> QED BY <1>0, <1>1, <1>2, <1>5, <2>2 DEF SampleInv, StepInv
<1>13. AnswerInv'
  <2>1. /\ compare.step = 0 /\ compare.arrays = <<>> /\ compare.ref = 0 /\ compare.buf = 0
        /\ compare.answers = {} /\ ~compare.complete
    BY <1>0, <1>5 DEF Fresh, StepInv
  <2> QED BY <1>1, <1>2, <2>1 DEF AnswerInv
<1>14. PlanInv'
  BY <1>0, <1>1, <1>2, <1>5 DEF PlanInv, Fresh, StepInv
<1> QED BY <1>6, <1>7, <1>8, <1>9, <1>10, <1>11, <1>12, <1>13, <1>14 DEF CompareInv

LEMMA PinFailsKeeps ==
  ASSUME CompareInv, PoolTyping, PinFails
  PROVE  CompareInv'
<1>0. /\ CompareTyping /\ ConnInv /\ StepInv /\ Fresh /\ Numbered
      /\ Counted /\ SampleInv /\ AnswerInv /\ PlanInv
  BY DEF CompareInv
<1>1. /\ compare' \in Calls /\ Only(compare, compare', {"pc", "err"})
      /\ compare'.pc = "returned"
      /\ compare'.err = TRUE
  BY <1>0, PinFailsFields
<1>2. /\ compare'.kind = compare.kind /\ compare'.conn = compare.conn /\ compare'.step = compare.step
      /\ compare'.arrays = compare.arrays /\ compare'.ref = compare.ref /\ compare'.buf = compare.buf
      /\ compare'.samples = compare.samples /\ compare'.status = compare.status
      /\ compare'.failed = compare.failed
      /\ compare'.pending = compare.pending /\ compare'.complete = compare.complete
      /\ compare'.answers = compare.answers
      /\ compare'.delivered = compare.delivered
  BY <1>1 DEF Only, Fields
<1>3. UNCHANGED <<idle, others, last, data>>
  BY DEF PinFails, sessionVars
<1>4. /\ compare \in Calls /\ compare.step \in Nat
      /\ compare.err \in BOOLEAN /\ compare.complete \in BOOLEAN
  BY <1>0, FieldTypes DEF CompareTyping
<1>5. compare.pc = "pin"
  BY DEF PinFails
<1>6. CompareTyping'
  BY <1>0, <1>1, <1>3 DEF CompareTyping
<1>7. ConnInv'
  BY <1>0, <1>1, <1>2, <1>3, <1>4, <1>5, RoundsFacts DEF ConnInv, Holding, StepInv
<1>8. StepInv'
  BY <1>0, <1>1, <1>2, <1>3, <1>4, <1>5, RoundsFacts DEF StepInv
<1>9. Fresh'
  BY <1>0, <1>1, <1>2, <1>3, <1>4, <1>5, RoundsFacts DEF Fresh, StepInv
<1>10. Numbered'
  BY <1>0, <1>1, <1>2, <1>3, <1>4, <1>5, RoundsFacts DEF Numbered, StepInv
<1>11. Counted'
  <2>1. compare.pending = <<>> /\ ~compare.complete
    BY <1>0, <1>5 DEF Fresh, StepInv
  <2> QED BY <1>1, <1>2, <2>1 DEF Counted
<1>12. SampleInv'
  BY <1>0, <1>1, <1>2, <1>3, <1>4, <1>5, RoundsFacts DEF SampleInv, StepInv
<1>13. AnswerInv'
  BY <1>0, <1>1, <1>2, <1>3, <1>4, <1>5, RoundsFacts DEF AnswerInv, Kept, StepInv
<1>14. PlanInv'
  BY <1>0, <1>1, <1>2, <1>3, <1>4, <1>5, RoundsFacts DEF PlanInv, Accepted, StepInv
<1> QED BY <1>6, <1>7, <1>8, <1>9, <1>10, <1>11, <1>12, <1>13, <1>14 DEF CompareInv

LEMMA StopKeeps ==
  ASSUME CompareInv, PoolTyping, CompareStops
  PROVE  CompareInv'
<1>0. /\ CompareTyping /\ ConnInv /\ StepInv /\ Fresh /\ Numbered
      /\ Counted /\ SampleInv /\ AnswerInv /\ PlanInv
  BY DEF CompareInv
<1>1. /\ compare' \in Calls /\ Only(compare, compare', {"pc", "failed", "err"})
      /\ compare'.pc = "release"
      /\ compare'.failed = [compare.failed EXCEPT ![Variant(compare.step)] = TRUE]
      /\ compare'.err = TRUE
  BY <1>0, StopFields
<1>2. /\ compare'.kind = compare.kind /\ compare'.conn = compare.conn /\ compare'.step = compare.step
      /\ compare'.arrays = compare.arrays /\ compare'.ref = compare.ref /\ compare'.buf = compare.buf
      /\ compare'.samples = compare.samples /\ compare'.status = compare.status
      /\ compare'.pending = compare.pending
      /\ compare'.complete = compare.complete /\ compare'.answers = compare.answers
      /\ compare'.delivered = compare.delivered
  BY <1>1 DEF Only, Fields
<1>3. UNCHANGED <<idle, others, last, data>>
  BY DEF CompareStops, sessionVars
<1>4. /\ compare \in Calls /\ compare.step \in Nat
      /\ compare.err \in BOOLEAN /\ compare.complete \in BOOLEAN
  BY <1>0, FieldTypes DEF CompareTyping
<1>5. compare.pc = "select"
  BY DEF CompareStops
<1>6. CompareTyping'
  BY <1>0, <1>1, <1>3 DEF CompareTyping
<1>7. ConnInv'
  BY <1>0, <1>1, <1>2, <1>3, <1>4, <1>5, RoundsFacts DEF ConnInv, Holding, StepInv
<1>8. StepInv'
  BY <1>0, <1>1, <1>2, <1>3, <1>4, <1>5, RoundsFacts DEF StepInv
<1>9. Fresh'
  BY <1>0, <1>1, <1>2, <1>3, <1>4, <1>5, RoundsFacts DEF Fresh, StepInv
<1>10. Numbered'
  BY <1>0, <1>1, <1>2, <1>3, <1>4, <1>5, RoundsFacts DEF Numbered, StepInv
<1>11. Counted'
  BY <1>0, <1>1, <1>2, <1>3, <1>4, <1>5, RoundsFacts DEF Counted, StepInv
<1>12. SampleInv'
  BY <1>0, <1>1, <1>2, <1>3, <1>4, <1>5, RoundsFacts DEF SampleInv, StepInv
<1>13. AnswerInv'
  BY <1>0, <1>1, <1>2, <1>3, <1>4, <1>5, RoundsFacts DEF AnswerInv, Kept, StepInv
<1>14. PlanInv'
  BY <1>0, <1>1, <1>2, <1>3, <1>4, <1>5, RoundsFacts DEF PlanInv, Accepted, StepInv
<1> QED BY <1>6, <1>7, <1>8, <1>9, <1>10, <1>11, <1>12, <1>13, <1>14 DEF CompareInv

LEMMA SelectFailsKeeps ==
  ASSUME CompareInv, PoolTyping, SelectFails
  PROVE  CompareInv'
<1>0. /\ CompareTyping /\ ConnInv /\ StepInv /\ Fresh /\ Numbered
      /\ Counted /\ SampleInv /\ AnswerInv /\ PlanInv
  BY DEF CompareInv
<1>1. /\ compare' \in Calls /\ Only(compare, compare', {"pc", "failed", "err", "pending"})
      /\ compare'.pc = "release"
      /\ compare'.failed = [compare.failed EXCEPT ![Variant(compare.step)] = TRUE]
      /\ compare'.err = TRUE
      /\ compare'.pending = Append(compare.pending, Observed(compare.step + 1, FALSE))
  BY <1>0, SelectFailsFields
<1>2. /\ compare'.kind = compare.kind /\ compare'.conn = compare.conn /\ compare'.step = compare.step
      /\ compare'.arrays = compare.arrays /\ compare'.ref = compare.ref /\ compare'.buf = compare.buf
      /\ compare'.samples = compare.samples /\ compare'.status = compare.status
      /\ compare'.complete = compare.complete
      /\ compare'.answers = compare.answers /\ compare'.delivered = compare.delivered
  BY <1>1 DEF Only, Fields
<1>3. UNCHANGED <<idle, others, last, data>>
  BY DEF SelectFails, sessionVars
<1>4. /\ compare \in Calls /\ compare.step \in Nat
      /\ compare.err \in BOOLEAN /\ compare.complete \in BOOLEAN
  BY <1>0, FieldTypes DEF CompareTyping
<1>5. compare.pc = "select"
  BY DEF SelectFails
<1>6. CompareTyping'
  BY <1>0, <1>1, <1>3 DEF CompareTyping
<1>7. ConnInv'
  BY <1>0, <1>1, <1>2, <1>3, <1>4, <1>5, RoundsFacts DEF ConnInv, Holding, StepInv
<1>8. StepInv'
  BY <1>0, <1>1, <1>2, <1>3, <1>4, <1>5, RoundsFacts DEF StepInv
<1>9. Fresh'
  BY <1>0, <1>1, <1>2, <1>3, <1>4, <1>5, RoundsFacts DEF Fresh, StepInv
<1>10. Numbered'
  <2>1. compare.delivered \in Seq(Nat) /\ compare.pending \in Seq(Observation)
    BY <1>4, FieldTypes
  <2>0. compare.step + 1 \in Nat
    BY <1>4
  <2>2. compare.delivered = <<>> /\ Len(compare.delivered) = 0
    BY <1>0, <1>5, NothingObserved DEF Counted
  <2>3. compare.step + 1 = Len(compare.delivered) + Len(compare.pending) + 1
    BY <1>0, <1>4, <1>5, <2>1, <2>2 DEF Counted, StepInv
  <2>4. InOrder(compare.delivered, Append(compare.pending, Observed(compare.step + 1, FALSE)))
    BY <1>0, <1>4, <2>0, <2>1, <2>3, ObserveInOrder DEF Numbered
  <2> QED BY <1>1, <1>2, <2>4 DEF Numbered
<1>11. Counted'
  BY <1>0, <1>1, <1>2, <1>3, <1>4, <1>5, RoundsFacts DEF Counted, StepInv
<1>12. SampleInv'
  BY <1>0, <1>1, <1>2, <1>3, <1>4, <1>5, RoundsFacts DEF SampleInv, StepInv
<1>13. AnswerInv'
  BY <1>0, <1>1, <1>2, <1>3, <1>4, <1>5, RoundsFacts DEF AnswerInv, Kept, StepInv
<1>14. PlanInv'
  BY <1>0, <1>1, <1>2, <1>3, <1>4, <1>5, RoundsFacts DEF PlanInv, Accepted, StepInv
<1> QED BY <1>6, <1>7, <1>8, <1>9, <1>10, <1>11, <1>12, <1>13, <1>14 DEF CompareInv

LEMMA SelectKeeps ==
  ASSUME CompareInv, PoolTyping, Select
  PROVE  CompareInv'
<1>0. /\ CompareTyping /\ ConnInv /\ StepInv /\ Fresh /\ Numbered
      /\ Counted /\ SampleInv /\ AnswerInv /\ PlanInv
  BY DEF CompareInv
<1>1. /\ compare' \in Calls /\ Only(compare, compare', {"pc", "step", "answers", "arrays", "buf"})
      /\ compare'.pc = "probe"
      /\ compare'.step = compare.step + 1
      /\ compare'.answers = compare.answers \cup {data}
      /\ compare'.arrays = (IF compare.buf = 0 THEN Append(compare.arrays, data)
                            ELSE [compare.arrays EXCEPT ![compare.buf] = data])
      /\ compare'.buf = (IF compare.buf = 0 THEN Len(compare.arrays) + 1 ELSE compare.buf)
  BY <1>0, SelectFields
<1>2. /\ compare'.kind = compare.kind /\ compare'.conn = compare.conn /\ compare'.ref = compare.ref
      /\ compare'.samples = compare.samples /\ compare'.status = compare.status
      /\ compare'.failed = compare.failed
      /\ compare'.pending = compare.pending /\ compare'.err = compare.err
      /\ compare'.complete = compare.complete
      /\ compare'.delivered = compare.delivered
  BY <1>1 DEF Only, Fields
<1>3. /\ UNCHANGED <<idle, others, data>> /\ last' = [last EXCEPT ![compare.conn] = compare.step + 1]
  BY DEF Select, sessionVars
<1>4. /\ compare \in Calls /\ compare.step \in Nat
      /\ compare.err \in BOOLEAN /\ compare.complete \in BOOLEAN
  BY <1>0, FieldTypes DEF CompareTyping
<1>5. compare.pc = "select"
  BY DEF Select
<1>6. CompareTyping'
  <2>1. last \in [Connections -> Nat] /\ data \in Nat
    BY <1>0 DEF CompareTyping
  <2>2. PICK n \in Nat : n = compare.step + 1
    BY <1>4
  <2>3. PICK e \in [Connections -> Nat] : e = [last EXCEPT ![compare.conn] = n]
    BY <2>1, <2>2
  <2>4. last' = e /\ data' = data
    BY <1>3, <2>2, <2>3
  <2> QED BY <1>1, <2>1, <2>4 DEF CompareTyping
<1>7. ConnInv'
  <2>1. compare.conn \in Connections \ (idle \cup others) /\ last \in [Connections -> Nat]
    BY <1>0, <1>5 DEF ConnInv, Holding, CompareTyping
  <2>2. last'[compare.conn] = compare.step + 1
    BY <1>3, <2>1
  <2> QED BY <1>0, <1>1, <1>2, <1>3, <1>5, <2>1, <2>2 DEF ConnInv, Holding
<1>8. StepInv'
  BY <1>0, <1>1, <1>2, <1>3, <1>4, <1>5, RoundsFacts DEF StepInv
<1>9. Fresh'
  BY <1>0, <1>1, <1>2, <1>3, <1>4, <1>5, RoundsFacts DEF Fresh, StepInv
<1>10. Numbered'
  BY <1>0, <1>1, <1>2, <1>3, <1>4, <1>5, RoundsFacts DEF Numbered, StepInv
<1>11. Counted'
  <2>1. compare.delivered = <<>> /\ Len(compare.pending) = compare.step /\ ~compare.complete
    BY <1>0, <1>5 DEF Counted, StepInv
  <2>2. PICK n \in Nat : n = compare.step
    BY <1>4
  <2>3. n + 1 - 1 = n
    OBVIOUS
  <2>4. Len(compare'.pending) = compare'.step - 1 /\ compare'.pc = "probe" /\ compare'.delivered = <<>>
    BY <1>1, <1>2, <2>1, <2>2, <2>3
  <2> QED BY <1>2, <2>1, <2>4 DEF Counted
<1>12. SampleInv'
  <2>0. PICK n \in Nat : n = compare.step
    BY <1>4
  <2>00. n + 1 - 1 = n
    OBVIOUS
  <2>1. compare'.step - 1 = compare.step /\ ~compare.complete
    BY <1>0, <1>1, <1>5, <2>0, <2>00 DEF StepInv
  <2> QED BY <1>0, <1>1, <1>2, <1>5, <2>1 DEF SampleInv
<1>13. AnswerInv'
  <2>00. PICK a \in Seq(Nat), b \in Nat, r \in Nat :
              a = compare.arrays /\ b = compare.buf /\ r = compare.ref
    BY <1>4, FieldTypes
  <2>0. PICK n \in Nat : n = Len(a)
    OBVIOUS
  <2>1. a = compare.arrays /\ b = compare.buf /\ r = compare.ref /\ n = Len(a)
    BY <2>00, <2>0
  <2>2. data \in Nat /\ ~compare.complete
    BY <1>0, <1>5 DEF CompareTyping, StepInv
  <2>3. CASE b = 0
    <3>1. compare'.arrays = Append(a, data) /\ compare'.buf = n + 1
      BY <1>1, <2>1, <2>3
    <3>2. /\ DOMAIN Append(a, data) = 1..(n + 1) /\ Append(a, data)[n + 1] = data
          /\ \A i \in 1..n : Append(a, data)[i] = a[i]
      BY <2>1, <2>2
    <3>3. CASE compare.step = 0
      BY <1>0, <1>1, <1>2, <1>5, <2>1, <2>2, <3>1, <3>2, <3>3 DEF AnswerInv
    <3>4. CASE compare.step # 0
      <4>1. compare.step > 0
        BY <1>4, <3>4
      <4>2. r \in 1..n /\ compare.answers = {a[r]}
        BY <1>0, <1>5, <2>1, <4>1 DEF AnswerInv, Kept
      <4>3. /\ compare'.answers = {a[r], data} /\ r \in DOMAIN compare'.arrays
            /\ r # n + 1 /\ compare'.arrays[r] = a[r]
        BY <1>1, <2>1, <3>1, <3>2, <4>2
      <4>4. compare'.buf \in DOMAIN compare'.arrays /\ compare'.arrays[compare'.buf] = data
        BY <3>1, <3>2
      <4>5. compare'.ref = r /\ compare'.buf = n + 1 /\ compare'.pc = "probe" /\ ~compare'.complete
        BY <1>1, <1>2, <2>1, <2>2, <3>1
      <4> QED BY <4>3, <4>4, <4>5 DEF AnswerInv, Kept
    <3> QED BY <3>3, <3>4
  <2>4. CASE b # 0
    <3>1. compare'.arrays = [a EXCEPT ![b] = data] /\ compare'.buf = b
      BY <1>1, <2>1, <2>4
    <3>2. compare.step > 0
      BY <1>0, <1>4, <1>5, <2>1, <2>4 DEF AnswerInv
    <3>3. r \in DOMAIN a /\ b \in DOMAIN a /\ r # b /\ compare.answers = {a[r]}
      BY <1>0, <1>5, <2>1, <2>4, <3>2 DEF AnswerInv, Kept
    <3>4. /\ DOMAIN [a EXCEPT ![b] = data] = DOMAIN a /\ [a EXCEPT ![b] = data][b] = data
          /\ [a EXCEPT ![b] = data][r] = a[r]
      BY <3>3
    <3>5. compare'.answers = {a[r], data}
      BY <1>1, <3>3
    <3> QED BY <1>1, <1>2, <2>1, <2>2, <3>1, <3>3, <3>4, <3>5 DEF AnswerInv, Kept
  <2> QED BY <2>3, <2>4
<1>14. PlanInv'
  BY <1>0, <1>1, <1>2, <1>3, <1>4, <1>5, RoundsFacts DEF PlanInv, Accepted, StepInv
<1> QED BY <1>6, <1>7, <1>8, <1>9, <1>10, <1>11, <1>12, <1>13, <1>14 DEF CompareInv

LEMMA ProbeFailsKeeps ==
  ASSUME CompareInv, PoolTyping, ProbeFails
  PROVE  CompareInv'
<1>0. /\ CompareTyping /\ ConnInv /\ StepInv /\ Fresh /\ Numbered
      /\ Counted /\ SampleInv /\ AnswerInv /\ PlanInv
  BY DEF CompareInv
<1>1. /\ compare' \in Calls /\ Only(compare, compare', {"pc", "failed", "err", "pending"})
      /\ compare'.pc = "release"
      /\ compare'.failed = [compare.failed EXCEPT ![Variant(compare.step - 1)] = TRUE]
      /\ compare'.err = TRUE
      /\ compare'.pending = Append(compare.pending, Observed(compare.step, FALSE))
  BY <1>0, ProbeFailsFields
<1>2. /\ compare'.kind = compare.kind /\ compare'.conn = compare.conn /\ compare'.step = compare.step
      /\ compare'.arrays = compare.arrays /\ compare'.ref = compare.ref /\ compare'.buf = compare.buf
      /\ compare'.samples = compare.samples /\ compare'.status = compare.status
      /\ compare'.complete = compare.complete
      /\ compare'.answers = compare.answers /\ compare'.delivered = compare.delivered
  BY <1>1 DEF Only, Fields
<1>3. UNCHANGED <<idle, others, last, data>>
  BY DEF ProbeFails, sessionVars
<1>4. /\ compare \in Calls /\ compare.step \in Nat
      /\ compare.err \in BOOLEAN /\ compare.complete \in BOOLEAN
  BY <1>0, FieldTypes DEF CompareTyping
<1>5. compare.pc = "probe"
  BY DEF ProbeFails
<1>6. CompareTyping'
  BY <1>0, <1>1, <1>3 DEF CompareTyping
<1>7. ConnInv'
  BY <1>0, <1>1, <1>2, <1>3, <1>4, <1>5, RoundsFacts DEF ConnInv, Holding, StepInv
<1>8. StepInv'
  BY <1>0, <1>1, <1>2, <1>3, <1>4, <1>5, RoundsFacts DEF StepInv
<1>9. Fresh'
  BY <1>0, <1>1, <1>2, <1>3, <1>4, <1>5, RoundsFacts DEF Fresh, StepInv
<1>10. Numbered'
  <2>1. compare.delivered \in Seq(Nat) /\ compare.pending \in Seq(Observation)
    BY <1>4, FieldTypes
  <2>0. compare.step + 1 \in Nat
    BY <1>4
  <2>2. compare.delivered = <<>> /\ Len(compare.delivered) = 0
    BY <1>0, <1>5, NothingObserved DEF Counted
  <2>3. compare.step = Len(compare.delivered) + Len(compare.pending) + 1
    BY <1>0, <1>4, <1>5, <2>1, <2>2 DEF Counted, StepInv
  <2>4. InOrder(compare.delivered, Append(compare.pending, Observed(compare.step, FALSE)))
    BY <1>0, <1>4, <2>0, <2>1, <2>3, ObserveInOrder DEF Numbered
  <2> QED BY <1>1, <1>2, <2>4 DEF Numbered
<1>11. Counted'
  BY <1>0, <1>1, <1>2, <1>3, <1>4, <1>5, RoundsFacts DEF Counted, StepInv
<1>12. SampleInv'
  BY <1>0, <1>1, <1>2, <1>3, <1>4, <1>5, RoundsFacts DEF SampleInv, StepInv
<1>13. AnswerInv'
  BY <1>0, <1>1, <1>2, <1>3, <1>4, <1>5, RoundsFacts DEF AnswerInv, Kept, StepInv
<1>14. PlanInv'
  BY <1>0, <1>1, <1>2, <1>3, <1>4, <1>5, RoundsFacts DEF PlanInv, Accepted, StepInv
<1> QED BY <1>6, <1>7, <1>8, <1>9, <1>10, <1>11, <1>12, <1>13, <1>14 DEF CompareInv

LEMMA DiffersKeeps ==
  ASSUME CompareInv, PoolTyping, Probe, Differs
  PROVE  CompareInv'
<1>0. /\ CompareTyping /\ ConnInv /\ StepInv /\ Fresh /\ Numbered
      /\ Counted /\ SampleInv /\ AnswerInv /\ PlanInv
  BY DEF CompareInv
<1>1. /\ compare' \in Calls /\ Only(compare, compare', {"pending", "pc", "failed", "err"})
      /\ compare'.pending = Append(compare.pending, Observed(compare.step, TRUE))
      /\ compare'.pc = "release"
      /\ compare'.failed = [compare.failed EXCEPT ![Variant(compare.step - 1)] = TRUE]
      /\ compare'.err = TRUE
  BY <1>0, DiffersFields
<1>2. /\ compare'.kind = compare.kind /\ compare'.conn = compare.conn /\ compare'.step = compare.step
      /\ compare'.arrays = compare.arrays /\ compare'.ref = compare.ref /\ compare'.buf = compare.buf
      /\ compare'.samples = compare.samples /\ compare'.status = compare.status
      /\ compare'.complete = compare.complete
      /\ compare'.answers = compare.answers /\ compare'.delivered = compare.delivered
  BY <1>1 DEF Only, Fields
<1>3. UNCHANGED <<idle, others, last, data>>
  BY DEF Probe, sessionVars
<1>4. /\ compare \in Calls /\ compare.step \in Nat
      /\ compare.err \in BOOLEAN /\ compare.complete \in BOOLEAN
  BY <1>0, FieldTypes DEF CompareTyping
<1>5. compare.pc = "probe"
  BY DEF Probe
<1>6. CompareTyping'
  BY <1>0, <1>1, <1>3 DEF CompareTyping
<1>7. ConnInv'
  BY <1>0, <1>1, <1>2, <1>3, <1>4, <1>5, RoundsFacts DEF ConnInv, Holding, StepInv
<1>8. StepInv'
  BY <1>0, <1>1, <1>2, <1>3, <1>4, <1>5, RoundsFacts DEF StepInv
<1>9. Fresh'
  BY <1>0, <1>1, <1>2, <1>3, <1>4, <1>5, RoundsFacts DEF Fresh, StepInv
<1>10. Numbered'
  <2>1. compare.delivered \in Seq(Nat) /\ compare.pending \in Seq(Observation)
    BY <1>4, FieldTypes
  <2>0. compare.step + 1 \in Nat
    BY <1>4
  <2>2. compare.delivered = <<>> /\ Len(compare.delivered) = 0
    BY <1>0, <1>5, NothingObserved DEF Counted
  <2>3. compare.step = Len(compare.delivered) + Len(compare.pending) + 1
    BY <1>0, <1>4, <1>5, <2>1, <2>2 DEF Counted, StepInv
  <2>4. InOrder(compare.delivered, Append(compare.pending, Observed(compare.step, TRUE)))
    BY <1>0, <1>4, <2>0, <2>1, <2>3, ObserveInOrder DEF Numbered
  <2> QED BY <1>1, <1>2, <2>4 DEF Numbered
<1>11. Counted'
  BY <1>0, <1>1, <1>2, <1>3, <1>4, <1>5, RoundsFacts DEF Counted, StepInv
<1>12. SampleInv'
  BY <1>0, <1>1, <1>2, <1>3, <1>4, <1>5, RoundsFacts DEF SampleInv, StepInv
<1>13. AnswerInv'
  BY <1>0, <1>1, <1>2, <1>3, <1>4, <1>5, RoundsFacts DEF AnswerInv, Kept, StepInv
<1>14. PlanInv'
  BY <1>0, <1>1, <1>2, <1>3, <1>4, <1>5, RoundsFacts DEF PlanInv, Accepted, StepInv
<1> QED BY <1>6, <1>7, <1>8, <1>9, <1>10, <1>11, <1>12, <1>13, <1>14 DEF CompareInv

LEMMA AgreesKeeps ==
  ASSUME CompareInv, PoolTyping, Probe, ~Differs
  PROVE  CompareInv'
<1>0. /\ CompareTyping /\ ConnInv /\ StepInv /\ Fresh /\ Numbered
      /\ Counted /\ SampleInv /\ AnswerInv /\ PlanInv
  BY DEF CompareInv
<1>1. /\ compare' \in Calls /\ Only(compare, compare', {"pending", "pc", "ref", "buf", "samples"})
      /\ compare'.pending = Append(compare.pending, Observed(compare.step, TRUE))
      /\ compare'.pc = (IF compare.step = 3 * Rounds THEN "plan" ELSE "select")
      /\ compare'.ref = Adopted.ref
      /\ compare'.buf = Adopted.buf
      /\ compare'.samples = Sampled
  BY <1>0, AgreesFields
<1>2. /\ compare'.kind = compare.kind /\ compare'.conn = compare.conn /\ compare'.step = compare.step
      /\ compare'.arrays = compare.arrays /\ compare'.status = compare.status
      /\ compare'.failed = compare.failed
      /\ compare'.err = compare.err /\ compare'.complete = compare.complete
      /\ compare'.answers = compare.answers
      /\ compare'.delivered = compare.delivered
  BY <1>1 DEF Only, Fields
<1>3. UNCHANGED <<idle, others, last, data>>
  BY DEF Probe, sessionVars
<1>4. /\ compare \in Calls /\ compare.step \in Nat
      /\ compare.err \in BOOLEAN /\ compare.complete \in BOOLEAN
  BY <1>0, FieldTypes DEF CompareTyping
<1>5. compare.pc = "probe"
  BY DEF Probe
<1>6. CompareTyping'
  BY <1>0, <1>1, <1>3 DEF CompareTyping
<1>7. ConnInv'
  BY <1>0, <1>1, <1>2, <1>3, <1>4, <1>5, RoundsFacts DEF ConnInv, Holding, StepInv
<1>8. StepInv'
  BY <1>0, <1>1, <1>2, <1>3, <1>4, <1>5, RoundsFacts DEF StepInv
<1>9. Fresh'
  BY <1>0, <1>1, <1>2, <1>3, <1>4, <1>5, RoundsFacts DEF Fresh, StepInv
<1>10. Numbered'
  <2>1. compare.delivered \in Seq(Nat) /\ compare.pending \in Seq(Observation)
    BY <1>4, FieldTypes
  <2>0. compare.step + 1 \in Nat
    BY <1>4
  <2>2. compare.delivered = <<>> /\ Len(compare.delivered) = 0
    BY <1>0, <1>5, NothingObserved DEF Counted
  <2>3. compare.step = Len(compare.delivered) + Len(compare.pending) + 1
    BY <1>0, <1>4, <1>5, <2>1, <2>2 DEF Counted, StepInv
  <2>4. InOrder(compare.delivered, Append(compare.pending, Observed(compare.step, TRUE)))
    BY <1>0, <1>4, <2>0, <2>1, <2>3, ObserveInOrder DEF Numbered
  <2> QED BY <1>1, <1>2, <2>4 DEF Numbered
<1>11. Counted'
  <2>1. compare.delivered \in Seq(Nat) /\ compare.pending \in Seq(Observation)
    BY <1>4, FieldTypes
  <2>2. Len(compare'.pending) = Len(compare.pending) + 1
    BY <1>0, <1>1, <1>4, <2>1, ObserveInOrder DEF Numbered
  <2>3. PICK n \in Nat : n = compare.step
    BY <1>4
  <2>4. Len(compare.pending) = n - 1 /\ compare.delivered = <<>> /\ ~compare.complete
    BY <1>0, <1>5, <2>3 DEF Counted, StepInv
  <2>5. n - 1 + 1 = n
    OBVIOUS
  <2>6. Len(compare'.pending) = n
    BY <2>2, <2>4, <2>5
  <2>7. /\ compare'.pc \in {"plan", "select"} /\ compare'.step = n
        /\ compare'.delivered = <<>> /\ ~compare'.complete
    BY <1>1, <1>2, <2>3, <2>4
  <2> QED BY <2>6, <2>7 DEF Counted
<1>12. SampleInv'
  <2>1. PICK s \in Nat : s = compare.step - 1 /\ compare.step = s + 1
    BY <1>0, <1>4, <1>5, RoundsFacts DEF StepInv
  <2>2. PICK w \in Variants : w = Variant(s)
    BY VariantType
  <2>3. compare.conn \in Connections /\ last[ProbeSession] = compare.step /\ last[ProbeSession] \in Nat
    BY <1>0, <1>4, <1>5 DEF ConnInv, Holding, ProbeSession
  <2>41. PICK m \in Nat : m = compare.step
    BY <1>4
  <2>42. [of |-> m, by |-> m] \in Sample /\ [of |-> m, by |-> m].by = m /\ [of |-> m, by |-> m].of = m
    BY DEF Sample
  <2>43. PICK x \in Sample : x = [of |-> m, by |-> m] /\ x.by = x.of
    BY <2>42
  <2>4. x = [of |-> compare.step, by |-> last[ProbeSession]] /\ x.by = x.of
    BY <2>3, <2>41, <2>43
  <2>5. compare.samples \in [Variants -> Seq(Sample)] /\ compare.samples[w] \in Seq(Sample)
    BY <1>4, FieldTypes
  <2>6. compare'.samples = [compare.samples EXCEPT ![w] = IF Round(s) < Warmup THEN compare.samples[w]
                    ELSE Append(compare.samples[w], x)]
    BY <1>1, <2>1, <2>2, <2>4, Zenon DEF Sampled
  <2>7. \A v \in Variants : v # w => compare'.samples[v] = compare.samples[v]
    BY <2>5, <2>6
  <2>8. compare'.samples[w] = IF Round(s) < Warmup THEN compare.samples[w]
                    ELSE Append(compare.samples[w], x)
    BY <2>5, <2>6
  <2>9. \A v \in Variants : Len(compare.samples[v]) = Taken(v, s)
    BY <1>0, <1>5, <2>1 DEF SampleInv
  <2>10. Round(s) \in Nat
    BY DEF Round
  <2>11. \A v \in Variants : Len(compare'.samples[v]) = Taken(v, s + 1)
    <3>1. Len(compare'.samples[w]) = Taken(w, s + 1)
      <4>1. PICK q \in Seq(Sample) : q = compare.samples[w]
        BY <2>5
      <4>2. Len(q) \in Nat /\ Len(q) + 0 = Len(q) /\ Len(Append(q, x)) = Len(q) + 1
        OBVIOUS
      <4>3. Taken(w, s + 1) = Taken(w, s) + (IF w = Variant(s) /\ Round(s) >= Warmup THEN 1 ELSE 0)
        BY TakenNext
      <4>4. Len(q) = Taken(w, s)
        BY <2>9, <4>1
      <4>5. Round(s) < Warmup <=> ~(Round(s) >= Warmup)
        BY <2>10, RoundsFacts
      <4> QED BY <2>2, <2>8, <4>1, <4>2, <4>3, <4>4, <4>5
    <3>2. ASSUME NEW v \in Variants, v # w PROVE Len(compare'.samples[v]) = Taken(v, s + 1)
      <4>1. Taken(v, s + 1) = Taken(v, s) + 0
        BY <2>2, <3>2, TakenNext
      <4>2. Len(compare.samples[v]) \in Nat
        BY <2>5
      <4> QED BY <2>7, <2>9, <3>2, <4>1, <4>2
    <3> QED BY <3>1, <3>2
  <2>12. \A v \in Variants : \A i \in 1..Len(compare'.samples[v]) : compare'.samples[v][i].by = compare'.samples[v][i].of
    <3>1. \A i \in 1..Len(compare'.samples[w]) : compare'.samples[w][i].by = compare'.samples[w][i].of
      BY <1>0, <2>4, <2>5, <2>8 DEF SampleInv
    <3> QED BY <1>0, <2>7, <3>1 DEF SampleInv
  <2>13. compare.step = 3 * Rounds => \A v \in Variants : Len(compare'.samples[v]) = Samples
    BY <2>1, <2>11, TakenAtLast
  <2>14. ~compare.complete /\ compare'.pc \in {"plan", "select"}
    BY <1>0, <1>1, <1>5 DEF StepInv
  <2> QED BY <1>1, <1>2, <2>1, <2>11, <2>12, <2>13, <2>14 DEF SampleInv
<1>13. AnswerInv'
  <2>1. PICK a \in Seq(Nat), b \in Nat, r \in Nat :
              a = compare.arrays /\ b = compare.buf /\ r = compare.ref
    BY <1>4, FieldTypes
  <2>2. b \in DOMAIN a /\ b # 0
    BY <1>0, <1>5, <2>1 DEF AnswerInv
  <2>3. CASE r = 0
    <3>1. compare'.ref = b /\ compare'.buf = 0 /\ compare.answers = {a[b]}
      BY <1>0, <1>1, <1>5, <2>1, <2>3 DEF Adopted, AnswerInv, Kept
    <3> QED BY <1>0, <1>1, <1>2, <1>4, <1>5, <2>1, <2>2, <3>1 DEF AnswerInv, Kept, StepInv
  <2>4. CASE r # 0
    <3>1. compare'.ref = r /\ compare'.buf = b /\ a[r] = a[b]
      BY <1>1, <2>1, <2>4 DEF Adopted, Differs
    <3>2. r \in DOMAIN a /\ r # b /\ compare.answers = {a[r]}
      BY <1>0, <1>5, <2>1, <2>4, <3>1 DEF AnswerInv, Kept
    <3> QED BY <1>0, <1>1, <1>2, <1>4, <1>5, <2>1, <2>2, <3>1, <3>2 DEF AnswerInv, Kept, StepInv
  <2> QED BY <2>3, <2>4
<1>14. PlanInv'
  <2>1. compare.step = 3 * Rounds \/ compare'.pc = "select"
    BY <1>1
  <2>2. \A v \in Variants : v \in 1..3 /\ ~compare.failed[v]
    BY <1>0, <1>5 DEF PlanInv, Variants
  <2>3. compare'.pc \in {"plan", "select"} /\ ~compare.complete
    BY <1>0, <1>1, <1>5 DEF StepInv
  <2>4. compare.step = 3 * Rounds => \A v \in Variants : ~(v <= compare.step - 3 * Rounds)
    BY <1>4, <2>2, RoundsFacts
  <2> QED BY <1>1, <1>2, <2>1, <2>2, <2>3, <2>4 DEF PlanInv
<1> QED BY <1>6, <1>7, <1>8, <1>9, <1>10, <1>11, <1>12, <1>13, <1>14 DEF CompareInv

LEMMA ReleaseKeeps ==
  ASSUME CompareInv, PoolTyping, Release, NEW ok \in BOOLEAN, Freed(ok)
  PROVE  CompareInv'
<1>0. /\ CompareTyping /\ ConnInv /\ StepInv /\ Fresh /\ Numbered
      /\ Counted /\ SampleInv /\ AnswerInv /\ PlanInv
  BY DEF CompareInv
<1>1. /\ compare' \in Calls
      /\ Only(compare, compare', {"pc", "err", "complete", "arrays", "ref", "buf"})
      /\ compare'.pc = "deliver"
      /\ compare'.err = (compare.err \/ ~ok)
      /\ compare'.complete = (ok /\ ~compare.err)
      /\ compare'.arrays = <<>>
      /\ compare'.ref = 0
      /\ compare'.buf = 0
  BY <1>0, ReleaseFields
<1>2. /\ compare'.kind = compare.kind /\ compare'.conn = compare.conn /\ compare'.step = compare.step
      /\ compare'.samples = compare.samples /\ compare'.status = compare.status
      /\ compare'.failed = compare.failed
      /\ compare'.pending = compare.pending /\ compare'.answers = compare.answers
      /\ compare'.delivered = compare.delivered
  BY <1>1 DEF Only, Fields
<1>3. UNCHANGED <<others, last, data>> /\ idle' = Released
  BY DEF Release, sessionVars
<1>4. /\ compare \in Calls /\ compare.step \in Nat
      /\ compare.err \in BOOLEAN /\ compare.complete \in BOOLEAN
  BY <1>0, FieldTypes DEF CompareTyping
<1>5. compare.pc = "release"
  BY DEF Release
<1>6. CompareTyping'
  BY <1>0, <1>1, <1>3 DEF CompareTyping
<1>7. ConnInv'
  <2>1. compare.kind \in {"db", "borrowed"} /\ compare.conn \in Connections \ (idle \cup others)
    BY <1>0, <1>5 DEF ConnInv, Holding
  <2> QED BY <1>0, <1>1, <1>2, <1>3, <2>1 DEF ConnInv, Holding, Released
<1>8. StepInv'
  BY <1>0, <1>1, <1>2, <1>3, <1>4, <1>5, RoundsFacts DEF StepInv
<1>9. Fresh'
  BY <1>0, <1>1, <1>2, <1>3, <1>4, <1>5, RoundsFacts DEF Fresh, StepInv
<1>10. Numbered'
  BY <1>0, <1>1, <1>2, <1>3, <1>4, <1>5, RoundsFacts DEF Numbered, StepInv
<1>11. Counted'
  <2>1. compare.pending \in Seq(Observation)
    BY <1>4, FieldTypes
  <2>2. PICK m \in Nat : m = Len(compare.pending)
    BY <2>1
  <2>3. Len(compare.delivered) = 0 /\ 0 + m = m
    BY <1>0, <1>5, NothingObserved DEF Counted
  <2>4. ~compare.err => Len(compare.delivered) + Len(compare.pending) = 3 * Rounds + 3
    BY <1>0, <1>5, <2>2, <2>3 DEF Counted, StepInv
  <2>5. compare'.pc = "deliver" /\ (compare'.complete => ~compare.err)
    BY <1>1
  <2> QED BY <1>2, <2>4, <2>5 DEF Counted
<1>12. SampleInv'
  BY <1>0, <1>1, <1>2, <1>3, <1>4, <1>5, RoundsFacts DEF SampleInv, StepInv
<1>13. AnswerInv'
  BY <1>0, <1>1, <1>2, <1>3, <1>4, <1>5, RoundsFacts DEF AnswerInv, Kept, StepInv
<1>14. PlanInv'
  BY <1>0, <1>1, <1>2, <1>3, <1>4, <1>5, RoundsFacts DEF PlanInv, Accepted, StepInv
<1> QED BY <1>6, <1>7, <1>8, <1>9, <1>10, <1>11, <1>12, <1>13, <1>14 DEF CompareInv

LEMMA DeliverKeeps ==
  ASSUME CompareInv, PoolTyping, Deliver
  PROVE  CompareInv'
<1>0. /\ CompareTyping /\ ConnInv /\ StepInv /\ Fresh /\ Numbered
      /\ Counted /\ SampleInv /\ AnswerInv /\ PlanInv
  BY DEF CompareInv
<1>1. /\ compare' \in Calls /\ Only(compare, compare', {"pending", "delivered"})
      /\ compare'.pending = Tail(compare.pending)
      /\ compare'.delivered = Append(compare.delivered, Head(compare.pending).of)
  BY <1>0, DeliverFields
<1>2. /\ compare'.pc = compare.pc /\ compare'.kind = compare.kind /\ compare'.conn = compare.conn
      /\ compare'.step = compare.step /\ compare'.arrays = compare.arrays /\ compare'.ref = compare.ref
      /\ compare'.buf = compare.buf /\ compare'.samples = compare.samples
      /\ compare'.status = compare.status
      /\ compare'.failed = compare.failed /\ compare'.err = compare.err
      /\ compare'.complete = compare.complete
      /\ compare'.answers = compare.answers
  BY <1>1 DEF Only, Fields
<1>3. UNCHANGED <<idle, others, last, data>>
  BY DEF Deliver, sessionVars
<1>4. /\ compare \in Calls /\ compare.step \in Nat
      /\ compare.err \in BOOLEAN /\ compare.complete \in BOOLEAN
  BY <1>0, FieldTypes DEF CompareTyping
<1>5. compare.pc = "deliver"
  BY DEF Deliver
<1>6. CompareTyping'
  BY <1>0, <1>1, <1>3 DEF CompareTyping
<1>7. ConnInv'
  BY <1>0, <1>1, <1>2, <1>3, <1>4, <1>5, RoundsFacts DEF ConnInv, Holding, StepInv
<1>8. StepInv'
  BY <1>0, <1>1, <1>2, <1>3, <1>4, <1>5, RoundsFacts DEF StepInv
<1>9. Fresh'
  BY <1>0, <1>1, <1>2, <1>3, <1>4, <1>5, RoundsFacts DEF Fresh, StepInv
<1>10. Numbered'
  <2>1. compare.delivered \in Seq(Nat) /\ compare.pending \in Seq(Observation) /\ compare.pending # <<>>
    BY <1>4, FieldTypes DEF Deliver
  <2> QED BY <1>0, <1>1, <2>1, DeliverInOrder DEF Numbered
<1>11. Counted'
  <2>1. compare.delivered \in Seq(Nat) /\ compare.pending \in Seq(Observation) /\ compare.pending # <<>>
    BY <1>4, FieldTypes DEF Deliver
  <2>2. Len(compare'.delivered) + Len(compare'.pending) = Len(compare.delivered) + Len(compare.pending)
    BY <1>0, <1>1, <2>1, DeliverInOrder DEF Numbered
  <2> QED BY <1>0, <1>1, <1>2, <1>5, <2>2 DEF Counted
<1>12. SampleInv'
  BY <1>0, <1>1, <1>2, <1>3, <1>4, <1>5, RoundsFacts DEF SampleInv, StepInv
<1>13. AnswerInv'
  BY <1>0, <1>1, <1>2, <1>3, <1>4, <1>5, RoundsFacts DEF AnswerInv, Kept, StepInv
<1>14. PlanInv'
  BY <1>0, <1>1, <1>2, <1>3, <1>4, <1>5, RoundsFacts DEF PlanInv, Accepted, StepInv
<1> QED BY <1>6, <1>7, <1>8, <1>9, <1>10, <1>11, <1>12, <1>13, <1>14 DEF CompareInv

LEMMA ReturnKeeps ==
  ASSUME CompareInv, PoolTyping, Return
  PROVE  CompareInv'
<1>0. /\ CompareTyping /\ ConnInv /\ StepInv /\ Fresh /\ Numbered
      /\ Counted /\ SampleInv /\ AnswerInv /\ PlanInv
  BY DEF CompareInv
<1>1. /\ compare' \in Calls /\ Only(compare, compare', {"pc"})
      /\ compare'.pc = "returned"
  BY <1>0, ReturnFields
<1>2. /\ compare'.kind = compare.kind /\ compare'.conn = compare.conn /\ compare'.step = compare.step
      /\ compare'.arrays = compare.arrays /\ compare'.ref = compare.ref /\ compare'.buf = compare.buf
      /\ compare'.samples = compare.samples /\ compare'.status = compare.status
      /\ compare'.failed = compare.failed
      /\ compare'.pending = compare.pending /\ compare'.err = compare.err
      /\ compare'.complete = compare.complete
      /\ compare'.answers = compare.answers /\ compare'.delivered = compare.delivered
  BY <1>1 DEF Only, Fields
<1>3. /\ UNCHANGED <<others, last, data>>
      /\ idle' = IF compare.kind = "borrowed" THEN idle \cup {compare.conn} ELSE idle
  BY DEF Return, sessionVars
<1>4. /\ compare \in Calls /\ compare.step \in Nat
      /\ compare.err \in BOOLEAN /\ compare.complete \in BOOLEAN
  BY <1>0, FieldTypes DEF CompareTyping
<1>5. compare.pc = "deliver" /\ compare.pending = <<>>
  BY DEF Return
<1>6. CompareTyping'
  BY <1>0, <1>1, <1>3 DEF CompareTyping
<1>7. ConnInv'
  BY <1>0, <1>1, <1>2, <1>3, <1>4, <1>5, RoundsFacts DEF ConnInv, Holding, StepInv
<1>8. StepInv'
  BY <1>0, <1>1, <1>2, <1>3, <1>4, <1>5, RoundsFacts DEF StepInv
<1>9. Fresh'
  BY <1>0, <1>1, <1>2, <1>3, <1>4, <1>5, RoundsFacts DEF Fresh, StepInv
<1>10. Numbered'
  BY <1>0, <1>1, <1>2, <1>3, <1>4, <1>5, RoundsFacts DEF Numbered, StepInv
<1>11. Counted'
  BY <1>0, <1>1, <1>2, <1>3, <1>4, <1>5, RoundsFacts DEF Counted, StepInv
<1>12. SampleInv'
  BY <1>0, <1>1, <1>2, <1>3, <1>4, <1>5, RoundsFacts DEF SampleInv, StepInv
<1>13. AnswerInv'
  BY <1>0, <1>1, <1>2, <1>3, <1>4, <1>5, RoundsFacts DEF AnswerInv, Kept, StepInv
<1>14. PlanInv'
  BY <1>0, <1>1, <1>2, <1>3, <1>4, <1>5, RoundsFacts DEF PlanInv, Accepted, StepInv
<1> QED BY <1>6, <1>7, <1>8, <1>9, <1>10, <1>11, <1>12, <1>13, <1>14 DEF CompareInv

LEMMA ExplainFailsKeeps ==
  ASSUME CompareInv, PoolTyping, Explain, cancelled' \in BOOLEAN, Explained(FALSE, "unknown")
  PROVE  CompareInv'
<1>0. /\ CompareTyping /\ ConnInv /\ StepInv /\ Fresh /\ Numbered
      /\ Counted /\ SampleInv /\ AnswerInv /\ PlanInv
  BY DEF CompareInv
<1>1. /\ compare' \in Calls
      /\ Only(compare, compare', {"step", "pending", "status", "failed", "err", "pc"})
      /\ compare'.step = compare.step + 1
      /\ compare'.pending = Append(compare.pending, Observed(compare.step + 1, FALSE))
      /\ compare'.status = [compare.status EXCEPT ![compare.step - 3 * Rounds + 1] = "unknown"]
      /\ compare'.failed = [compare.failed EXCEPT ![compare.step - 3 * Rounds + 1] = ~FALSE]
      /\ compare'.err = (compare.err \/ ~FALSE \/ cancelled')
      /\ compare'.pc = (IF compare.step - 3 * Rounds + 1 = 3 \/ cancelled' THEN "release" ELSE "plan")
  BY <1>0, ExplainFailsFields
<1>2. /\ compare'.kind = compare.kind /\ compare'.conn = compare.conn
      /\ compare'.arrays = compare.arrays
      /\ compare'.ref = compare.ref /\ compare'.buf = compare.buf /\ compare'.samples = compare.samples
      /\ compare'.complete = compare.complete /\ compare'.answers = compare.answers
      /\ compare'.delivered = compare.delivered
  BY <1>1 DEF Only, Fields
<1>3. UNCHANGED <<idle, others, data>> /\ last' = [last EXCEPT ![compare.conn] = NoStatement]
  BY DEF Explain
<1>4. /\ compare \in Calls /\ compare.step \in Nat
      /\ compare.err \in BOOLEAN /\ compare.complete \in BOOLEAN
  BY <1>0, FieldTypes DEF CompareTyping
<1>5. compare.pc = "plan"
  BY DEF Explain
<1>6. CompareTyping'
  <2>1. last \in [Connections -> Nat] /\ data \in Nat
    BY <1>0 DEF CompareTyping
  <2>2. last' \in [Connections -> Nat] /\ data' = data
    BY <1>3, <2>1 DEF NoStatement
  <2> QED BY <1>1, <2>1, <2>2 DEF CompareTyping
<1>7. ConnInv'
  BY <1>0, <1>1, <1>2, <1>3, <1>4, <1>5, RoundsFacts DEF ConnInv, Holding, StepInv
<1>8. StepInv'
  <2>1. PICK n \in Nat : n = compare.step
    BY <1>4
  <2>2. n \in (3 * Rounds)..(3 * Rounds + 2)
    BY <1>0, <1>5, <2>1 DEF StepInv
  <2>3. n + 1 \in (3 * Rounds)..(3 * Rounds + 3) /\ (n - 3 * Rounds + 1 = 3 <=> n + 1 = 3 * Rounds + 3)
    BY <2>2, RoundsFacts
  <2>4. n - 3 * Rounds + 1 # 3 => n + 1 \in (3 * Rounds)..(3 * Rounds + 2)
    BY <2>2, RoundsFacts
  <2>5. ~compare.complete /\ compare'.step = n + 1
    BY <1>0, <1>1, <1>5, <2>1 DEF StepInv
  <2>6. CASE compare'.pc = "plan"
    BY <1>1, <1>2, <2>1, <2>4, <2>5, <2>6 DEF StepInv
  <2>7. CASE compare'.pc = "release"
    <3>1. n - 3 * Rounds + 1 = 3 \/ cancelled'
      BY <1>1, <2>1, <2>7
    <3>2. ~compare'.err => n + 1 = 3 * Rounds + 3
      BY <1>1, <2>3, <3>1
    <3> QED BY <1>2, <2>5, <2>7, <3>2 DEF StepInv
  <2> QED BY <1>1, <2>6, <2>7
<1>9. Fresh'
  BY <1>0, <1>1, <1>2, <1>3, <1>4, <1>5, RoundsFacts DEF Fresh, StepInv
<1>10. Numbered'
  <2>1. compare.delivered \in Seq(Nat) /\ compare.pending \in Seq(Observation)
    BY <1>4, FieldTypes
  <2>0. compare.step + 1 \in Nat
    BY <1>4
  <2>2. compare.delivered = <<>> /\ Len(compare.delivered) = 0
    BY <1>0, <1>5, NothingObserved DEF Counted
  <2>3. compare.step + 1 = Len(compare.delivered) + Len(compare.pending) + 1
    BY <1>0, <1>4, <1>5, <2>1, <2>2 DEF Counted, StepInv
  <2>4. InOrder(compare.delivered, Append(compare.pending, Observed(compare.step + 1, FALSE)))
    BY <1>0, <1>4, <2>0, <2>1, <2>3, ObserveInOrder DEF Numbered
  <2> QED BY <1>1, <1>2, <2>4 DEF Numbered
<1>11. Counted'
  <2>1. compare.delivered \in Seq(Nat) /\ compare.pending \in Seq(Observation)
    BY <1>4, FieldTypes
  <2>0. compare.step + 1 \in Nat
    BY <1>4
  <2>2. Len(compare'.pending) = Len(compare.pending) + 1
    BY <1>0, <1>1, <2>0, <2>1, ObserveInOrder DEF Numbered
  <2>3. Len(compare.pending) = compare.step /\ compare.delivered = <<>> /\ ~compare.complete
    BY <1>0, <1>5 DEF Counted, StepInv
  <2>4. Len(compare'.pending) = compare'.step /\ compare'.delivered = <<>> /\ ~compare'.complete
    BY <1>1, <1>2, <2>2, <2>3
  <2>5. compare'.pc \in {"plan", "release"}
    BY <1>1
  <2> QED BY <2>4, <2>5 DEF Counted
<1>12. SampleInv'
  BY <1>0, <1>1, <1>2, <1>3, <1>4, <1>5, RoundsFacts DEF SampleInv, StepInv
<1>13. AnswerInv'
  BY <1>0, <1>1, <1>2, <1>3, <1>4, <1>5, RoundsFacts DEF AnswerInv, Kept, StepInv
<1>14. PlanInv'
  <2>1. PICK n \in Nat : n = compare.step
    BY <1>4
  <2>2. n \in (3 * Rounds)..(3 * Rounds + 2)
    BY <1>0, <1>5, <2>1 DEF StepInv
  <2>3. PICK w \in Variants : w = n - 3 * Rounds + 1
    BY <2>2, RoundsFacts DEF Variants
  <2>4. /\ n + 1 - 3 * Rounds = w
        /\ \A v \in Variants : v <= w => v = w \/ v <= n - 3 * Rounds
        /\ w = 3 => \A v \in Variants : v <= w
    BY <2>2, <2>3, RoundsFacts DEF Variants
  <2>5. compare.status \in [Variants -> Statuses] /\ compare.failed \in [Variants -> BOOLEAN]
    BY <1>4, FieldTypes
  <2>6. /\ compare'.status[w] = "unknown" /\ compare'.failed[w] = ~(FALSE)
        /\ \A v \in Variants : v # w => compare'.status[v] = compare.status[v] /\ compare'.failed[v] = compare.failed[v]
    BY <1>1, <2>1, <2>3, <2>5
  <2>7. compare'.pc \in {"plan", "release"} /\ ~compare'.complete /\ compare'.step = n + 1
    BY <1>0, <1>1, <1>2, <1>5, <2>1 DEF StepInv
  <2>8. ASSUME ~compare'.err
        PROVE  \A v \in Variants : ~compare'.failed[v] /\ (v <= w => Accepted(v)')
    <3>1. ~compare.err /\ FALSE
      BY <1>1, <1>4, <2>8
    <3>2. \A v \in Variants : ~compare.failed[v] /\ (v <= n - 3 * Rounds => Accepted(v))
      BY <1>0, <1>5, <2>1, <3>1 DEF PlanInv
    <3> QED BY <2>4, <2>6, <3>1, <3>2 DEF Accepted
  <2>9. CASE compare'.pc = "plan"
    <3>0. n + 1 - 3 * Rounds = w /\ compare'.step = n + 1
      BY <2>4, <2>7
    <3>2. PICK m \in Nat : m = n + 1 /\ compare'.step = m
      BY <3>0
    <3>3. m - 3 * Rounds = w
      BY <3>0, <3>2, RoundsFacts
    <3>1. compare'.step - 3 * Rounds = w
      BY <3>2, <3>3
    <3> QED BY <2>7, <2>8, <2>9, <3>1 DEF PlanInv
  <2>10. CASE compare'.pc = "release"
    <3>1. ~compare'.err => w = 3
      BY <1>1, <2>1, <2>3, <2>10
    <3>2. ~compare'.err => compare'.step = 3 * Rounds + 3
      BY <2>2, <2>3, <2>7, <3>1, RoundsFacts
    <3> QED BY <2>4, <2>7, <2>8, <2>10, <3>1, <3>2 DEF PlanInv
  <2> QED BY <2>7, <2>9, <2>10
<1> QED BY <1>6, <1>7, <1>8, <1>9, <1>10, <1>11, <1>12, <1>13, <1>14 DEF CompareInv

LEMMA ExplainKeeps ==
  ASSUME CompareInv, PoolTyping, Explain, cancelled' \in BOOLEAN, NEW status \in Statuses,
         Explained(status \in {"matched", "unrequested"}, status)
  PROVE  CompareInv'
<1>0. /\ CompareTyping /\ ConnInv /\ StepInv /\ Fresh /\ Numbered
      /\ Counted /\ SampleInv /\ AnswerInv /\ PlanInv
  BY DEF CompareInv
<1>1. /\ compare' \in Calls
      /\ Only(compare, compare', {"step", "pending", "status", "failed", "err", "pc"})
      /\ compare'.step = compare.step + 1
      /\ compare'.pending = Append(compare.pending, Observed(compare.step + 1, FALSE))
      /\ compare'.status = [compare.status EXCEPT ![compare.step - 3 * Rounds + 1] = status]
      /\ compare'.failed =
            [compare.failed EXCEPT ![compare.step - 3 * Rounds + 1] = ~(status \in {"matched", "unrequested"})]
      /\ compare'.err = (compare.err \/ ~(status \in {"matched", "unrequested"}) \/ cancelled')
      /\ compare'.pc = (IF compare.step - 3 * Rounds + 1 = 3 \/ cancelled' THEN "release" ELSE "plan")
  BY <1>0, ExplainFields
<1>2. /\ compare'.kind = compare.kind /\ compare'.conn = compare.conn
      /\ compare'.arrays = compare.arrays
      /\ compare'.ref = compare.ref /\ compare'.buf = compare.buf /\ compare'.samples = compare.samples
      /\ compare'.complete = compare.complete /\ compare'.answers = compare.answers
      /\ compare'.delivered = compare.delivered
  BY <1>1 DEF Only, Fields
<1>3. UNCHANGED <<idle, others, data>> /\ last' = [last EXCEPT ![compare.conn] = NoStatement]
  BY DEF Explain
<1>4. /\ compare \in Calls /\ compare.step \in Nat
      /\ compare.err \in BOOLEAN /\ compare.complete \in BOOLEAN
  BY <1>0, FieldTypes DEF CompareTyping
<1>5. compare.pc = "plan"
  BY DEF Explain
<1>6. CompareTyping'
  <2>1. last \in [Connections -> Nat] /\ data \in Nat
    BY <1>0 DEF CompareTyping
  <2>2. last' \in [Connections -> Nat] /\ data' = data
    BY <1>3, <2>1 DEF NoStatement
  <2> QED BY <1>1, <2>1, <2>2 DEF CompareTyping
<1>7. ConnInv'
  BY <1>0, <1>1, <1>2, <1>3, <1>4, <1>5, RoundsFacts DEF ConnInv, Holding, StepInv
<1>8. StepInv'
  <2>1. PICK n \in Nat : n = compare.step
    BY <1>4
  <2>2. n \in (3 * Rounds)..(3 * Rounds + 2)
    BY <1>0, <1>5, <2>1 DEF StepInv
  <2>3. n + 1 \in (3 * Rounds)..(3 * Rounds + 3) /\ (n - 3 * Rounds + 1 = 3 <=> n + 1 = 3 * Rounds + 3)
    BY <2>2, RoundsFacts
  <2>4. n - 3 * Rounds + 1 # 3 => n + 1 \in (3 * Rounds)..(3 * Rounds + 2)
    BY <2>2, RoundsFacts
  <2>5. ~compare.complete /\ compare'.step = n + 1
    BY <1>0, <1>1, <1>5, <2>1 DEF StepInv
  <2>6. CASE compare'.pc = "plan"
    BY <1>1, <1>2, <2>1, <2>4, <2>5, <2>6 DEF StepInv
  <2>7. CASE compare'.pc = "release"
    <3>1. n - 3 * Rounds + 1 = 3 \/ cancelled'
      BY <1>1, <2>1, <2>7
    <3>2. ~compare'.err => n + 1 = 3 * Rounds + 3
      BY <1>1, <2>3, <3>1
    <3> QED BY <1>2, <2>5, <2>7, <3>2 DEF StepInv
  <2> QED BY <1>1, <2>6, <2>7
<1>9. Fresh'
  BY <1>0, <1>1, <1>2, <1>3, <1>4, <1>5, RoundsFacts DEF Fresh, StepInv
<1>10. Numbered'
  <2>1. compare.delivered \in Seq(Nat) /\ compare.pending \in Seq(Observation)
    BY <1>4, FieldTypes
  <2>0. compare.step + 1 \in Nat
    BY <1>4
  <2>2. compare.delivered = <<>> /\ Len(compare.delivered) = 0
    BY <1>0, <1>5, NothingObserved DEF Counted
  <2>3. compare.step + 1 = Len(compare.delivered) + Len(compare.pending) + 1
    BY <1>0, <1>4, <1>5, <2>1, <2>2 DEF Counted, StepInv
  <2>4. InOrder(compare.delivered, Append(compare.pending, Observed(compare.step + 1, FALSE)))
    BY <1>0, <1>4, <2>0, <2>1, <2>3, ObserveInOrder DEF Numbered
  <2> QED BY <1>1, <1>2, <2>4 DEF Numbered
<1>11. Counted'
  <2>1. compare.delivered \in Seq(Nat) /\ compare.pending \in Seq(Observation)
    BY <1>4, FieldTypes
  <2>0. compare.step + 1 \in Nat
    BY <1>4
  <2>2. Len(compare'.pending) = Len(compare.pending) + 1
    BY <1>0, <1>1, <2>0, <2>1, ObserveInOrder DEF Numbered
  <2>3. Len(compare.pending) = compare.step /\ compare.delivered = <<>> /\ ~compare.complete
    BY <1>0, <1>5 DEF Counted, StepInv
  <2>4. Len(compare'.pending) = compare'.step /\ compare'.delivered = <<>> /\ ~compare'.complete
    BY <1>1, <1>2, <2>2, <2>3
  <2>5. compare'.pc \in {"plan", "release"}
    BY <1>1
  <2> QED BY <2>4, <2>5 DEF Counted
<1>12. SampleInv'
  BY <1>0, <1>1, <1>2, <1>3, <1>4, <1>5, RoundsFacts DEF SampleInv, StepInv
<1>13. AnswerInv'
  BY <1>0, <1>1, <1>2, <1>3, <1>4, <1>5, RoundsFacts DEF AnswerInv, Kept, StepInv
<1>14. PlanInv'
  <2>1. PICK n \in Nat : n = compare.step
    BY <1>4
  <2>2. n \in (3 * Rounds)..(3 * Rounds + 2)
    BY <1>0, <1>5, <2>1 DEF StepInv
  <2>3. PICK w \in Variants : w = n - 3 * Rounds + 1
    BY <2>2, RoundsFacts DEF Variants
  <2>4. /\ n + 1 - 3 * Rounds = w
        /\ \A v \in Variants : v <= w => v = w \/ v <= n - 3 * Rounds
        /\ w = 3 => \A v \in Variants : v <= w
    BY <2>2, <2>3, RoundsFacts DEF Variants
  <2>5. compare.status \in [Variants -> Statuses] /\ compare.failed \in [Variants -> BOOLEAN]
    BY <1>4, FieldTypes
  <2>6. /\ compare'.status[w] = status /\ compare'.failed[w] = ~(status \in {"matched", "unrequested"})
        /\ \A v \in Variants : v # w => compare'.status[v] = compare.status[v] /\ compare'.failed[v] = compare.failed[v]
    BY <1>1, <2>1, <2>3, <2>5
  <2>7. compare'.pc \in {"plan", "release"} /\ ~compare'.complete /\ compare'.step = n + 1
    BY <1>0, <1>1, <1>2, <1>5, <2>1 DEF StepInv
  <2>8. ASSUME ~compare'.err
        PROVE  \A v \in Variants : ~compare'.failed[v] /\ (v <= w => Accepted(v)')
    <3>1. ~compare.err /\ status \in {"matched", "unrequested"}
      BY <1>1, <1>4, <2>8
    <3>2. \A v \in Variants : ~compare.failed[v] /\ (v <= n - 3 * Rounds => Accepted(v))
      BY <1>0, <1>5, <2>1, <3>1 DEF PlanInv
    <3> QED BY <2>4, <2>6, <3>1, <3>2 DEF Accepted
  <2>9. CASE compare'.pc = "plan"
    <3>0. n + 1 - 3 * Rounds = w /\ compare'.step = n + 1
      BY <2>4, <2>7
    <3>2. PICK m \in Nat : m = n + 1 /\ compare'.step = m
      BY <3>0
    <3>3. m - 3 * Rounds = w
      BY <3>0, <3>2, RoundsFacts
    <3>1. compare'.step - 3 * Rounds = w
      BY <3>2, <3>3
    <3> QED BY <2>7, <2>8, <2>9, <3>1 DEF PlanInv
  <2>10. CASE compare'.pc = "release"
    <3>1. ~compare'.err => w = 3
      BY <1>1, <2>1, <2>3, <2>10
    <3>2. ~compare'.err => compare'.step = 3 * Rounds + 3
      BY <2>2, <2>3, <2>7, <3>1, RoundsFacts
    <3> QED BY <2>4, <2>7, <2>8, <2>10, <3>1, <3>2 DEF PlanInv
  <2> QED BY <2>7, <2>9, <2>10
<1> QED BY <1>6, <1>7, <1>8, <1>9, <1>10, <1>11, <1>12, <1>13, <1>14 DEF CompareInv

---------------------------------------------------------------------------
(* The comparison and everybody else.                                         *)

\* A call whose connection nobody takes, and whose session nobody uses, goes on
\* as it was.
LEMMA ComparisonStays ==
  ASSUME CompareInv, compare' = compare, data' \in Nat, last' \in [Connections -> Nat],
         \/ compare.pc = "rest"
         \/ /\ idle' \cup others' \subseteq idle \cup others
            /\ \A c \in Connections \ (idle \cup others) : last'[c] = last[c]
  PROVE  CompareInv'
<1>1. CompareTyping'
  BY DEF CompareInv, CompareTyping
<1>2. ConnInv'
  BY DEF CompareInv, ConnInv, Holding
<1>3. StepInv' /\ Fresh' /\ Counted'
  BY DEF CompareInv, StepInv, Fresh, Counted
<1>4. Numbered'
  BY DEF CompareInv, Numbered
<1>5. SampleInv'
  BY DEF CompareInv, SampleInv
<1>6. AnswerInv'
  BY DEF CompareInv, AnswerInv, Kept
<1>7. PlanInv'
  BY DEF CompareInv, PlanInv, Accepted
<1> QED BY <1>1, <1>2, <1>3, <1>4, <1>5, <1>6, <1>7 DEF CompareInv

LEMMA DataKeeps == ASSUME CompareInv, DataChanges PROVE CompareInv'
  BY ComparisonStays DEF DataChanges, sessionVars, CompareInv, CompareTyping

LEMMA OthersUseKeeps == ASSUME CompareInv, PoolTyping, NEW c \in Connections, OthersUse(c) PROVE CompareInv'
<1>1. /\ c \in idle /\ idle' = idle \ {c} /\ others' = others \cup {c}
      /\ last' = [last EXCEPT ![c] = NoStatement] /\ data' = data /\ compare' = compare
  BY DEF OthersUse, OthersTake, Take
<1>2. data \in Nat /\ last \in [Connections -> Nat]
  BY DEF CompareInv, CompareTyping
<1>3. last' \in [Connections -> Nat] /\ \A d \in Connections \ (idle \cup others) : last'[d] = last[d]
  BY <1>1, <1>2 DEF NoStatement
<1> QED BY <1>1, <1>2, <1>3, ComparisonStays

LEMMA OthersReturnKeeps ==
  ASSUME CompareInv, NEW c \in Connections, OthersReturn(c), UNCHANGED compareVars
  PROVE  CompareInv'
<1>1. idle' \cup others' \subseteq idle \cup others
  BY DEF OthersReturn
<1>2. data \in Nat /\ last \in [Connections -> Nat]
  BY DEF CompareInv, CompareTyping
<1> QED BY <1>1, <1>2, ComparisonStays DEF compareVars

\* The steps of the call, together.
Comparing == RefuseCompare \/ (\E kind \in Executors : StartCompare(kind)) \/ CompareStep

LEMMA ComparingKeeps ==
  ASSUME CompareInv, PoolTyping, cancelled \in BOOLEAN, Comparing
  PROVE  CompareInv'
<1>1. CASE RefuseCompare
  BY <1>1, RefuseKeeps
<1>2. CASE \E kind \in Executors : StartCompare(kind)
  BY <1>2, StartKeeps
<1>3. CASE \E c \in Connections : Pin(c)
  BY <1>3, PinKeeps
<1>4. CASE PinFails
  BY <1>4, PinFailsKeeps
<1>5. CASE CompareStops
  BY <1>5, StopKeeps
<1>6. CASE SelectFails
  BY <1>6, SelectFailsKeeps
<1>7. CASE Select
  BY <1>7, SelectKeeps
<1>8. CASE ProbeFails
  BY <1>8, ProbeFailsKeeps
<1>9. CASE Probe
  BY <1>9, DiffersKeeps, AgreesKeeps
<1>10. CASE Explain
  <2>1. cancelled' \in BOOLEAN
    BY <1>10 DEF Explain
  <2> QED BY <1>10, <2>1, ExplainOutcomes, ExplainFailsKeeps, ExplainKeeps
<1>11. CASE Release
  BY <1>11, ReleaseOutcomes, ReleaseKeeps
<1>12. CASE Deliver
  BY <1>12, DeliverKeeps
<1>13. CASE Return
  BY <1>13, ReturnKeeps
<1> QED BY <1>1, <1>2, <1>3, <1>4, <1>5, <1>6, <1>7, <1>8, <1>9, <1>10, <1>11, <1>12, <1>13
        DEF Comparing, CompareStep

\* What they leave alone: of the pool, only the connection of the call moves.
LEMMA ComparingPool ==
  ASSUME Comparing, PoolTyping, CompareInv, cancelled \in BOOLEAN
  PROVE  /\ UNCHANGED <<others, home, zone, lock, run>> /\ UNCHANGED readyVars
         /\ cancelled' \in BOOLEAN /\ (cancelled => cancelled')
         /\ idle' \subseteq Connections /\ idle' \cap others = {}
<1>0. compare.pc = "release" \/ compare.pc = "deliver" => compare.kind \in {"db", "borrowed"}
  BY DEF CompareInv, ConnInv
<1>1. CASE RefuseCompare \/ PinFails \/ CompareStops \/ SelectFails \/ Select \/ ProbeFails \/ Probe
             \/ Explain \/ Deliver \/ \E kind \in Executors : StartCompare(kind)
  BY <1>1 DEF PoolTyping, RefuseCompare, PinFails, CompareStops, SelectFails, Select, ProbeFails, Probe,
              Explain, Deliver, StartCompare, sessionVars
<1>2. CASE \E c \in Connections : Pin(c)
  BY <1>2 DEF Pin, Take, PoolTyping
<1>3. CASE Release
  <2>1. compare.conn \in Connections \ (idle \cup others)
    BY <1>3 DEF Release, CompareInv, ConnInv, Holding
  <2> QED BY <1>3, <2>1 DEF Release, Released, PoolTyping
<1>4. CASE Return
  <2>1. compare.kind = "borrowed" => compare.conn \in Connections \ (idle \cup others)
    BY <1>4 DEF Return, CompareInv, ConnInv, Holding
  <2> QED BY <1>4, <2>1 DEF Return, PoolTyping
<1> QED BY <1>1, <1>2, <1>3, <1>4 DEF Comparing, CompareStep

LEMMA CompareStarts == CompareInit => CompareInv
<1> SUFFICES ASSUME CompareInit PROVE CompareInv
  OBVIOUS
<1>1. /\ compare = NoCompare /\ NoCompare \in Calls
      /\ data \in Nat /\ last \in [Connections -> Nat]
  <2>1. NoCompare \in Calls
    BY EmptyNat, NothingObserved DEF NoCompare, Calls, CompareStates, Statuses
  <2> QED BY <2>1 DEF CompareInit, NoStatement
<1>2. /\ compare.pc = "rest" /\ compare.step = 0 /\ ~compare.err /\ ~compare.complete
      /\ compare.arrays = <<>> /\ compare.ref = 0 /\ compare.buf = 0 /\ compare.answers = {}
      /\ compare.pending = <<>> /\ compare.delivered = <<>>
      /\ \A v \in Variants : compare.samples[v] = <<>> /\ ~compare.failed[v]
  BY <1>1 DEF NoCompare
<1>3. CompareTyping /\ ConnInv /\ StepInv /\ Fresh
  BY <1>1, <1>2 DEF CompareTyping, ConnInv, Holding, StepInv, Fresh
<1>4. Numbered
  BY <1>2, NothingObserved DEF Numbered
<1>5. Counted /\ PlanInv /\ AnswerInv
  BY <1>2 DEF Counted, PlanInv, AnswerInv
<1>6. SampleInv
  BY <1>2, NothingObserved DEF SampleInv
<1> QED BY <1>3, <1>4, <1>5, <1>6 DEF CompareInv

---------------------------------------------------------------------------
(* The preparation: the wait for the replicas and the probes.                 *)

\* Every call of WaitReplicaReady takes or answers; ContextEnds is monotone.
Waiting == RefuseWait \/ StartWait \/ InspectionFails \/ Inspection \/ TimerFires \/ DeadlinePasses

LEMMA AnswerIsWait ==
  ASSUME NEW last_, NEW err \in Errors
  PROVE  /\ Answer(last_, err).pc = "answered" /\ Answer(last_, err).last = last_
         /\ Answer(last_, err).err = err
         /\ Answer(last_, err) \in [pc : {"rest", "inspect", "timer", "answered"}, last : {last_}, err : Errors]
  BY DEF Answer

LEMMA SeenIsConfigured ==
  ASSUME NEW row, Inspected(row).configured
  PROVE  Inspected(row).count > 0
  BY DEF Inspected, Named

LEMMA WaitingKeeps ==
  ASSUME WaitInv, Waiting
  PROVE  WaitInv'
<1>0. UNCHANGED cancelled
  BY DEF Waiting, RefuseWait, StartWait, InspectionFails, Inspection, TimerFires,
     DeadlinePasses, sessionVars
<1>1. CASE RefuseWait
  <2>1. wait' = Answer(Named, "refused") /\ seen' = Named /\ "refused" \in Errors
    BY <1>1 DEF RefuseWait, Errors
  <2> QED BY <2>1, AnswerIsWait DEF WaitInv
<1>2. CASE StartWait
  <2>1. wait' = [pc |-> "inspect", last |-> Named, err |-> "none"] /\ seen' = Named /\ "none" \in Errors
    BY <1>2 DEF StartWait, NoWait, Errors
  <2> QED BY <2>1 DEF WaitInv
<1>3. CASE InspectionFails
  <2>1. wait.last = seen /\ seen' = seen
    BY <1>3 DEF WaitInv, InspectionFails
  <2>2. InspectError(replica) \in {"not found", "invalid"}
    BY DEF InspectError
  <2>3. \/ wait' = Answer(seen, "context") /\ cancelled
        \/ wait' = Answer(seen, "query") \/ wait' = Answer(seen, InspectError(replica))
    BY <1>3, <2>1, Zenon DEF InspectionFails
  <2>4. PICK err \in {"context", "query", "not found", "invalid"} :
              wait' = Answer(seen, err) /\ (err = "context" => cancelled)
    BY <2>2, <2>3
  <2>5. err \in Errors /\ err # "none"
    BY <2>4 DEF Errors
  <2>6. wait'.pc = "answered" /\ wait'.err = err
        /\ wait' \in [pc : {"rest", "inspect", "timer", "answered"}, last : {seen}, err : Errors]
    BY <2>4, <2>5, AnswerIsWait
  <2> QED BY <1>0, <2>1, <2>4, <2>5, <2>6 DEF WaitInv
<1>4. CASE Inspection
  <2>1. PICK now : /\ seen' = now /\ (now.configured => now.count > 0)
                   /\ wait' = CASE ~now.configured -> Answer(now, "not configured")
                                [] now.configured /\ now.available -> Answer(now, "none")
                                [] OTHER -> [wait EXCEPT !.pc = "timer", !.last = now]
    BY <1>4, SeenIsConfigured DEF Inspection
  <2>2. CASE ~now.configured
    <3>1. wait' = Answer(now, "not configured") /\ "not configured" \in Errors
      BY <2>1, <2>2 DEF Errors
    <3>2. wait'.err = "not configured"
          /\ wait' \in [pc : {"rest", "inspect", "timer", "answered"}, last : {now}, err : Errors]
      BY <3>1, AnswerIsWait
    <3> QED BY <2>1, <3>2 DEF WaitInv
  <2>3. CASE now.configured /\ now.available
    <3>1. wait' = Answer(now, "none") /\ "none" \in Errors
      BY <2>1, <2>3 DEF Errors
    <3> QED BY <2>1, <2>3, <3>1, AnswerIsWait DEF WaitInv
  <2>4. CASE now.configured /\ ~now.available
    <3>1. wait' = [wait EXCEPT !.pc = "timer", !.last = now]
      BY <2>1, <2>4
    <3>2. wait' = [pc |-> "timer", last |-> now, err |-> wait.err]
      BY <3>1 DEF WaitInv
    <3>3. wait.err \in Errors /\ (wait.err = "context" => cancelled)
      BY DEF WaitInv
    <3>4. wait'.pc = "timer" /\ wait'.err = wait.err
          /\ wait' \in [pc : {"rest", "inspect", "timer", "answered"}, last : {now}, err : Errors]
      BY <3>2, <3>3
    <3> QED BY <1>0, <2>1, <3>3, <3>4 DEF WaitInv
  <2> QED BY <2>2, <2>3, <2>4
<1>5. CASE TimerFires
  BY <1>0, <1>5 DEF TimerFires, WaitInv
<1>6. CASE DeadlinePasses
  <2>1. wait' = Answer(seen, "context") /\ seen' = seen /\ cancelled /\ "context" \in Errors
    BY <1>6 DEF DeadlinePasses, WaitInv, Errors
  <2> QED BY <1>0, <2>1, AnswerIsWait DEF WaitInv
<1> QED BY <1>1, <1>2, <1>3, <1>4, <1>5, <1>6 DEF Waiting

Probing == StartProbes \/ ProbeOne \/ StopProbes

LEMMA ProbingKeeps ==
  ASSUME ProbeInv, Probing
  PROVE  ProbeInv'
<1>0. Len(Capabilities) \in Nat /\ DOMAIN Capabilities = 1..Len(Capabilities)
  BY ReadinessAssumption
<1>1. CASE StartProbes
  <2>1. PICK s \in ProbeStates : s = [i \in DOMAIN Capabilities |-> "unknown"]
    BY DEF ProbeStates
  <2>2. probe' = [pc |-> "probe", next |-> 1, state |-> s, err |-> FALSE]
    BY <1>1, <2>1 DEF StartProbes, NoProbe
  <2> QED BY <1>0, <2>2 DEF ProbeInv, Probes
<1>2. CASE ProbeOne
  <2>1. PICK o \in {"supported", "unknown", "unsupported"} :
              /\ probe' = [probe EXCEPT !.next = @ + 1, !.state[probe.next] = o, !.err = @ \/ o = "unknown"]
              /\ probe.pc = "probe" /\ probe.next <= Len(Capabilities)
    BY <1>2 DEF ProbeOne, Outcomes
  <2>2. /\ probe \in Probes /\ probe.next \in Nat \ {0}
        /\ probe.state \in ProbeStates /\ probe.err \in BOOLEAN
        /\ probe.next \in DOMAIN Capabilities
    <3>0. probe \in Probes
      BY DEF ProbeInv
    <3>1. probe \in Probes /\ probe.next \in Nat \ {0} /\ probe.err \in BOOLEAN
      BY <3>0 DEF Probes
    <3>2. probe.state \in ProbeStates
      BY <2>1 DEF ProbeInv
    <3> QED BY <1>0, <2>1, <3>1, <3>2
  <2>3. PICK n \in Nat \ {0} : n = probe.next + 1
    BY <2>2
  <2>4. PICK s \in ProbeStates : s = [probe.state EXCEPT ![probe.next] = o]
    BY <2>2 DEF ProbeStates
  <2>5. PICK e \in BOOLEAN : e = (probe.err \/ o = "unknown")
    OBVIOUS
  <2>6. PICK c1 : c1 = [probe EXCEPT !.next = n]
    OBVIOUS
  <2>7. c1.state = probe.state /\ c1.err = probe.err /\ c1 \in Probes /\ c1.next = n /\ c1.pc = probe.pc
    BY <2>2, <2>6 DEF Probes
  <2>8. PICK c2 : c2 = [c1 EXCEPT !.state = s]
    OBVIOUS
  <2>9. c2.err = probe.err /\ c2 \in Probes /\ c2.next = n /\ c2.pc = probe.pc /\ c2.state = s
    BY <2>7, <2>8 DEF Probes
  <2>10. PICK c3 : c3 = [c2 EXCEPT !.err = e]
    OBVIOUS
  <2>11. c3 \in Probes /\ c3.next = n /\ c3.pc = probe.pc /\ c3.state = s /\ c3.err = e
    BY <2>9, <2>10 DEF Probes
  <2>12. probe' = c3
    BY <2>1, <2>3, <2>4, <2>5, <2>6, <2>7, <2>8, <2>9, <2>10, Zenon
  <2>13. /\ s[probe.next] = o
         /\ \A i \in DOMAIN Capabilities : i # probe.next => s[i] = probe.state[i]
    BY <2>2, <2>4 DEF ProbeStates
  <2>14. ASSUME ~e, NEW i \in DOMAIN Capabilities, i < n PROVE s[i] # "unknown"
    <3>1. ~probe.err /\ o # "unknown"
      BY <2>2, <2>5, <2>14
    <3>2. i = probe.next \/ i < probe.next
      BY <1>0, <2>2, <2>3, <2>14
    <3> QED BY <2>1, <2>2, <2>13, <3>1, <3>2 DEF ProbeInv
  <2> QED BY <2>1, <2>11, <2>12, <2>14 DEF ProbeInv
<1>3. CASE StopProbes
  <2>1. CASE probe.next > Len(Capabilities) /\ probe' = [probe EXCEPT !.pc = "answered"] /\ probe.pc = "probe"
    BY <2>1 DEF ProbeInv, Probes
  <2>2. CASE probe' = [probe EXCEPT !.pc = "answered", !.err = TRUE] /\ probe.pc = "probe"
    <3>1. probe' \in Probes /\ probe'.err /\ probe'.state = probe.state
      BY <2>2 DEF ProbeInv, Probes
    <3> QED BY <2>2, <3>1 DEF ProbeInv
  <2> QED BY <1>3, <2>1, <2>2 DEF StopProbes
<1> QED BY <1>1, <1>2, <1>3 DEF Probing

LEMMA ProbesTellTheTruth == ASSUME WaitInv, ProbeInv PROVE PreparationAnswersWhatItSaw
<1>1. wait.last = seen
  BY DEF WaitInv
<1>2. ASSUME probe.pc = "answered", ~probe.err, NEW i \in DOMAIN Capabilities PROVE probe.state[i] # "unknown"
  <2>1. Len(Capabilities) \in Nat /\ DOMAIN Capabilities = 1..Len(Capabilities) /\ probe.next \in Nat
    BY ReadinessAssumption DEF ProbeInv, Probes
  <2>2. i < probe.next
    BY <1>2, <2>1 DEF ProbeInv
  <2> QED BY <1>2, <2>2 DEF ProbeInv
<1> QED BY <1>1, <1>2 DEF PreparationAnswersWhatItSaw, WaitInv

---------------------------------------------------------------------------
(* The tasks together.                                                        *)

PrepareAct == Waiting \/ Probing

\* What a step of the module may be, without the captures.
SessionMoves ==
    /\ task = "session"
    /\ RunSession \/ LockElsewhere \/ \E c \in Connections : Connect(c)
    /\ UNCHANGED <<readyVars, compareVars>>
PrepareMoves == task \in {"wait", "probe"} /\ (PrepareAct \/ ReplicaChanges) /\ UNCHANGED compareVars
CompareMoves == task = "compare" /\ (Comparing \/ DataChanges)
OthersMove ==
    \E c \in Connections : OthersUse(c) \/ (OthersReturn(c) /\ UNCHANGED <<readyVars, compareVars>>)
ContextMoves ==
    cancelled' = TRUE /\ UNCHANGED <<idle, others, home, zone, lock, run, readyVars, compareVars>>
NothingMoves == UNCHANGED <<sessionVars, readyVars, compareVars>>

LEMMA StepKinds ==
  ASSUME [MeasureNext]_measureVars
  PROVE  /\ task' = task
         /\ \/ SessionMoves \/ PrepareMoves \/ CompareMoves
            \/ OthersMove \/ ContextMoves \/ NothingMoves
<1>1. CASE CallStarts
  BY <1>1 DEF CallStarts, SessionMoves, PrepareMoves, CompareMoves, PrepareAct, Waiting,
     Probing, Comparing
<1>2. CASE CallStep
  BY <1>2 DEF CallStep, SessionStep, PrepareStep, Prepare, SessionMoves, PrepareMoves, CompareMoves,
              PrepareAct, Waiting, Probing, Comparing
<1>3. CASE ContextEnds
  BY <1>3 DEF ContextEnds, ContextMoves
<1>4. CASE PoolTaken
  BY <1>4 DEF PoolTaken, OthersMove
<1>5. CASE PoolReturned
  BY <1>5 DEF PoolReturned, OthersMove
<1>6. CASE ServerChanges
  BY <1>6 DEF ServerChanges, SessionMoves, PrepareMoves, CompareMoves
<1>7. CASE Offline
  BY <1>7 DEF Offline, NothingMoves
<1>8. CASE Export
  BY <1>8 DEF Export, WriteCapture, NothingMoves
<1>9. CASE UNCHANGED measureVars
  BY <1>9 DEF measureVars, NothingMoves
<1> QED BY <1>1, <1>2, <1>3, <1>4, <1>5, <1>6, <1>7, <1>8, <1>9 DEF MeasureNext

LEMMA PrepareLeaves == ASSUME PrepareAct PROVE UNCHANGED sessionVars
  BY DEF PrepareAct, Waiting, Probing, RefuseWait, StartWait, InspectionFails, Inspection, TimerFires,
         DeadlinePasses, StartProbes, ProbeOne, StopProbes

\* The pool is used as the sessions of the runner expect, by whoever uses it.
LEMMA PoolIsTyped == ASSUME SessionsInv PROVE PoolTyping
  BY DEF SessionsInv, SessionsTypeOK, PoolTyping

LEMMA QuietPool ==
  ASSUME SessionsInv, run = AtRest, zone = home, lock = Nobody,
         UNCHANGED <<others, home, zone, lock, run>>, idle' \subseteq Connections, idle' \cap others = {}
  PROVE  SessionsInv'
  BY SessionsAssumption
  DEF SessionsInv, SessionsTypeOK, UnusedAreClean, ZoneIsKnown, OnlyTheWorkerHolds, Ours, AtRest, States

LEMMA SessionsHold ==
  ASSUME MeasureInv, [MeasureNext]_measureVars
  PROVE  SessionsInv'
<1>0. SessionsInv /\ TaskInv /\ CompareInv /\ PoolTyping
  BY PoolIsTyped DEF MeasureInv
<1>1. CASE SessionMoves
  <2>1. SessionsNext
    BY <1>1 DEF SessionMoves, SessionsNext, Surroundings
  <2> QED BY <1>0, <2>1, SessionsStepInv
<1>2. CASE PrepareMoves \/ NothingMoves \/ (CompareMoves /\ DataChanges)
  <2>1. UNCHANGED sessionVars
    BY <1>2, PrepareLeaves DEF PrepareMoves, NothingMoves, ReplicaChanges, DataChanges
  <2> QED BY <1>0, <2>1, SessionsStepInv
<1>3. CASE CompareMoves /\ Comparing
  <2>1. run = AtRest /\ zone = home /\ lock = Nobody /\ cancelled \in BOOLEAN
    BY <1>0, <1>3 DEF TaskInv, CompareMoves
  <2> QED BY <1>0, <1>3, <2>1, ComparingPool, QuietPool
<1>4. CASE OthersMove
  BY <1>0, <1>4, OthersKeep DEF OthersMove, OthersUse
<1>5. CASE ContextMoves
  BY <1>0, <1>5 DEF ContextMoves, SessionsInv, SessionsTypeOK, UnusedAreClean, ZoneIsKnown,
     OnlyTheWorkerHolds, Ours
<1> QED BY <1>1, <1>2, <1>3, <1>4, <1>5, StepKinds DEF CompareMoves

LEMMA TasksHold ==
  ASSUME MeasureInv, [MeasureNext]_measureVars
  PROVE  TaskInv'
<1>0. TaskInv /\ SessionsInv /\ CompareInv /\ PoolTyping /\ task' = task
  BY PoolIsTyped, StepKinds DEF MeasureInv
<1>1. CASE SessionMoves
  <2>1. UNCHANGED cancelled
    BY <1>1 DEF SessionMoves, RunSession, LockElsewhere, Connect, InspectConnection, SetZone,
        SetZoneFails,
                GetLock, GetLockTimesOut, GetLockFails, Work, ReleaseLock, ReleaseLockFails, RestoreZone,
                RestoreZoneFails, CloseConnection
  <2> QED BY <1>0, <1>1, <2>1 DEF TaskInv, SessionMoves, compareVars
<1>2. CASE PrepareMoves
  <2>1. UNCHANGED sessionVars
    BY <1>2, PrepareLeaves DEF PrepareMoves, ReplicaChanges
  <2> QED BY <1>0, <1>2, <2>1 DEF TaskInv, PrepareMoves, sessionVars, compareVars
<1>3. CASE CompareMoves /\ Comparing
  <2>1. UNCHANGED <<others, home, zone, lock, run>> /\ cancelled' \in BOOLEAN
    BY <1>0, <1>3, ComparingPool DEF TaskInv
  <2> QED BY <1>0, <1>3, <2>1 DEF TaskInv, CompareMoves
<1>4. CASE CompareMoves /\ DataChanges
  BY <1>0, <1>4 DEF TaskInv, CompareMoves, DataChanges, sessionVars
<1>5. CASE OthersMove
  BY <1>0, <1>5 DEF TaskInv, OthersMove, OthersUse, OthersTake, OthersReturn, compareVars
<1>6. CASE ContextMoves
  BY <1>0, <1>6 DEF TaskInv, ContextMoves, compareVars
<1>7. CASE NothingMoves
  BY <1>0, <1>7 DEF TaskInv, NothingMoves, sessionVars, compareVars
<1> QED BY <1>1, <1>2, <1>3, <1>4, <1>5, <1>6, <1>7, StepKinds DEF CompareMoves

LEMMA ComparisonHolds ==
  ASSUME MeasureInv, [MeasureNext]_measureVars
  PROVE  CompareInv'
<1>0. TaskInv /\ CompareInv /\ PoolTyping /\ cancelled \in BOOLEAN
  BY PoolIsTyped DEF MeasureInv, TaskInv
<1>1. CASE SessionMoves
  <2>1. UNCHANGED compareVars /\ compare.pc = "rest"
    <3>1. UNCHANGED compareVars /\ compare = NoCompare
      BY <1>0, <1>1 DEF SessionMoves, TaskInv
    <3>2. NoCompare.pc = "rest"
      BY DEF NoCompare
    <3> QED BY <3>1, <3>2
  <2>2. data' \in Nat /\ last' \in [Connections -> Nat]
    BY <1>0, <2>1 DEF CompareInv, CompareTyping, compareVars
  <2> QED BY <1>0, <2>1, <2>2, ComparisonStays DEF compareVars
<1>2. CASE PrepareMoves \/ ContextMoves \/ NothingMoves
  <2>1. UNCHANGED <<idle, others>> /\ UNCHANGED compareVars
    BY <1>2, PrepareLeaves DEF PrepareMoves, ContextMoves, NothingMoves, ReplicaChanges,
       sessionVars
  <2>2. data' \in Nat /\ last' \in [Connections -> Nat]
    BY <1>0, <2>1 DEF CompareInv, CompareTyping, compareVars
  <2> QED BY <1>0, <2>1, <2>2, ComparisonStays DEF compareVars
<1>3. CASE CompareMoves
  BY <1>0, <1>3, ComparingKeeps, DataKeeps DEF CompareMoves
<1>4. CASE OthersMove
  BY <1>0, <1>4, OthersUseKeeps, OthersReturnKeeps DEF OthersMove
<1> QED BY <1>1, <1>2, <1>3, <1>4, StepKinds

LEMMA PreparationHolds ==
  ASSUME MeasureInv, [MeasureNext]_measureVars
  PROVE  WaitInv' /\ ProbeInv'
<1>0. WaitInv /\ ProbeInv /\ TaskInv /\ CompareInv /\ SessionsInv /\ PoolTyping
  BY PoolIsTyped DEF MeasureInv
<1>1. CASE UNCHANGED <<wait, seen, probe>> /\ (cancelled => cancelled')
  BY <1>0, <1>1 DEF WaitInv, ProbeInv
<1>2. CASE PrepareMoves /\ Waiting
  <2>1. UNCHANGED probe
    BY <1>2 DEF Waiting, RefuseWait, StartWait, InspectionFails, Inspection, TimerFires,
       DeadlinePasses
  <2> QED BY <1>0, <1>2, <2>1, WaitingKeeps DEF ProbeInv
<1>3. CASE PrepareMoves /\ Probing
  <2>1. UNCHANGED <<wait, seen, cancelled>>
    BY <1>3 DEF Probing, StartProbes, ProbeOne, StopProbes, sessionVars
  <2> QED BY <1>0, <1>3, <2>1, ProbingKeeps DEF WaitInv
<1>4. CASE PrepareMoves /\ ReplicaChanges
  BY <1>1, <1>4 DEF ReplicaChanges, sessionVars
<1>5. CASE SessionMoves
  <2>1. UNCHANGED cancelled
    BY <1>5 DEF SessionMoves, RunSession, LockElsewhere, Connect, InspectConnection, SetZone,
        SetZoneFails,
                GetLock, GetLockTimesOut, GetLockFails, Work, ReleaseLock, ReleaseLockFails, RestoreZone,
                RestoreZoneFails, CloseConnection
  <2> QED BY <1>1, <1>5, <2>1 DEF SessionMoves, readyVars
<1>6. CASE CompareMoves /\ Comparing
  <2>1. UNCHANGED readyVars /\ (cancelled => cancelled')
    BY <1>0, <1>6, ComparingPool DEF TaskInv
  <2> QED BY <1>1, <2>1 DEF readyVars
<1>7. CASE (CompareMoves /\ DataChanges) \/ NothingMoves \/ ContextMoves
  BY <1>1, <1>7 DEF DataChanges, NothingMoves, ContextMoves, readyVars, sessionVars
<1>8. CASE OthersMove
  BY <1>1, <1>8 DEF OthersMove, OthersUse, OthersTake, OthersReturn, readyVars
<1> QED BY <1>2, <1>3, <1>4, <1>5, <1>6, <1>7, <1>8, StepKinds DEF PrepareMoves, PrepareAct,
    CompareMoves

LEMMA MeasureStarts == ASSUME MeasureInit PROVE MeasureInv
<1>1. SessionsInit /\ ReadyInit /\ CompareInit /\ (task # "session" => lock = Nobody)
  BY DEF MeasureInit
<1>2. SessionsInv
  BY <1>1, SessionsInitInv
<1>3. CompareInv
  BY <1>1, CompareStarts
<1>4. TaskInv
  BY <1>1 DEF TaskInv, SessionsInit, CompareInit
<1>5. WaitInv
  <2>1. wait = [pc |-> "rest", last |-> seen, err |-> "none"] /\ "none" \in Errors
    BY <1>1 DEF ReadyInit, NoWait, Errors
  <2> QED BY <2>1 DEF WaitInv
<1>6. ProbeInv
  <2>1. probe = [pc |-> "rest", next |-> 1, state |-> <<>>, err |-> FALSE]
    BY <1>1 DEF ReadyInit, NoProbe
  <2> QED BY <2>1 DEF ProbeInv, Probes
<1> QED BY <1>2, <1>3, <1>4, <1>5, <1>6 DEF MeasureInv

---------------------------------------------------------------------------
(* What the comparison reports.                                               *)

LEMMA InvGivesSamples == ASSUME CompareInv PROVE SamplesAreTheirSelects
<1> SUFFICES ASSUME NEW v \in Variants, NEW i \in 1..Samples, i <= Len(compare.samples[v])
             PROVE  compare.samples[v][i].by = compare.samples[v][i].of
  BY DEF SamplesAreTheirSelects
<1>1. compare.samples \in [Variants -> Seq(Sample)]
  BY FieldTypes DEF CompareInv, CompareTyping
<1>2. PICK n \in Nat : n = Len(compare.samples[v])
  BY <1>1
<1>3. i \in 1..Len(compare.samples[v])
  BY <1>2, RoundsFacts
<1> QED BY <1>3 DEF CompareInv, SampleInv

\* The facts about finite sets, for the Cardinality they are stated with.
Sets == INSTANCE FiniteSetTheorems

LEMMA OneAnswer == ASSUME NEW S, NEW a, S = {a} PROVE Cardinality(S) = 1
<1>1. \A x : Sets!IsFiniteSet({x}) /\ Sets!Cardinality({x}) = 1
  BY Sets!FS_Singleton
<1>2. Sets!Cardinality({a}) = Cardinality({a})
  BY DEF Cardinality, Sets!Cardinality
<1>3. Cardinality({a}) = 1
  BY <1>1, <1>2
<1> QED BY <1>3, Zenon

LEMMA InvGivesReport == ASSUME CompareInv PROVE CompleteReportIsWhole
<1>0. CompareTyping /\ StepInv /\ Numbered /\ Counted /\ SampleInv /\ AnswerInv /\ PlanInv
  BY DEF CompareInv
<1>1. ASSUME compare.complete
      PROVE  /\ Cardinality(compare.answers) = 1
             /\ compare.step = 3 * Rounds + 3
             /\ \A v \in Variants : /\ Len(compare.samples[v]) = Samples
                                    /\ compare.status[v] \in {"matched", "unrequested"}
                                    /\ ~compare.failed[v]
  <2>1. PICK a : compare.answers = {a}
    BY <1>0, <1>1 DEF AnswerInv
  <2>2. Cardinality(compare.answers) = 1
    BY <2>1, OneAnswer
  <2>3. \A v \in Variants : Len(compare.samples[v]) = Samples
    BY <1>0, <1>1 DEF SampleInv
  <2>4. compare.step = 3 * Rounds + 3 /\ \A v \in Variants : ~compare.failed[v] /\ Accepted(v)
    BY <1>0, <1>1 DEF PlanInv
  <2> QED BY <2>2, <2>3, <2>4 DEF Accepted
<1>2. ASSUME compare.pc = "returned"
      PROVE  /\ compare.pending = <<>>
             /\ compare.delivered = [i \in 1..Len(compare.delivered) |-> i]
             /\ compare.complete => Len(compare.delivered) = 3 * Rounds + 3
  <2>1. compare.pending = <<>>
    BY <1>0, <1>2 DEF Counted
  <2>2. compare.delivered \in Seq(Nat)
    BY <1>0, FieldTypes DEF CompareTyping
  <2>3. compare.delivered = [i \in 1..Len(compare.delivered) |-> i]
    BY <1>0, <2>2 DEF Numbered, InOrder
  <2>4. PICK n \in Nat : n = Len(compare.delivered)
    BY <2>2
  <2>5. compare.complete => n + 0 = 3 * Rounds + 3
    BY <1>0, <2>1, <2>4, NothingObserved DEF Counted
  <2> QED BY <2>1, <2>3, <2>4, <2>5
<1> QED BY <1>1, <1>2 DEF CompleteReportIsWhole

---------------------------------------------------------------------------

\* The invariant holds whatever fails or is cancelled and whoever else uses the
\* pool, for any pool, samples, plans and capabilities.
THEOREM MeasureInvariant == MeasureSpec => []MeasureInv
<1>1. MeasureInit => MeasureInv
  BY MeasureStarts
<1>2. MeasureInv /\ [MeasureNext]_measureVars => MeasureInv'
  BY SessionsHold, TasksHold, ComparisonHolds, PreparationHolds DEF MeasureInv
<1> QED BY <1>1, <1>2, PTL DEF MeasureSpec

\* AggregateQuery.Compare: the RU of every sample is that of its own SELECT, since
\* readLastServerRU asks the pinned session and nobody else has it (ConnInv).
THEOREM SamplesAreOwn == MeasureSpec => []SamplesAreTheirSelects
<1>1. MeasureInv => SamplesAreTheirSelects
  BY InvGivesSamples DEF MeasureInv
<1> QED BY <1>1, MeasureInvariant, PTL

\* AggregateQuery.Compare: a complete report rests on equal answers of all its
\* SELECTs, warm-ups included, all its samples and acceptable plans, and once it
\* returns every statement was observed once and in order.
THEOREM ReportsAreWhole == MeasureSpec => []CompleteReportIsWhole
<1>1. MeasureInv => CompleteReportIsWhole
  BY InvGivesReport DEF MeasureInv
<1> QED BY <1>1, MeasureInvariant, PTL

\* WaitReplicaReady answers with what its last good inspection saw, succeeds only
\* for available replicas, and ProbeCapabilities names no unknown as known.
THEOREM PreparationIsTruthful == MeasureSpec => []PreparationAnswersWhatItSaw
<1>1. MeasureInv => PreparationAnswersWhatItSaw
  BY ProbesTellTheTruth DEF MeasureInv
<1> QED BY <1>1, MeasureInvariant, PTL

\* A connection of the pool is as it was dialled, also while comparisons and
\* preparations share it: they leave no time zone and no named lock behind.
THEOREM PoolStaysClean == MeasureSpec => []SessionsComeBackClean
<1>1. MeasureInv => SessionsComeBackClean
  BY InvIsClean DEF MeasureInv
<1> QED BY <1>1, MeasureInvariant, PTL

---------------------------------------------------------------------------
(* The analysis of a file: what it has gathered after each record.           *)

\* G goes through the first n records.
Reads(G, rs, n, schema) ==
    G[0] = EmptyAnalysis /\ \A k \in 1 .. n : G[k] = AddRecord(G[k - 1], rs[k], schema)

FoldsRecords(G, rs, m, schema) ==
    \A s \in SUBSET (1 .. m) :
       G[s] = IF s = {} THEN EmptyAnalysis ELSE AddRecord(G[s \ {Max(s)}], rs[Max(s)], schema)

ReadsUpTo(rs, m, schema) ==
    \E G : DOMAIN G = SUBSET (1 .. m) /\ FoldsRecords(G, rs, m, schema)

LEMMA OneMoreRecord ==
    ASSUME NEW rs, NEW schema, NEW m \in Nat, ReadsUpTo(rs, m, schema)
    PROVE  ReadsUpTo(rs, m + 1, schema)
<1> DEFINE D(l) == SUBSET (1 .. l)
<1>1. PICK G : DOMAIN G = D(m) /\ FoldsRecords(G, rs, m, schema)
  BY DEF ReadsUpTo
<1> DEFINE K == [s \in D(m + 1) |->
                    IF m + 1 \in s THEN AddRecord(G[s \ {m + 1}], rs[m + 1], schema) ELSE G[s]]
<1>2. \A s \in D(m + 1) : (m + 1 \notin s => s \in D(m)) /\ s \ {m + 1} \in D(m)
  <2>1. (1 .. m + 1) \ {m + 1} = 1 .. m
    OBVIOUS
  <2> QED
    BY <2>1
<1>3. \A s \in D(m) : s \in D(m + 1) /\ m + 1 \notin s /\ K[s] = G[s]
  OBVIOUS
<1>4. ASSUME NEW s \in D(m + 1)
      PROVE  K[s] = IF s = {} THEN EmptyAnalysis ELSE AddRecord(K[s \ {Max(s)}], rs[Max(s)], schema)
  <2>1. CASE m + 1 \in s
    <3>1. Max(s) = m + 1
      <4>1. m + 1 \in Nat /\ s \in SUBSET (1 .. m + 1) /\ s # {}
        BY <2>1
      <4>2. Max(s) \in s /\ \A y \in s : y <= Max(s)
        BY <4>1, MaxUpTo
      <4>3. Max(s) \in 1 .. m + 1 /\ m + 1 <= Max(s)
        BY <2>1, <4>1, <4>2
      <4> QED
        BY <4>3
    <3>2. s \ {m + 1} \in D(m) /\ s # {}
      BY <1>2, <2>1
    <3>3. K[s] = AddRecord(G[s \ {m + 1}], rs[m + 1], schema) /\ K[s \ {m + 1}] = G[s \ {m + 1}]
      BY <1>3, <2>1, <3>2
    <3> HIDE DEF K
    <3> QED
      BY <3>1, <3>2, <3>3
  <2>2. CASE m + 1 \notin s
    <3>1. s \in D(m) /\ K[s] = G[s]
      BY <1>2, <1>3, <2>2
    <3>2. G[s] = IF s = {} THEN EmptyAnalysis ELSE AddRecord(G[s \ {Max(s)}], rs[Max(s)], schema)
      BY <1>1, <3>1 DEF FoldsRecords
    <3>3. s \ {Max(s)} \in D(m)
      BY <3>1
    <3>4. K[s \ {Max(s)}] = G[s \ {Max(s)}]
      BY <1>3, <3>3
    <3> HIDE DEF K
    <3> QED
      BY <3>1, <3>2, <3>4
  <2> QED
    BY <2>1, <2>2
<1>5. DOMAIN K = D(m + 1)
  OBVIOUS
<1> HIDE DEF K
<1>6. FoldsRecords(K, rs, m + 1, schema)
  BY <1>4 DEF FoldsRecords
<1> QED
  BY <1>5, <1>6 DEF ReadsUpTo

\* Analysis goes through the records in the order of the file.
LEMMA AnalysisSteps ==
    ASSUME NEW n \in Nat, NEW rs, DOMAIN rs = 1 .. n, NEW schema
    PROVE  \E G : Reads(G, rs, n, schema) /\ Analysis(rs, schema) = G[n]
<1> DEFINE S == {m \in 0 .. n : ReadsUpTo(rs, m, schema)}
           Step(g) == [s \in SUBSET DOMAIN rs |->
                          IF s = {} THEN EmptyAnalysis ELSE AddRecord(g[s \ {Max(s)}], rs[Max(s)], schema)]
           Folding(g) == g = Step(g)
<1>1. 0 \in S
  <2> DEFINE G == [s \in SUBSET (1 .. 0) |-> EmptyAnalysis]
  <2>1. \A s \in SUBSET (1 .. 0) : s = {} /\ G[s] = EmptyAnalysis
    OBVIOUS
  <2>2. FoldsRecords(G, rs, 0, schema)
    BY <2>1 DEF FoldsRecords
  <2>3. DOMAIN G = SUBSET (1 .. 0)
    OBVIOUS
  <2> HIDE DEF G
  <2> QED
    BY <2>2, <2>3 DEF ReadsUpTo
<1>2. \A m \in 0 .. n - 1 : m \in S => m + 1 \in S
  BY OneMoreRecord
<1>3. ReadsUpTo(rs, n, schema)
  <2> HIDE DEF S
  <2>1. \A m \in 0 .. n : m \in S
    BY <1>1, <1>2, UpTo
  <2> QED
    BY <2>1 DEF S
<1>4. PICK F : DOMAIN F = SUBSET (1 .. n) /\ FoldsRecords(F, rs, n, schema)
  BY <1>3 DEF ReadsUpTo
<1> DEFINE F2 == [s \in SUBSET (1 .. n) |-> F[s]]
<1>5. Folding(F2)
  <2>1. \A s \in SUBSET (1 .. n) : s \ {Max(s)} \in SUBSET (1 .. n) /\ F2[s] = F[s]
    OBVIOUS
  <2>2. \A s \in SUBSET (1 .. n) :
           F2[s] = IF s = {} THEN EmptyAnalysis ELSE AddRecord(F2[s \ {Max(s)}], rs[Max(s)], schema)
    <3> HIDE DEF F2
    <3> QED
      BY <1>4, <2>1 DEF FoldsRecords
  <2>3. DOMAIN F2 = SUBSET (1 .. n) /\ F2 = [s \in SUBSET (1 .. n) |-> F2[s]]
    OBVIOUS
  <2> HIDE DEF F2
  <2> QED
    BY <2>2, <2>3
<1> DEFINE g == CHOOSE it : Folding(it)
<1>6. Folding(g)
  <2> HIDE DEF Folding
  <2> QED
    BY <1>5
<1>7. Analysis(rs, schema) = g[1 .. n]
  <2>1. Analysis(rs, schema) = g[DOMAIN rs]
    BY Zenon DEF Analysis, FoldLeft, MapThenFoldSet
  <2> HIDE DEF g
  <2> QED
    BY <2>1
<1> HIDE DEF g
<1> DEFINE G == [k \in 0 .. n |-> g[1 .. k]]
<1>8. G[0] = EmptyAnalysis
  <2>1. {} \in SUBSET DOMAIN rs /\ 1 .. 0 = {}
    OBVIOUS
  <2>2. g[{}] = EmptyAnalysis
    BY <1>6, <2>1
  <2> QED
    BY <2>1, <2>2
<1>9. ASSUME NEW k \in 1 .. n
      PROVE  G[k] = AddRecord(G[k - 1], rs[k], schema)
  <2>1. 1 .. k \in SUBSET DOMAIN rs /\ 1 .. k # {} /\ Max(1 .. k) = k
        /\ (1 .. k) \ {k} = 1 .. k - 1
    BY MaxOfPrefix
  <2>2. g[1 .. k] = AddRecord(g[(1 .. k) \ {Max(1 .. k)}], rs[Max(1 .. k)], schema)
    BY <1>6, <2>1
  <2>3. G[k] = g[1 .. k] /\ G[k - 1] = g[1 .. k - 1]
    OBVIOUS
  <2> QED
    BY <2>1, <2>2, <2>3
<1>10. Analysis(rs, schema) = G[n]
  BY <1>7
<1> HIDE DEF G
<1> QED
  BY <1>8, <1>9, <1>10 DEF Reads

---------------------------------------------------------------------------
(* Multiplicities: the counters of fingerprints and of repeated statements.   *)

\* The indices up to k in T with a given key.
Marked(key, T, k, y) == {i \in T : i <= k /\ key[i] = y}

\* b holds every key up to k with the number of its indices.
CountsKeys(b, key, T, k) ==
    \A y : /\ y \in DOMAIN b <=> Marked(key, T, k, y) # {}
           /\ y \in DOMAIN b => b[y] = Cardinality(Marked(key, T, k, y))

\* A bag that counts keys one by one.
Tallies(B, key, T, n) ==
    /\ B[0] = EmptyBag
    /\ \A k \in 1 .. n : B[k] = IF k \in T THEN B[k - 1] (+) SetToBag({key[k]}) ELSE B[k - 1]

LEMMA MarkedIsFinite ==
    ASSUME NEW n \in Nat, NEW T \in SUBSET (1 .. n), NEW key, NEW k, NEW y
    PROVE  /\ IsFiniteSet(Marked(key, T, k, y)) /\ Cardinality(Marked(key, T, k, y)) \in Nat
           /\ Cardinality(Marked(key, T, k, y)) = 0 <=> Marked(key, T, k, y) = {}
<1>1. IsFiniteSet(1 .. n)
  BY FS_Interval
<1>2. Marked(key, T, k, y) \in SUBSET (1 .. n)
  BY DEF Marked
<1>3. IsFiniteSet(Marked(key, T, k, y))
  BY <1>1, <1>2, FS_Subset
<1> QED
  BY <1>3, FS_CardinalityType, FS_EmptySet

LEMMA MarkedNext ==
    ASSUME NEW n \in Nat, NEW T \in SUBSET (1 .. n), NEW key, NEW k \in 1 .. n, NEW y
    PROVE  /\ k \in T /\ key[k] = y =>
                /\ Marked(key, T, k, y) = Marked(key, T, k - 1, y) \cup {k}
                /\ k \notin Marked(key, T, k - 1, y)
           /\ ~ (k \in T /\ key[k] = y) => Marked(key, T, k, y) = Marked(key, T, k - 1, y)
<1>1. \A i \in T : i <= k <=> i <= k - 1 \/ i = k
  OBVIOUS
<1>2. ~ (k <= k - 1)
  OBVIOUS
<1> QED
  BY <1>1, <1>2 DEF Marked

LEMMA TalliesCount ==
    ASSUME NEW n \in Nat, NEW T \in SUBSET (1 .. n), NEW key, NEW B, Tallies(B, key, T, n)
    PROVE  \A k \in 0 .. n : CountsKeys(B[k], key, T, k)
<1> DEFINE S == {k \in 0 .. n : CountsKeys(B[k], key, T, k)}
<1>1. 0 \in S
  <2>1. \A y : Marked(key, T, 0, y) = {}
    <3>1. \A i \in T : ~ (i <= 0)
      OBVIOUS
    <3> QED
      BY <3>1 DEF Marked
  <2>2. DOMAIN B[0] = {}
    BY DEF Tallies, EmptyBag, SetToBag
  <2> QED
    BY <2>1, <2>2 DEF CountsKeys
<1>2. ASSUME NEW j \in 0 .. n - 1, j \in S
      PROVE  j + 1 \in S
  <2> DEFINE k == j + 1
  <2>1. k \in 1 .. n /\ k - 1 = j /\ k \in 0 .. n
    OBVIOUS
  <2> HIDE DEF k
  <2>2. CountsKeys(B[j], key, T, j)
    BY <1>2
  <2>3. CASE k \in T
    <3>1. B[k] = B[j] (+) SetToBag({key[k]})
      BY <2>1, <2>3 DEF Tallies
    <3> DEFINE b == B[j]  bag == B[k]
    <3>2. /\ DOMAIN bag = DOMAIN b \cup {key[k]}
          /\ \A y \in DOMAIN bag : y # key[k] => bag[y] = b[y] + 0
          /\ bag[key[k]] = (IF key[k] \in DOMAIN b THEN b[key[k]] ELSE 0) + 1
      BY <3>1 DEF (+), SetToBag
    <3> HIDE DEF b, bag
    <3>3. ASSUME NEW y
          PROVE  /\ y \in DOMAIN bag <=> Marked(key, T, k, y) # {}
                 /\ y \in DOMAIN bag => bag[y] = Cardinality(Marked(key, T, k, y))
      <4> DEFINE M == Marked(key, T, j, y)  N == Marked(key, T, k, y)
      <4>1. /\ IsFiniteSet(M) /\ Cardinality(M) \in Nat /\ (Cardinality(M) = 0 <=> M = {})
        BY MarkedIsFinite
      <4>2. /\ y \in DOMAIN b <=> M # {}
            /\ y \in DOMAIN b => b[y] = Cardinality(M)
        BY <2>2 DEF CountsKeys, b
      <4>3. /\ y = key[k] => N = M \cup {k} /\ k \notin M
            /\ y # key[k] => N = M
        <5>1. /\ k \in T /\ key[k] = y =>
                   /\ Marked(key, T, k, y) = Marked(key, T, k - 1, y) \cup {k}
                   /\ k \notin Marked(key, T, k - 1, y)
              /\ ~ (k \in T /\ key[k] = y) => Marked(key, T, k, y) = Marked(key, T, k - 1, y)
          BY <2>1, MarkedNext
        <5> QED
          BY <2>1, <2>3, <5>1
      <4> SUFFICES /\ y \in DOMAIN bag <=> N # {}
                   /\ y \in DOMAIN bag => bag[y] = Cardinality(N)
        OBVIOUS
      <4> HIDE DEF M, N
      <4>4. CASE y = key[k]
        <5>1. Cardinality(N) = Cardinality(M) + 1
          BY <4>1, <4>3, <4>4, FS_AddElement
        <5> QED
          BY <3>2, <4>1, <4>2, <4>3, <4>4, <5>1
      <4>5. CASE y # key[k]
        BY <3>2, <4>1, <4>2, <4>3, <4>5
      <4> QED
        BY <4>4, <4>5
    <3> QED
      BY <2>1, <3>3 DEF CountsKeys, bag
  <2>4. CASE k \notin T
    <3>1. B[k] = B[j]
      BY <2>1, <2>4 DEF Tallies
    <3>2. ASSUME NEW y
          PROVE  Marked(key, T, k, y) = Marked(key, T, j, y)
      <4>1. ~ (k \in T /\ key[k] = y) => Marked(key, T, k, y) = Marked(key, T, k - 1, y)
        BY <2>1, MarkedNext
      <4> QED
        BY <2>1, <2>4, <4>1
    <3> QED
      BY <2>1, <2>2, <3>1, <3>2 DEF CountsKeys
  <2> QED
    BY <2>1, <2>3, <2>4 DEF k
<1> HIDE DEF S
<1>3. \A k \in 0 .. n : k \in S
  BY <1>1, <1>2, UpTo
<1> QED
  BY <1>3 DEF S

\* The records up to k of one fingerprint, and of one scope.
OwnUpTo(rs, k, fp) == {i \in 1 .. k : rs[i].fp = fp}
ScopeUpTo(rs, k, scope) == {i \in 1 .. k : rs[i].scope = scope}
\* Those that make one finding with a key when they are repeated.
RepeatsUpTo(rs, k, key) == {i \in 1 .. k : RepeatCode(rs[i]) # "" /\ <<RepeatCode(rs[i]), RepeatKey(rs[i])>> = key}

\* b counts the records of each fingerprint, of each repetition.
CountsOwn(b, rs, n) ==
    \A fp : /\ fp \in DOMAIN b <=> OwnUpTo(rs, n, fp) # {}
            /\ fp \in DOMAIN b => b[fp] = Cardinality(OwnUpTo(rs, n, fp))
CountsRepeats(b, rs, n) ==
    \A key : /\ key \in DOMAIN b <=> RepeatsUpTo(rs, n, key) # {}
             /\ key \in DOMAIN b => b[key] = Cardinality(RepeatsUpTo(rs, n, key))

\* The parts of an analysis that one record changes.
Changed(a, b, r, schema) ==
    /\ b.counts = a.counts (+) SetToBag({r.fp})
    /\ b.repeats = IF RepeatCode(r) = "" THEN a.repeats
                   ELSE a.repeats (+) SetToBag({<<RepeatCode(r), RepeatKey(r)>>})
    /\ b.ru = IF r.ru = NoRU THEN a.ru
              ELSE With(a.ru, r.fp, AddRU(At(a.ru, r.fp, NoSamples), r.ru))
    /\ b.scopes = With(a.scopes, r.scope, AddToScope(At(a.scopes, r.scope, NoScope), r))
    /\ b.found = a.found \cup RecordFindings(r, schema)

LEMMA AddChanges ==
    ASSUME NEW a, NEW r, NEW schema
    PROVE  Changed(a, AddRecord(a, r, schema), r, schema)
  BY Zenon DEF AddRecord, ScopeKey, Changed

LEMMA ReadsChange ==
    ASSUME NEW n \in Nat, NEW rs, NEW schema, NEW G, Reads(G, rs, n, schema), NEW k \in 1 .. n
    PROVE  Changed(G[k - 1], G[k], rs[k], schema)
<1>1. G[k] = AddRecord(G[k - 1], rs[k], schema)
  BY DEF Reads
<1> QED
  BY <1>1, AddChanges

LEMMA AnalysisCounts ==
    ASSUME NEW n \in Nat, NEW rs, NEW schema, NEW G, Reads(G, rs, n, schema)
    PROVE  CountsOwn(G[n].counts, rs, n) /\ CountsRepeats(G[n].repeats, rs, n)
<1>1. CountsOwn(G[n].counts, rs, n)
  <2> DEFINE B == [k \in 0 .. n |-> G[k].counts]
             key == [k \in 1 .. n |-> rs[k].fp]
             T == 1 .. n
  <2>1. Tallies(B, key, T, n)
    <3>1. B[0] = EmptyBag
      BY DEF Reads, EmptyAnalysis
    <3>2. ASSUME NEW k \in 1 .. n
          PROVE  B[k] = B[k - 1] (+) SetToBag({key[k]})
      <4>1. G[k].counts = G[k - 1].counts (+) SetToBag({rs[k].fp})
        <5>1. Changed(G[k - 1], G[k], rs[k], schema)
          BY ReadsChange
        <5> QED
          BY <5>1 DEF Changed
      <4>2. B[k] = G[k].counts /\ B[k - 1] = G[k - 1].counts /\ key[k] = rs[k].fp
        OBVIOUS
      <4> HIDE DEF B, key
      <4> QED
        BY <4>1, <4>2
    <3> HIDE DEF B, key
    <3> QED
      BY <3>1, <3>2 DEF Tallies
  <2>2. \A fp : Marked(key, T, n, fp) = OwnUpTo(rs, n, fp)
    BY DEF Marked, OwnUpTo
  <2>3. B[n] = G[n].counts /\ n \in 0 .. n /\ T \in SUBSET (1 .. n)
    OBVIOUS
  <2> HIDE DEF B, key, T
  <2>4. CountsKeys(B[n], key, T, n)
    BY <2>1, <2>3, TalliesCount
  <2> QED
    BY <2>2, <2>3, <2>4 DEF CountsKeys, CountsOwn
<1>2. CountsRepeats(G[n].repeats, rs, n)
  <2> DEFINE B == [k \in 0 .. n |-> G[k].repeats]
             key == [k \in 1 .. n |-> <<RepeatCode(rs[k]), RepeatKey(rs[k])>>]
             T == {k \in 1 .. n : RepeatCode(rs[k]) # ""}
  <2>1. Tallies(B, key, T, n)
    <3>1. B[0] = EmptyBag
      BY DEF Reads, EmptyAnalysis
    <3>2. ASSUME NEW k \in 1 .. n
          PROVE  B[k] = IF k \in T THEN B[k - 1] (+) SetToBag({key[k]}) ELSE B[k - 1]
      <4>1. G[k].repeats = IF RepeatCode(rs[k]) = "" THEN G[k - 1].repeats
                           ELSE G[k - 1].repeats (+) SetToBag({<<RepeatCode(rs[k]), RepeatKey(rs[k])>>})
        <5>1. Changed(G[k - 1], G[k], rs[k], schema)
          BY ReadsChange
        <5> QED
          BY <5>1 DEF Changed
      <4>2. /\ B[k] = G[k].repeats /\ B[k - 1] = G[k - 1].repeats
        OBVIOUS
      <4>3. key[k] = <<RepeatCode(rs[k]), RepeatKey(rs[k])>> /\ (k \in T <=> RepeatCode(rs[k]) # "")
        OBVIOUS
      <4> HIDE DEF B, key, T
      <4> QED
        BY <4>1, <4>2, <4>3
    <3> HIDE DEF B, key, T
    <3> QED
      BY <3>1, <3>2 DEF Tallies
  <2>2. ASSUME NEW y
        PROVE  Marked(key, T, n, y) = RepeatsUpTo(rs, n, y)
    <3>1. \A i \in 1 .. n : key[i] = <<RepeatCode(rs[i]), RepeatKey(rs[i])>> /\ i <= n
      OBVIOUS
    <3>2. \A i : i \in T <=> i \in 1 .. n /\ RepeatCode(rs[i]) # ""
      BY Zenon
    <3> HIDE DEF key, T
    <3> QED
      BY <3>1, <3>2 DEF Marked, RepeatsUpTo
  <2>3. B[n] = G[n].repeats /\ n \in 0 .. n /\ T \in SUBSET (1 .. n)
    <3>1. T \in SUBSET (1 .. n)
      BY Zenon
    <3> HIDE DEF T, key
    <3> QED
      BY <3>1
  <2> HIDE DEF B, key, T
  <2>4. CountsKeys(B[n], key, T, n)
    BY <2>1, <2>3, TalliesCount
  <2> QED
    BY <2>2, <2>3, <2>4 DEF CountsKeys, CountsRepeats
<1> QED
  BY <1>1, <1>2

---------------------------------------------------------------------------
(* The ServerRU of a fingerprint.                                            *)

\* The records of a readable file.
WellFormed(rs, n) == \A i \in 1 .. n : RecordTypes(rs[i]) /\ ValidRecord(rs[i])

MeasureType(r) ==
    /\ r.ru \in [known : BOOLEAN, value : Nat, failed : BOOLEAN]
    /\ ~ r.ru.known => r.ru.value = 0

LEMMA ReadableMeasures ==
    ASSUME NEW rs, NEW n \in Nat, WellFormed(rs, n), NEW i \in 1 .. n
    PROVE  MeasureType(rs[i])
<1> DEFINE ru == rs[i].ru
<1>1. /\ ru \in [known : BOOLEAN, value : Int, failed : BOOLEAN]
      /\ ru # NoRU => \/ ru.known /\ ru.value >= 0
                      \/ ~ru.known /\ ru.failed /\ ru.value = 0
  BY DEF WellFormed, RecordTypes, ValidRecord
<1> HIDE DEF ru
<1>2. ru.value \in Nat /\ (~ ru.known => ru.value = 0)
  BY <1>1 DEF NoRU
<1>3. ru \in [known : BOOLEAN, value : Nat, failed : BOOLEAN]
  BY <1>1, <1>2
<1> QED
  BY <1>2, <1>3 DEF MeasureType, ru

Values(rs, S) == MapThenSumSet(LAMBDA i : rs[i].ru.value, S)

\* The sum over a set of records, whichever the fold takes first.
SumsValues(g, rs, n) ==
    \A T \in SUBSET (1 .. n) :
       Values(rs, T) = g[T] /\ \A i \in T : g[T] = g[T \ {i}] + rs[i].ru.value

LEMMA ValuesAreSums ==
    ASSUME NEW rs, NEW n \in Nat, WellFormed(rs, n)
    PROVE  \E g \in [SUBSET (1 .. n) -> Nat] : SumsValues(g, rs, n)
<1> DEFINE S == 1 .. n
           f == [i \in S |-> rs[i].ru.value]
<1>1. IsFiniteSet(S)
  BY FS_Interval
<1>2. Numbers(f, S)
  BY ReadableMeasures DEF MeasureType, Numbers
<1>3. \A i \in S : f[i] = rs[i].ru.value
  OBVIOUS
<1> HIDE DEF S, f
<1>4. PICK g \in [SUBSET S -> Nat] : Adds(g, f, S)
  BY <1>1, <1>2, SumExists, Zenon
<1>5. \A T \in SUBSET S : TakesOff(g, f, T)
  BY <1>1, <1>2, <1>4, SumTakesOff, Zenon
<1>6. ASSUME NEW T \in SUBSET S
      PROVE  Values(rs, T) = g[T]
  <2> DEFINE Step(h) == [s \in SUBSET T |-> IF s = {} THEN 0 ELSE rs[Pick(s)].ru.value + h[s \ {Pick(s)}]]
             Sums(h) == h = Step(h)
             h == CHOOSE it : Sums(it)
             gT == [s \in SUBSET T |-> g[s]]
  <2>1. Values(rs, T) = h[T]
    BY Zenon DEF Values, MapThenSumSet, MapThenFoldSet, Pick
  <2>2. Sums(gT)
    <3>1. ASSUME NEW s \in SUBSET T
          PROVE  gT[s] = IF s = {} THEN 0 ELSE rs[Pick(s)].ru.value + gT[s \ {Pick(s)}]
      <4>1. s \in SUBSET S /\ s \ {Pick(s)} \in SUBSET T /\ s \ {Pick(s)} \in SUBSET S
        OBVIOUS
      <4>2. g[s] = IF s = {} THEN 0 ELSE g[s \ {Pick(s)}] + f[Pick(s)]
        BY <1>4, <4>1 DEF Adds
      <4>3. gT[s] = g[s] /\ gT[s \ {Pick(s)}] = g[s \ {Pick(s)}] /\ g[s \ {Pick(s)}] \in Nat
        BY <1>4, <4>1
      <4> HIDE DEF gT
      <4>4. s # {} => Pick(s) \in S /\ f[Pick(s)] = rs[Pick(s)].ru.value /\ f[Pick(s)] \in Nat
        <5>1. s # {} => Pick(s) \in s
          BY Picked
        <5> QED
          BY <1>2, <1>3, <4>1, <5>1 DEF Numbers
      <4> QED
        BY <4>2, <4>3, <4>4
    <3>2. DOMAIN gT = SUBSET T /\ gT = [s \in SUBSET T |-> gT[s]]
      OBVIOUS
    <3> HIDE DEF gT
    <3> QED
      BY <3>1, <3>2
  <2>3. Sums(h)
    <3> HIDE DEF Sums
    <3> QED
      BY <2>2
  <2>4. Adds(h, f, T)
    <3>1. ASSUME NEW s \in SUBSET T
          PROVE  h[s] = IF s = {} THEN 0 ELSE f[Pick(s)] + h[s \ {Pick(s)}]
      <4>1. h[s] = IF s = {} THEN 0 ELSE rs[Pick(s)].ru.value + h[s \ {Pick(s)}]
        <5> HIDE DEF h
        <5> QED
          BY <2>3
      <4> HIDE DEF h
      <4>2. s # {} => f[Pick(s)] = rs[Pick(s)].ru.value
        <5>1. s # {} => Pick(s) \in s
          BY Picked
        <5> QED
          BY <1>3, <5>1
      <4> QED
        BY <4>1, <4>2
    <3>2. IsFiniteSet(T) /\ Numbers(f, T)
      BY <1>1, <1>2, FS_Subset DEF Numbers
    <3> HIDE DEF h
    <3> QED
      BY <3>1, <3>2, SumsEitherWay DEF AddsBefore
  <2> HIDE DEF h
  <2>5. \A s \in SUBSET T : g[s] = h[s]
    <3>1. \A x \in T : f[x] = f[x]
      OBVIOUS
    <3> QED
      BY <1>1, <1>4, <2>4, SumsAgree
  <2> QED
    BY <2>1, <2>5
<1>7. SumsValues(g, rs, n)
  BY <1>3, <1>5, <1>6 DEF SumsValues, TakesOff, S
<1> QED
  BY <1>4, <1>7 DEF S

Accumulated == [samples : Nat, errors : Nat, total : Nat, min : Int, max : Int]

\* What an accumulated RU e tells of the records in own.
Accounts(e, rs, own) ==
    /\ e \in Accumulated
    /\ e.samples <= Cardinality(own)
    /\ e.samples = Cardinality(own) => \A i \in own : rs[i].ru.known
    /\ e.errors = 0 => \A i \in own : ~ rs[i].ru.failed
    /\ e.total = Values(rs, own)

RuAccounts(ru, rs, k) ==
    \A fp : /\ fp \in DOMAIN ru <=> \E i \in OwnUpTo(rs, k, fp) : rs[i].ru # NoRU
            /\ Accounts(At(ru, fp, NoSamples), rs, OwnUpTo(rs, k, fp))

LEMMA OwnIsFinite ==
    ASSUME NEW rs, NEW k \in Nat, NEW fp
    PROVE  /\ IsFiniteSet(OwnUpTo(rs, k, fp)) /\ Cardinality(OwnUpTo(rs, k, fp)) \in Nat
           /\ Cardinality(OwnUpTo(rs, k, fp)) = 0 <=> OwnUpTo(rs, k, fp) = {}
<1>1. IsFiniteSet(1 .. k) /\ OwnUpTo(rs, k, fp) \in SUBSET (1 .. k)
  BY FS_Interval DEF OwnUpTo
<1>2. IsFiniteSet(OwnUpTo(rs, k, fp))
  BY <1>1, FS_Subset
<1> QED
  BY <1>2, FS_CardinalityType, FS_EmptySet

LEMMA OwnNext ==
    ASSUME NEW rs, NEW k \in Nat \ {0}, NEW fp
    PROVE  /\ rs[k].fp = fp =>
                /\ OwnUpTo(rs, k, fp) = OwnUpTo(rs, k - 1, fp) \cup {k}
                /\ k \notin OwnUpTo(rs, k - 1, fp)
           /\ rs[k].fp # fp => OwnUpTo(rs, k, fp) = OwnUpTo(rs, k - 1, fp)
<1>1. \A i : i \in 1 .. k <=> i \in 1 .. k - 1 \/ i = k
  OBVIOUS
<1>2. k \notin 1 .. k - 1
  OBVIOUS
<1> QED
  BY <1>1, <1>2 DEF OwnUpTo

LEMMA ValuesNext ==
    ASSUME NEW n \in Nat, NEW rs, WellFormed(rs, n), NEW k \in 1 .. n, NEW own \in SUBSET (1 .. k - 1)
    PROVE  Values(rs, own \cup {k}) = Values(rs, own) + rs[k].ru.value /\ Values(rs, own) \in Nat
<1>1. PICK g \in [SUBSET (1 .. n) -> Nat] : SumsValues(g, rs, n)
  BY ValuesAreSums
<1>2. own \cup {k} \in SUBSET (1 .. n) /\ own \in SUBSET (1 .. n) /\ (own \cup {k}) \ {k} = own
  OBVIOUS
<1>3. /\ Values(rs, own \cup {k}) = g[own \cup {k}] /\ Values(rs, own) = g[own]
      /\ g[own \cup {k}] = g[(own \cup {k}) \ {k}] + rs[k].ru.value
  BY <1>1, <1>2 DEF SumsValues
<1> QED
  BY <1>1, <1>2, <1>3

\* The same for no records.
LEMMA NothingAccounts ==
    ASSUME NEW n \in Nat, NEW rs, WellFormed(rs, n)
    PROVE  Accounts(NoSamples, rs, {})
<1>1. PICK g \in [SUBSET (1 .. n) -> Nat] : SumsValues(g, rs, n)
  BY ValuesAreSums
<1>2. Values(rs, {}) = 0
  <2> DEFINE Step(h) == [s \in SUBSET {} |-> IF s = {} THEN 0 ELSE rs[Pick(s)].ru.value + h[s \ {Pick(s)}]]
             Sums(h) == h = Step(h)
             h == CHOOSE it : Sums(it)
             none == [s \in SUBSET {} |-> 0]
  <2>1. Values(rs, {}) = h[{}]
    BY Zenon DEF Values, MapThenSumSet, MapThenFoldSet, Pick
  <2>2. Sums(none)
    <3>1. \A s \in SUBSET {} : s = {}
      OBVIOUS
    <3> QED
      BY <3>1
  <2>3. Sums(h)
    <3> HIDE DEF Sums
    <3> QED
      BY <2>2
  <2>4. h[{}] = 0
    <3> HIDE DEF h
    <3> QED
      BY <2>3
  <2> QED
    BY <2>1, <2>4
<1>3. Cardinality({}) = 0
  BY FS_EmptySet
<1> QED
  BY <1>2, <1>3 DEF Accounts, NoSamples, Accumulated

\* One record more for its own fingerprint.
LEMMA AddAccounts ==
    ASSUME NEW n \in Nat, NEW rs, WellFormed(rs, n), NEW k \in 1 .. n, NEW own \in SUBSET (1 .. k - 1),
           NEW e, Accounts(e, rs, own)
    PROVE  Accounts(AddRU(e, rs[k].ru), rs, own \cup {k})
<1> DEFINE r == rs[k].ru
           a == AddRU(e, r)
           c == Cardinality(own)
<1>1. r \in [known : BOOLEAN, value : Nat, failed : BOOLEAN]
  BY ReadableMeasures DEF MeasureType
<1>2. /\ e \in Accumulated /\ e.samples <= c
      /\ e.samples = c => \A i \in own : rs[i].ru.known
      /\ e.errors = 0 => \A i \in own : ~ rs[i].ru.failed
      /\ e.total = Values(rs, own)
  BY DEF Accounts
<1>3. c \in Nat /\ Cardinality(own \cup {k}) = c + 1
  <2>1. k \notin own /\ IsFiniteSet(1 .. k - 1)
    BY FS_Interval
  <2>2. IsFiniteSet(own)
    BY <2>1, FS_Subset
  <2> QED
    BY <2>1, <2>2, FS_CardinalityType, FS_AddElement
<1>4. Values(rs, own \cup {k}) = Values(rs, own) + r.value
  BY ValuesNext
<1> HIDE DEF r, c
<1>5. a \in Accumulated
  BY <1>1, <1>2 DEF AddRU, Accumulated
<1>6. /\ a.samples = IF r.known THEN e.samples + 1 ELSE e.samples
      /\ a.errors = IF r.failed THEN e.errors + 1 ELSE e.errors
      /\ a.total = e.total + r.value
  BY DEF AddRU
<1> HIDE DEF a
<1>7. e.samples \in Nat /\ e.errors \in Nat
  BY <1>2 DEF Accumulated
<1>8. a.samples <= c + 1 /\ (a.samples = c + 1 => r.known /\ e.samples = c)
  BY <1>1, <1>2, <1>3, <1>6, <1>7
<1>9. a.errors = 0 => ~ r.failed /\ e.errors = 0
  BY <1>1, <1>6, <1>7
<1>10. a.samples = c + 1 => \A i \in own \cup {k} : rs[i].ru.known
  BY <1>2, <1>8 DEF r
<1>11. a.errors = 0 => \A i \in own \cup {k} : ~ rs[i].ru.failed
  BY <1>2, <1>9 DEF r
<1>12. a.total = Values(rs, own \cup {k})
  BY <1>2, <1>4, <1>6
<1> QED
  BY <1>3, <1>5, <1>8, <1>10, <1>11, <1>12 DEF Accounts, a, r

LEMMA RuStep ==
    ASSUME NEW n \in Nat, NEW rs, WellFormed(rs, n), NEW k \in 1 .. n,
           NEW old, RuAccounts(old, rs, k - 1),
           NEW new, new = IF rs[k].ru = NoRU THEN old
                          ELSE With(old, rs[k].fp, AddRU(At(old, rs[k].fp, NoSamples), rs[k].ru))
    PROVE  RuAccounts(new, rs, k)
<1> SUFFICES ASSUME NEW fp
             PROVE  /\ fp \in DOMAIN new <=> \E i \in OwnUpTo(rs, k, fp) : rs[i].ru # NoRU
                    /\ Accounts(At(new, fp, NoSamples), rs, OwnUpTo(rs, k, fp))
  BY DEF RuAccounts
<1> DEFINE own == OwnUpTo(rs, k - 1, fp)
           e == At(old, fp, NoSamples)
<1>1. /\ fp \in DOMAIN old <=> \E i \in own : rs[i].ru # NoRU
      /\ Accounts(e, rs, own)
  BY DEF RuAccounts
<1>2. own \in SUBSET (1 .. k - 1)
  BY DEF OwnUpTo
<1>3. CASE rs[k].fp # fp
  <2>1. OwnUpTo(rs, k, fp) = own
    BY <1>3, OwnNext
  <2>2. (fp \in DOMAIN new <=> fp \in DOMAIN old) /\ At(new, fp, NoSamples) = e
    BY <1>3 DEF With, At
  <2> HIDE DEF own, e
  <2> QED
    BY <1>1, <2>1, <2>2
<1>4. CASE rs[k].fp = fp
  <2>1. OwnUpTo(rs, k, fp) = own \cup {k}
    <3>1. k \in Nat \ {0}
      OBVIOUS
    <3>2. /\ rs[k].fp = fp =>
               /\ OwnUpTo(rs, k, fp) = OwnUpTo(rs, k - 1, fp) \cup {k}
               /\ k \notin OwnUpTo(rs, k - 1, fp)
          /\ rs[k].fp # fp => OwnUpTo(rs, k, fp) = OwnUpTo(rs, k - 1, fp)
      BY <3>1, OwnNext
    <3> QED
      BY <1>4, <3>2
  <2>2. Accounts(AddRU(e, rs[k].ru), rs, own \cup {k})
    BY <1>1, <1>2, AddAccounts
  <2>3. CASE rs[k].ru = NoRU
    <3>1. AddRU(e, rs[k].ru) = e
      <4>1. e \in Accumulated
        BY <1>1 DEF Accounts
      <4> HIDE DEF e
      <4> QED
        BY <2>3, <4>1 DEF AddRU, NoRU, Accumulated
    <3> HIDE DEF own
    <3> QED
      BY <1>1, <2>1, <2>2, <2>3, <3>1
  <2>4. CASE rs[k].ru # NoRU
    <3>1. fp \in DOMAIN new /\ At(new, fp, NoSamples) = AddRU(e, rs[k].ru)
      BY <1>4, <2>4 DEF With, At
    <3> HIDE DEF own, e
    <3> QED
      BY <2>1, <2>2, <2>4, <3>1
  <2> QED
    BY <2>3, <2>4
<1> QED
  BY <1>3, <1>4

LEMMA AnalysisAccounts ==
    ASSUME NEW n \in Nat, NEW rs, WellFormed(rs, n), NEW schema, NEW G, Reads(G, rs, n, schema)
    PROVE  RuAccounts(G[n].ru, rs, n)
<1> DEFINE S == {k \in 0 .. n : RuAccounts(G[k].ru, rs, k)}
<1>1. 0 \in S
  <2>1. G[0].ru = <<>> /\ DOMAIN G[0].ru = {}
    BY DEF Reads, EmptyAnalysis
  <2>2. \A fp : OwnUpTo(rs, 0, fp) = {}
    BY DEF OwnUpTo
  <2>3. \A fp : At(G[0].ru, fp, NoSamples) = NoSamples
    BY <2>1 DEF At
  <2>4. RuAccounts(G[0].ru, rs, 0)
    BY <2>1, <2>2, <2>3, NothingAccounts DEF RuAccounts
  <2> QED
    BY <2>4
<1>2. ASSUME NEW j \in 0 .. n - 1, j \in S
      PROVE  j + 1 \in S
  <2>1. j + 1 \in 1 .. n /\ j + 1 \in 0 .. n /\ (j + 1) - 1 = j
    OBVIOUS
  <2>2. Changed(G[(j + 1) - 1], G[j + 1], rs[j + 1], schema)
    BY <2>1, ReadsChange
  <2>3. G[j + 1].ru = IF rs[j + 1].ru = NoRU THEN G[j].ru
                      ELSE With(G[j].ru, rs[j + 1].fp, AddRU(At(G[j].ru, rs[j + 1].fp, NoSamples), rs[j + 1].ru))
    BY <2>1, <2>2 DEF Changed
  <2>4. RuAccounts(G[j].ru, rs, (j + 1) - 1)
    BY <1>2, <2>1
  <2>5. RuAccounts(G[j + 1].ru, rs, j + 1)
    BY <2>1, <2>3, <2>4, RuStep
  <2> QED
    BY <2>1, <2>5
<1> HIDE DEF S
<1>3. \A k \in 0 .. n : k \in S
  BY <1>1, <1>2, UpTo
<1> QED
  BY <1>3 DEF S

---------------------------------------------------------------------------
(* The scopes of a workload.                                                 *)

Scoped == [statements : Nat, samples : Nat, failures : Nat, unsupported : Nat, transactions : Nat, ru : Nat]

\* What the counters s of a scope tell of its records.
Covers(s, rs, mine) ==
    /\ s \in Scoped
    /\ s.samples <= s.statements
    /\ s.samples = s.statements => \A i \in mine : rs[i].op \in Dml => rs[i].ru.known
    /\ s.failures = 0 => \A i \in mine : ~ rs[i].failed /\ (rs[i].op \in Dml => ~ rs[i].ru.failed)
    /\ s.unsupported = 0 => \A i \in mine : rs[i].op \in Dml \cup TransactionControl
    /\ s.statements > 0 => \E i \in mine : rs[i].op \in Dml

ScopesCover(scopes, rs, k) ==
    /\ IsFiniteSet(DOMAIN scopes)
    /\ \A scope : /\ scope \in DOMAIN scopes <=> ScopeUpTo(rs, k, scope) # {}
                  /\ Covers(At(scopes, scope, NoScope), rs, ScopeUpTo(rs, k, scope))

LEMMA NothingCovers == ASSUME NEW rs PROVE Covers(NoScope, rs, {})
  BY DEF Covers, NoScope, Scoped

LEMMA ScopeNext ==
    ASSUME NEW rs, NEW k \in Nat \ {0}, NEW scope
    PROVE  /\ rs[k].scope = scope => ScopeUpTo(rs, k, scope) = ScopeUpTo(rs, k - 1, scope) \cup {k}
           /\ rs[k].scope # scope => ScopeUpTo(rs, k, scope) = ScopeUpTo(rs, k - 1, scope)
<1>1. \A i : i \in 1 .. k <=> i \in 1 .. k - 1 \/ i = k
  OBVIOUS
<1> QED
  BY <1>1 DEF ScopeUpTo

\* What one record adds, by the kind of its statement.
LEMMA AddedScope ==
    ASSUME NEW s \in Scoped, NEW r, MeasureType(r), NEW t, t = AddToScope(s, r)
    PROVE  /\ r.op \in Dml => /\ t.statements = s.statements + 1
                              /\ t.samples = IF r.ru.known THEN s.samples + 1 ELSE s.samples
                              /\ t.unsupported = s.unsupported
           /\ r.op \notin Dml => t.statements = s.statements /\ t.samples = s.samples
           /\ r.op \notin Dml \cup TransactionControl => t.unsupported = s.unsupported + 1
           /\ t.failures = 0 => s.failures = 0 /\ ~ r.failed /\ (r.op \in Dml => ~ r.ru.failed)
           /\ t.unsupported = 0 => s.unsupported = 0
           /\ t \in Scoped
<1>1. PICK failed : failed = IF r.failed THEN s.failures + 1 ELSE s.failures
  OBVIOUS
<1>2. failed \in Nat /\ (failed = 0 => s.failures = 0 /\ ~ r.failed)
  BY <1>1 DEF Scoped
<1>3. /\ s.statements \in Nat /\ s.samples \in Nat /\ s.failures \in Nat /\ s.unsupported \in Nat
      /\ s.transactions \in Nat /\ s.ru \in Nat
  BY DEF Scoped
<1>4. CASE r.op \in Dml
  <2>1. r.ru.value \in Nat
    BY DEF MeasureType
  <2>2. t = [s EXCEPT !.statements = @ + 1, !.samples = IF r.ru.known THEN @ + 1 ELSE @,
                      !.ru = @ + r.ru.value, !.failures = IF r.ru.failed THEN failed + 1 ELSE failed]
    BY <1>1, <1>4 DEF AddToScope, Dml, TransactionControl
  <2>3. t = [statements |-> s.statements + 1, samples |-> IF r.ru.known THEN s.samples + 1 ELSE s.samples,
             failures |-> IF r.ru.failed THEN failed + 1 ELSE failed, unsupported |-> s.unsupported,
             transactions |-> s.transactions, ru |-> s.ru + r.ru.value]
    BY <2>2 DEF Scoped
  <2>4. t \in Scoped
    BY <1>2, <1>3, <2>1, <2>3 DEF Scoped
  <2> QED
    BY <1>2, <1>4, <2>3, <2>4
<1>5. CASE r.op \notin Dml /\ r.op \in TransactionControl
  <2>1. t = [s EXCEPT !.transactions = @ + 1, !.failures = failed]
    BY <1>1, <1>5 DEF AddToScope
  <2>2. t = [statements |-> s.statements, samples |-> s.samples, failures |-> failed,
             unsupported |-> s.unsupported, transactions |-> s.transactions + 1, ru |-> s.ru]
    BY <2>1 DEF Scoped
  <2>3. t \in Scoped
    BY <1>2, <1>3, <2>2 DEF Scoped
  <2> QED
    BY <1>2, <1>5, <2>2, <2>3
<1>6. CASE r.op \notin Dml /\ r.op \notin TransactionControl
  <2>1. t = [s EXCEPT !.unsupported = @ + 1, !.failures = failed]
    BY <1>1, <1>6 DEF AddToScope
  <2>2. t = [statements |-> s.statements, samples |-> s.samples, failures |-> failed,
             unsupported |-> s.unsupported + 1, transactions |-> s.transactions, ru |-> s.ru]
    BY <2>1 DEF Scoped
  <2>3. t \in Scoped
    BY <1>2, <1>3, <2>2 DEF Scoped
  <2> QED
    BY <1>2, <1>3, <1>6, <2>2, <2>3
<1> QED
  BY <1>4, <1>5, <1>6

\* One record more in its own scope.
LEMMA AddCovers ==
    ASSUME NEW rs, NEW k, MeasureType(rs[k]), NEW mine, NEW s, Covers(s, rs, mine)
    PROVE  Covers(AddToScope(s, rs[k]), rs, mine \cup {k})
<1> DEFINE r == rs[k]
           t == AddToScope(s, r)
<1>1. /\ s \in Scoped
      /\ s.samples <= s.statements
      /\ s.samples = s.statements => \A i \in mine : rs[i].op \in Dml => rs[i].ru.known
      /\ s.failures = 0 => \A i \in mine : ~ rs[i].failed /\ (rs[i].op \in Dml => ~ rs[i].ru.failed)
      /\ s.unsupported = 0 => \A i \in mine : rs[i].op \in Dml \cup TransactionControl
      /\ s.statements > 0 => \E i \in mine : rs[i].op \in Dml
  BY DEF Covers
<1>2. /\ r.op \in Dml => /\ t.statements = s.statements + 1
                         /\ t.samples = IF r.ru.known THEN s.samples + 1 ELSE s.samples
                         /\ t.unsupported = s.unsupported
      /\ r.op \notin Dml => /\ t.statements = s.statements /\ t.samples = s.samples
      /\ r.op \notin Dml \cup TransactionControl => t.unsupported = s.unsupported + 1
      /\ t.failures = 0 => s.failures = 0 /\ ~ r.failed /\ (r.op \in Dml => ~ r.ru.failed)
      /\ t.unsupported = 0 => s.unsupported = 0
      /\ t \in Scoped
  BY <1>1, AddedScope
<1>3. s.samples \in Nat /\ s.statements \in Nat /\ s.unsupported \in Nat
  BY <1>1 DEF Scoped
<1> HIDE DEF t
<1>4. t.samples <= t.statements
  BY <1>1, <1>2, <1>3
<1>5. t.samples = t.statements => s.samples = s.statements /\ (r.op \in Dml => r.ru.known)
  BY <1>1, <1>2, <1>3
<1>6. t.unsupported = 0 => r.op \in Dml \cup TransactionControl
  BY <1>2, <1>3
<1>7. t.statements > 0 => s.statements > 0 \/ r.op \in Dml
  BY <1>2, <1>3
<1>8. t.samples = t.statements => \A i \in mine \cup {k} : rs[i].op \in Dml => rs[i].ru.known
  BY <1>1, <1>5
<1>9. t.failures = 0 => \A i \in mine \cup {k} : ~ rs[i].failed /\ (rs[i].op \in Dml => ~ rs[i].ru.failed)
  BY <1>1, <1>2
<1>10. t.unsupported = 0 => \A i \in mine \cup {k} : rs[i].op \in Dml \cup TransactionControl
  BY <1>1, <1>2, <1>6
<1>11. t.statements > 0 => \E i \in mine \cup {k} : rs[i].op \in Dml
  BY <1>1, <1>7
<1> QED
  BY <1>2, <1>4, <1>8, <1>9, <1>10, <1>11 DEF Covers, t

LEMMA ScopesStep ==
    ASSUME NEW rs, NEW k \in Nat \ {0}, MeasureType(rs[k]), NEW old, ScopesCover(old, rs, k - 1),
           NEW new, new = With(old, rs[k].scope, AddToScope(At(old, rs[k].scope, NoScope), rs[k]))
    PROVE  ScopesCover(new, rs, k)
<1>0. IsFiniteSet(DOMAIN new)
  <2>1. DOMAIN new = DOMAIN old \cup {rs[k].scope} /\ IsFiniteSet(DOMAIN old)
    BY DEF With, ScopesCover
  <2> QED
    BY <2>1, FS_AddElement
<1> SUFFICES ASSUME NEW scope
             PROVE  /\ scope \in DOMAIN new <=> ScopeUpTo(rs, k, scope) # {}
                    /\ Covers(At(new, scope, NoScope), rs, ScopeUpTo(rs, k, scope))
  BY <1>0 DEF ScopesCover
<1> DEFINE mine == ScopeUpTo(rs, k - 1, scope)
           s == At(old, scope, NoScope)
<1>1. (scope \in DOMAIN old <=> mine # {}) /\ Covers(s, rs, mine)
  BY DEF ScopesCover
<1>2. CASE rs[k].scope # scope
  <2>1. ScopeUpTo(rs, k, scope) = mine
    BY <1>2, ScopeNext
  <2>2. (scope \in DOMAIN new <=> scope \in DOMAIN old) /\ At(new, scope, NoScope) = s
    BY <1>2 DEF With, At
  <2> HIDE DEF mine, s
  <2> QED
    BY <1>1, <2>1, <2>2
<1>3. CASE rs[k].scope = scope
  <2>1. ScopeUpTo(rs, k, scope) = mine \cup {k}
    BY <1>3, ScopeNext
  <2>2. Covers(AddToScope(s, rs[k]), rs, mine \cup {k})
    BY <1>1, AddCovers
  <2>3. scope \in DOMAIN new /\ At(new, scope, NoScope) = AddToScope(s, rs[k])
    BY <1>3 DEF With, At
  <2> HIDE DEF mine, s
  <2> QED
    BY <2>1, <2>2, <2>3
<1> QED
  BY <1>2, <1>3

LEMMA AnalysisCovers ==
    ASSUME NEW n \in Nat, NEW rs, WellFormed(rs, n), NEW schema, NEW G, Reads(G, rs, n, schema)
    PROVE  ScopesCover(G[n].scopes, rs, n)
<1> DEFINE S == {k \in 0 .. n : ScopesCover(G[k].scopes, rs, k)}
<1>1. 0 \in S
  <2>1. G[0].scopes = <<>> /\ DOMAIN G[0].scopes = {}
    BY DEF Reads, EmptyAnalysis
  <2>2. \A scope : ScopeUpTo(rs, 0, scope) = {}
    BY DEF ScopeUpTo
  <2>3. \A scope : At(G[0].scopes, scope, NoScope) = NoScope
    BY <2>1 DEF At
  <2>4. ScopesCover(G[0].scopes, rs, 0)
    BY <2>1, <2>2, <2>3, NothingCovers, FS_EmptySet DEF ScopesCover
  <2> QED
    BY <2>4
<1>2. ASSUME NEW j \in 0 .. n - 1, j \in S
      PROVE  j + 1 \in S
  <2>1. j + 1 \in 1 .. n /\ j + 1 \in 0 .. n /\ (j + 1) - 1 = j /\ j + 1 \in Nat \ {0}
    OBVIOUS
  <2>2. Changed(G[(j + 1) - 1], G[j + 1], rs[j + 1], schema)
    BY <2>1, ReadsChange
  <2>3. G[j + 1].scopes = With(G[j].scopes, rs[j + 1].scope,
                               AddToScope(At(G[j].scopes, rs[j + 1].scope, NoScope), rs[j + 1]))
    BY <2>1, <2>2 DEF Changed
  <2>4. ScopesCover(G[j].scopes, rs, (j + 1) - 1)
    BY <1>2, <2>1
  <2>5. MeasureType(rs[j + 1])
    BY <2>1, ReadableMeasures
  <2>6. ScopesCover(G[j + 1].scopes, rs, j + 1)
    BY <2>1, <2>3, <2>4, <2>5, ScopesStep
  <2> QED
    BY <2>1, <2>6
<1> HIDE DEF S
<1>3. \A k \in 0 .. n : k \in S
  BY <1>1, <1>2, UpTo
<1> QED
  BY <1>3 DEF S

---------------------------------------------------------------------------
(* What the analysis says beside the counters.                               *)

\* The codes of what is found record by record.
LEMMA AnalysisFound ==
    ASSUME NEW n \in Nat, NEW rs, WellFormed(rs, n), NEW schema, NEW G, Reads(G, rs, n, schema)
    PROVE  \A f \in G[n].found :
              f[1] \notin {"RUN002", "RUN004", "RUN005", "RU001", "RU002", "RU003", "RU004"}
<1> DEFINE Other == {"RUN002", "RUN004", "RUN005", "RU001", "RU002", "RU003", "RU004"}
           S == {k \in 0 .. n : \A f \in G[k].found : f[1] \notin Other}
<1>1. 0 \in S
  BY DEF Reads, EmptyAnalysis
<1>2. ASSUME NEW j \in 0 .. n - 1, j \in S
      PROVE  j + 1 \in S
  <2> DEFINE r == rs[j + 1]
  <2>1. j + 1 \in 1 .. n /\ j + 1 \in 0 .. n /\ (j + 1) - 1 = j
    OBVIOUS
  <2>2. Changed(G[(j + 1) - 1], G[j + 1], r, schema)
    BY <2>1, ReadsChange
  <2>3. G[j + 1].found = G[j].found \cup RecordFindings(r, schema)
    BY <2>1, <2>2 DEF Changed
  <2>4. AnalysisCodes \cap (r.warned \cup r.pattern \cup {r.index}) = {}
    BY <2>1 DEF WellFormed, RecordTypes
  <2> HIDE DEF r
  <2>5. ASSUME NEW f \in RecordFindings(r, schema)
        PROVE  f[1] \notin Other
    <3>1. PICK code \in r.warned \cup r.pattern
                        \cup (IF r.metadata THEN {} ELSE {"RUN001"})
                        \cup (IF r.ru.failed THEN {"RUN003"} ELSE {})
                        \cup (IF schema /\ r.index # "" THEN {r.index} ELSE {}) : f = <<code, r.fp>>
      BY <2>5, Zenon DEF RecordFindings
    <3>2. code \in r.warned \cup r.pattern \cup {r.index} \/ code \in {"RUN001", "RUN003"}
      BY <3>1
    <3>3. code \notin Other
      BY <2>4, <3>2 DEF AnalysisCodes
    <3> QED
      BY <3>1, <3>3
  <2> QED
    BY <1>2, <2>1, <2>3, <2>5
<1> HIDE DEF S
<1>3. \A k \in 0 .. n : k \in S
  BY <1>1, <1>2, UpTo
<1> QED
  BY <1>3 DEF S

\* The counters do not depend on the check of the indexes.
SameCounters(a, b) == a.counts = b.counts /\ a.ru = b.ru /\ a.scopes = b.scopes

LEMMA CountersKeep ==
    ASSUME NEW a, NEW b, SameCounters(a, b), NEW c, NEW d, NEW r, NEW x, NEW y,
           Changed(a, c, r, x), Changed(b, d, r, y)
    PROVE  SameCounters(c, d)
  BY Zenon DEF SameCounters, Changed

LEMMA SchemaLeavesCounters ==
    ASSUME NEW n \in Nat, NEW rs, NEW x, NEW y, NEW G, NEW H, Reads(G, rs, n, x), Reads(H, rs, n, y)
    PROVE  SameCounters(G[n], H[n])
<1> DEFINE S == {k \in 0 .. n : SameCounters(G[k], H[k])}
<1>1. 0 \in S
  BY DEF Reads, SameCounters
<1>2. ASSUME NEW j \in 0 .. n - 1, j \in S
      PROVE  j + 1 \in S
  <2>1. j + 1 \in 1 .. n /\ j + 1 \in 0 .. n /\ (j + 1) - 1 = j
    OBVIOUS
  <2>2. Changed(G[(j + 1) - 1], G[j + 1], rs[j + 1], x) /\ Changed(H[(j + 1) - 1], H[j + 1], rs[j + 1], y)
    BY <2>1, ReadsChange
  <2>3. SameCounters(G[j], H[j])
    BY <1>2
  <2>4. SameCounters(G[j + 1], H[j + 1])
    BY <2>1, <2>2, <2>3, CountersKeep
  <2> QED
    BY <2>1, <2>4
<1> HIDE DEF S
<1>3. \A k \in 0 .. n : k \in S
  BY <1>1, <1>2, UpTo
<1> QED
  BY <1>3 DEF S

---------------------------------------------------------------------------
(* The numbers of a metric.                                                  *)

SumOver(values) == MapThenSumSet(LAMBDA s : values[s], DOMAIN values)

LEMMA SumOverIsNumber ==
    ASSUME NEW values, IsFiniteSet(DOMAIN values), Numbers(values, DOMAIN values)
    PROVE  /\ SumOver(values) \in Nat
           /\ \A s \in DOMAIN values : values[s] <= SumOver(values)
<1> DEFINE T == DOMAIN values
           Step(h) == [s \in SUBSET T |-> IF s = {} THEN 0 ELSE values[Pick(s)] + h[s \ {Pick(s)}]]
           Sums(h) == h = Step(h)
           h == CHOOSE it : Sums(it)
<1>1. SumOver(values) = h[T]
  BY Zenon DEF SumOver, MapThenSumSet, MapThenFoldSet, Pick
<1>2. PICK g \in [SUBSET T -> Nat] : Adds(g, values, T)
  BY SumExists
<1>3. Sums(g)
  <2>1. ASSUME NEW s \in SUBSET T
        PROVE  g[s] = IF s = {} THEN 0 ELSE values[Pick(s)] + g[s \ {Pick(s)}]
    <3>1. g[s] = IF s = {} THEN 0 ELSE g[s \ {Pick(s)}] + values[Pick(s)]
      BY <1>2 DEF Adds
    <3>2. s \ {Pick(s)} \in SUBSET T /\ g[s \ {Pick(s)}] \in Nat
      BY <1>2
    <3>3. s # {} => values[Pick(s)] \in Nat
      BY Picked DEF Numbers
    <3> QED
      BY <3>1, <3>2, <3>3
  <2>2. DOMAIN g = SUBSET T /\ g = [s \in SUBSET T |-> g[s]]
    BY <1>2
  <2> QED
    BY <2>1, <2>2
<1>4. Sums(h)
  <2> HIDE DEF Sums
  <2> QED
    BY <1>3
<1>5. AddsBefore(h, values, T)
  <2> HIDE DEF h
  <2> QED
    BY <1>4 DEF AddsBefore
<1>6. Adds(h, values, T)
  <2> HIDE DEF h, T
  <2> QED
    BY <1>5, SumsEitherWay DEF T
<1>7. \A s \in SUBSET T : g[s] = h[s]
  <2>1. \A x \in T : values[x] = values[x]
    OBVIOUS
  <2>2. T \in SUBSET T
    OBVIOUS
  <2> HIDE DEF h, T
  <2> QED
    BY <1>2, <1>6, <2>1, <2>2, SumsAgree DEF T
<1>8. \A s \in SUBSET T : TakesOff(g, values, s)
  BY <1>2, SumTakesOff
<1> HIDE DEF h
<1>9. SumOver(values) = g[T] /\ g[T] \in Nat
  BY <1>1, <1>2, <1>7
<1>10. ASSUME NEW s \in T
       PROVE  values[s] <= g[T]
  <2>1. g[T] = g[T \ {s}] + values[s]
    BY <1>8 DEF TakesOff
  <2>2. g[T \ {s}] \in Nat /\ values[s] \in Nat
    BY <1>2 DEF Numbers
  <2> QED
    BY <1>9, <2>1, <2>2
<1> QED
  BY <1>9, <1>10

\* The greatest of some numbers with a bound.
LEMMA MaxOfNumbers ==
    ASSUME NEW n \in Nat, NEW s \in SUBSET (0 .. n), s # {}
    PROVE  Max(s) \in s /\ \A y \in s : y <= Max(s)
<1> DEFINE T == {k \in 0 .. n : \A y \in s : y <= k}
<1>1. n \in T
  OBVIOUS
<1>2. PICK x \in T : \A y \in T : x <= y
  <2>1. T \in SUBSET Nat /\ T # {}
    BY <1>1
  <2> HIDE DEF T
  <2> QED
    BY <2>1, LeastNumber
<1>3. x \in 0 .. n /\ \A y \in s : y <= x
  BY <1>2
<1>4. x \in s
  <2>1. SUFFICES ASSUME x \notin s
                 PROVE  FALSE
    OBVIOUS
  <2>2. \A y \in s : y <= x - 1
    BY <1>3, <2>1
  <2>3. PICK y \in s : TRUE
    OBVIOUS
  <2>4. y \in 0 .. n /\ y <= x - 1
    BY <2>2
  <2>5. x - 1 \in 0 .. n
    BY <1>3, <2>4
  <2>6. x <= x - 1
    BY <1>2, <2>2, <2>5
  <2> QED
    BY <1>3, <2>6
<1>5. \E z \in s : \A y \in s : z >= y
  BY <1>3, <1>4
<1>6. Max(s) \in s /\ \A y \in s : Max(s) >= y
  BY <1>5 DEF Max
<1> QED
  BY <1>6

LEMMA MetricTypes ==
    ASSUME NEW values, IsFiniteSet(DOMAIN values), Numbers(values, DOMAIN values)
    PROVE  EntryTypes(Metric(values))
<1> DEFINE m == Metric(values)
<1>1. CASE DOMAIN values = {}
  <2>1. m = [samples |-> 0, total |-> 0, min |-> 0, max |-> 0]
    BY <1>1 DEF Metric
  <2> HIDE DEF m
  <2>2. EntryTypes(m)
    BY <2>1 DEF EntryTypes
  <2> QED
    BY <2>2 DEF m
<1>2. CASE DOMAIN values # {}
  <2> DEFINE S == {values[s] : s \in DOMAIN values}
  <2>1. m.samples = Cardinality(DOMAIN values) /\ m.total = SumOver(values) /\ m.max = Max(S)
    <3>1. m = [samples |-> Cardinality(DOMAIN values), total |-> SumOver(values), min |-> Min(S), max |-> Max(S)]
      BY <1>2, Zenon DEF Metric, SumOver
    <3> HIDE DEF m, S
    <3> QED
      BY <3>1
  <2>2. SumOver(values) \in Nat /\ \A s \in DOMAIN values : values[s] <= SumOver(values) /\ values[s] \in Nat
    BY SumOverIsNumber DEF Numbers
  <2>3. S \in SUBSET (0 .. SumOver(values)) /\ S # {}
    BY <1>2, <2>2
  <2> HIDE DEF S, m
  <2>4. Max(S) \in S
    BY <2>2, <2>3, MaxOfNumbers
  <2>5. Max(S) \in Int
    <3>1. Max(S) \in 0 .. SumOver(values)
      BY <2>3, <2>4, Zenon
    <3>2. \A top \in Nat : 0 .. top \subseteq Int
      OBVIOUS
    <3> QED
      BY <2>2, <3>1, <3>2
  <2>6. Cardinality(DOMAIN values) \in Int
    BY FS_CardinalityType
  <2>7. EntryTypes(m)
    BY <2>1, <2>2, <2>5, <2>6 DEF EntryTypes
  <2> QED
    BY <2>7 DEF m
<1> QED
  BY <1>1, <1>2

---------------------------------------------------------------------------
(* The whole analysis of a readable file.                                    *)

RegressionCodes == {"RU001", "RU002", "RU003", "RU004"}
RepeatCodes == {"RUN002", "RUN004", "RUN005"}

FoundCodes(found) == \A f \in found : f[1] \notin RepeatCodes \cup RegressionCodes

\* What the analysis a tells of the n records rs.
Gathered(a, rs, n) ==
    /\ CountsOwn(a.counts, rs, n) /\ CountsRepeats(a.repeats, rs, n)
    /\ RuAccounts(a.ru, rs, n) /\ ScopesCover(a.scopes, rs, n)
    /\ FoundCodes(a.found)

LEMMA AnalysisGathers ==
    ASSUME NEW n \in Nat, NEW rs, DOMAIN rs = 1 .. n, WellFormed(rs, n), NEW schema
    PROVE  Gathered(Analysis(rs, schema), rs, n)
<1>1. PICK G : Reads(G, rs, n, schema) /\ Analysis(rs, schema) = G[n]
  BY AnalysisSteps
<1>2. CountsOwn(G[n].counts, rs, n) /\ CountsRepeats(G[n].repeats, rs, n)
  BY <1>1, AnalysisCounts
<1>3. RuAccounts(G[n].ru, rs, n)
  BY <1>1, AnalysisAccounts
<1>4. ScopesCover(G[n].scopes, rs, n)
  BY <1>1, AnalysisCovers
<1>5. FoundCodes(G[n].found)
  <2>1. \A f \in G[n].found :
              f[1] \notin {"RUN002", "RUN004", "RUN005", "RU001", "RU002", "RU003", "RU004"}
    BY <1>1, AnalysisFound
  <2> QED
    BY <2>1 DEF FoundCodes, RepeatCodes, RegressionCodes
<1>6. Gathered(G[n], rs, n)
  BY <1>2, <1>3, <1>4, <1>5 DEF Gathered
<1> QED
  BY <1>1, <1>6

LEMMA SchemaIsLeftOut ==
    ASSUME NEW n \in Nat, NEW rs, DOMAIN rs = 1 .. n, NEW x, NEW y
    PROVE  SameCounters(Analysis(rs, x), Analysis(rs, y))
<1>1. PICK G : Reads(G, rs, n, x) /\ Analysis(rs, x) = G[n]
  BY AnalysisSteps
<1>2. PICK H : Reads(H, rs, n, y) /\ Analysis(rs, y) = H[n]
  BY AnalysisSteps
<1>3. SameCounters(G[n], H[n])
  BY <1>1, <1>2, SchemaLeavesCounters
<1> QED
  BY <1>1, <1>2, <1>3

---------------------------------------------------------------------------
(* Repetitions.                                                              *)

LEMMA RepeatCodeTypes == ASSUME NEW r PROVE RepeatCode(r) \in RepeatCodes \cup {""}
  BY DEF RepeatCode, RepeatCodes

\* The same statement of the same scope.
SameRepeat(r, s) ==
    /\ RepeatCode(r) = RepeatCode(s)
    /\ \A field \in {"scope", "op", "fp", "terminal"} : r[field] = s[field]

LEMMA RepeatKeys ==
    ASSUME NEW r, NEW s
    PROVE  <<RepeatCode(r), RepeatKey(r)>> = <<RepeatCode(s), RepeatKey(s)>> <=> SameRepeat(r, s)
<1>1. RepeatKey(r) = RepeatKey(s) <=> \A field \in {"scope", "op", "fp", "terminal"} : r[field] = s[field]
  BY DEF RepeatKey, ScopeKey
<1> QED
  BY <1>1 DEF SameRepeat

LEMMA RepeatsAreFinite ==
    ASSUME NEW rs, NEW n \in Nat, NEW key
    PROVE  RepeatsUpTo(rs, n, key) \in SUBSET (1 .. n) /\ IsFiniteSet(RepeatsUpTo(rs, n, key))
<1>1. IsFiniteSet(1 .. n)
  BY FS_Interval
<1>2. RepeatsUpTo(rs, n, key) \in SUBSET (1 .. n)
  BY DEF RepeatsUpTo
<1> QED
  BY <1>1, <1>2, FS_Subset

LEMMA MoreThanOne == ASSUME NEW c \in Nat, c # 0 PROVE c > 1 <=> c # 1
  OBVIOUS

LEMMA RepeatsOfTwo ==
    ASSUME NEW n \in Nat, NEW rs, NEW a, Gathered(a, rs, n),
           NEW extra, \A f \in extra : f[1] \in RegressionCodes,
           NEW i \in 1 .. n, RepeatCode(rs[i]) # ""
    PROVE  <<RepeatCode(rs[i]), RepeatKey(rs[i])>> \in Findings(a) \cup extra
              <=> \E j \in 1 .. n \ {i} : SameRepeat(rs[j], rs[i])
<1> DEFINE key == <<RepeatCode(rs[i]), RepeatKey(rs[i])>>
           T == RepeatsUpTo(rs, n, key)
<1>1. key[1] \in RepeatCodes /\ key \notin a.found /\ key \notin extra
  <2>1. key[1] = RepeatCode(rs[i])
    OBVIOUS
  <2>2. key[1] \in RepeatCodes
    BY <2>1, RepeatCodeTypes
  <2>3. \A f \in a.found : f[1] \notin RepeatCodes \cup RegressionCodes
    BY DEF Gathered, FoundCodes
  <2>4. \A code \in RepeatCodes : code \notin RegressionCodes
    BY DEF RepeatCodes, RegressionCodes
  <2> HIDE DEF key
  <2> QED
    BY <2>2, <2>3, <2>4
<1>2. i \in T
  BY DEF RepeatsUpTo
<1>3. \A j \in 1 .. n : j \in T <=> SameRepeat(rs[j], rs[i])
  <2> SUFFICES ASSUME NEW j \in 1 .. n
               PROVE  j \in T <=> SameRepeat(rs[j], rs[i])
    OBVIOUS
  <2>1. <<RepeatCode(rs[j]), RepeatKey(rs[j])>> = key <=> SameRepeat(rs[j], rs[i])
    BY RepeatKeys
  <2>2. SameRepeat(rs[j], rs[i]) => RepeatCode(rs[j]) # ""
    BY DEF SameRepeat
  <2>3. j \in T <=> RepeatCode(rs[j]) # "" /\ <<RepeatCode(rs[j]), RepeatKey(rs[j])>> = key
    BY DEF RepeatsUpTo
  <2> QED
    BY <2>1, <2>2, <2>3
<1>4. T \in SUBSET (1 .. n) /\ IsFiniteSet(T)
  BY RepeatsAreFinite
<1>5. key \in DOMAIN a.repeats /\ a.repeats[key] = Cardinality(T)
  BY <1>2 DEF Gathered, CountsRepeats
<1>6. Cardinality(T) > 1 <=> T # {i}
  <2>1. Cardinality(T) \in Nat /\ Cardinality(T) # 0
    BY <1>2, <1>4, FS_CardinalityType, FS_EmptySet
  <2>2. Cardinality(T) = 1 <=> \E x : T = {x}
    BY <1>4, FS_Singleton
  <2>3. (\E x : T = {x}) <=> T = {i}
    BY <1>2
  <2> HIDE DEF T
  <2>5. Cardinality(T) > 1 <=> Cardinality(T) # 1
    BY <2>1, MoreThanOne
  <2> QED
    BY <2>2, <2>3, <2>5, Zenon
<1>7. T # {i} <=> \E j \in 1 .. n \ {i} : j \in T
  BY <1>2, <1>4
<1>8. key \in Findings(a) \cup extra <=> a.repeats[key] > 1
  BY <1>1, <1>5 DEF Findings, BagToSet
<1> HIDE DEF key, T
<1> QED
  BY <1>3, <1>5, <1>6, <1>7, <1>8 DEF key

---------------------------------------------------------------------------
(* The comparison with a baseline.                                           *)

LEMMA ComparisonCodes ==
    ASSUME NEW a, NEW b, NEW f \in ComparisonFindings(a, b)
    PROVE  f[1] \in RegressionCodes
<1> DEFINE statuses == {FingerprintStatus(fp, a.entries, b.entries) : fp \in DOMAIN a.entries \cup DOMAIN b.entries}
           whole    == WorkloadStatus(a.workload, b.workload)
<1>1. PICK code : /\ f = <<code, "">>
                  /\ code \in (IF "regression" \in statuses THEN {"RU001"} ELSE {})
                              \cup (IF statuses \subseteq {"pass", "regression"} THEN {} ELSE {"RU002"})
                              \cup (CASE whole = "pass" -> {} [] whole = "regression" -> {"RU003"}
                                      [] whole = "unavailable" -> {"RU004"})
  BY Zenon DEF ComparisonFindings
<1>2. whole \in {"pass", "regression", "unavailable"}
  BY DEF WorkloadStatus
<1> HIDE DEF statuses, whole
<1>3. code \in RegressionCodes
  BY <1>1, <1>2 DEF RegressionCodes
<1> QED
  BY <1>1, <1>3

\* No finding of the comparison: everything passes.
Passes(a, b) ==
    /\ \A fp \in DOMAIN a.entries \cup DOMAIN b.entries : FingerprintStatus(fp, a.entries, b.entries) = "pass"
    /\ WorkloadStatus(a.workload, b.workload) = "pass"

LEMMA NoFindingPasses ==
    ASSUME NEW a, NEW b
    PROVE  ComparisonFindings(a, b) = {} <=> Passes(a, b)
<1> DEFINE statuses == {FingerprintStatus(fp, a.entries, b.entries) : fp \in DOMAIN a.entries \cup DOMAIN b.entries}
           whole    == WorkloadStatus(a.workload, b.workload)
           codes    == (IF "regression" \in statuses THEN {"RU001"} ELSE {})
                       \cup (IF statuses \subseteq {"pass", "regression"} THEN {} ELSE {"RU002"})
                       \cup (CASE whole = "pass" -> {} [] whole = "regression" -> {"RU003"}
                               [] whole = "unavailable" -> {"RU004"})
<1>1. ComparisonFindings(a, b) = {<<code, "">> : code \in codes}
  BY Zenon DEF ComparisonFindings
<1>2. whole \in {"pass", "regression", "unavailable"}
  BY DEF WorkloadStatus
<1>3. Passes(a, b) <=> (\A status \in statuses : status = "pass") /\ whole = "pass"
  BY Zenon DEF Passes
<1> HIDE DEF statuses, whole
<1>4. codes = {} <=> (\A status \in statuses : status = "pass") /\ whole = "pass"
  BY <1>2
<1> HIDE DEF codes
<1> QED
  BY <1>1, <1>3, <1>4

\* What passing says of a fingerprint, and of the workload.
LEMMA PassingFingerprint ==
    ASSUME NEW fp, NEW current, NEW base, FingerprintStatus(fp, current, base) = "pass"
    PROVE  /\ fp \in DOMAIN base /\ fp \in DOMAIN current
           /\ current[fp].errors = 0 /\ current[fp].samples = current[fp].count
           /\ ~ (current[fp].samples < MinimumSamples)
           /\ ~ Exceeds(current[fp], base[fp])
  BY DEF FingerprintStatus

LEMMA FingerprintPasses ==
    ASSUME NEW fp, NEW current, NEW base, fp \in DOMAIN base, fp \in DOMAIN current,
           current[fp].errors = 0, current[fp].samples = current[fp].count,
           ~ (current[fp].samples < MinimumSamples), ~ Exceeds(current[fp], base[fp])
    PROVE  FingerprintStatus(fp, current, base) = "pass"
  BY DEF FingerprintStatus

LEMMA PassingWorkload ==
    ASSUME NEW current, NEW base, WorkloadStatus(current, base) = "pass", current.name # ""
    PROVE  current.name = base.name /\ current.covered
  BY DEF WorkloadStatus

---------------------------------------------------------------------------
(* What tidbgo analyze answers, from the records and the baseline.           *)

TheReport(records, base, request) ==
    LET a     == Analyzed(records, request)
        found == a.findings \cup (IF request.baseline THEN ComparisonFindings(a, base) ELSE {})
    IN  IF request.baseline /\ ~ValidBaseline(base) THEN Refusal("baseline", request)
        ELSE IF ~ReadableFile(records) THEN Refusal("input", request)
        ELSE IF request.baseline /\ ~Comparable(a) THEN Refusal("comparison", request)
        ELSE IF ~Acceptable(request.suppress, found) THEN Refusal("suppress", request)
        ELSE [of |-> "analyze", err |-> "none", request |-> request, found |-> found,
              ok |-> \A f \in found : f[1] \notin ErrorCodes]

LEMMA ReportFollows == ASSUME NEW request PROVE AnalyzeReport(request) = TheReport(log, baseline, request)
  BY Zenon DEF AnalyzeReport, TheReport

\* An answer that is not a refusal.
Answers(a, answer, base, request) ==
    LET found == a.findings \cup (IF request.baseline THEN ComparisonFindings(a, base) ELSE {}) IN
    /\ request.baseline => ValidBaseline(base)
    /\ answer.request = request /\ answer.found = found
    /\ answer.ok = (\A f \in found : f[1] \notin ErrorCodes)

LEMMA AnswerSays ==
    ASSUME NEW records, NEW base, NEW request, NEW answer, answer = TheReport(records, base, request),
           answer.err = "none"
    PROVE  ReadableFile(records) /\ Answers(Analyzed(records, request), answer, base, request)
<1> DEFINE a     == Analyzed(records, request)
           found == a.findings \cup (IF request.baseline THEN ComparisonFindings(a, base) ELSE {})
           ok == \A f \in found : f[1] \notin ErrorCodes
<1>1. \A err : Refusal(err, request).err = err
  BY DEF Refusal, NoReport
<1>2. answer = IF request.baseline /\ ~ValidBaseline(base) THEN Refusal("baseline", request)
               ELSE IF ~ReadableFile(records) THEN Refusal("input", request)
               ELSE IF request.baseline /\ ~Comparable(a) THEN Refusal("comparison", request)
               ELSE IF ~Acceptable(request.suppress, found) THEN Refusal("suppress", request)
               ELSE [of |-> "analyze", err |-> "none", request |-> request, found |-> found, ok |-> ok]
  BY Zenon DEF TheReport
<1>3. Answers(a, answer, base, request) <=>
        /\ request.baseline => ValidBaseline(base)
        /\ answer.request = request /\ answer.found = found /\ answer.ok = ok
  BY Zenon DEF Answers
<1> HIDE DEF a, found, ok
<1>4. /\ ~ (request.baseline /\ ~ValidBaseline(base)) /\ ReadableFile(records)
      /\ answer = [of |-> "analyze", err |-> "none", request |-> request, found |-> found, ok |-> ok]
  BY <1>1, <1>2
<1>5. answer.request = request /\ answer.found = found /\ answer.ok = ok
  BY <1>4
<1> QED
  BY <1>3, <1>4, <1>5, Zenon DEF a

BaselineTypes(base) == \A fp \in DOMAIN base.entries : EntryTypes(base.entries[fp])

\* The entry of a fingerprint, from the records of its own.
LEMMA EntryOfRecords ==
    ASSUME NEW n \in Nat, NEW rs, NEW a, Gathered(a, rs, n), NEW fp, fp \in DOMAIN Entries(a)
    PROVE  LET e   == Entries(a)[fp]
               own == OwnUpTo(rs, n, fp) IN
           /\ e.count = Cardinality(own) /\ Cardinality(own) \in Nat
           /\ e.samples \in Nat /\ e.errors \in Nat /\ e.total \in Nat /\ e.max \in Int
           /\ e.samples = Cardinality(own) => \A i \in own : rs[i].ru.known
           /\ e.errors = 0 => \A i \in own : ~ rs[i].ru.failed
           /\ e.total = Values(rs, own)
<1> DEFINE e   == Entries(a)[fp]
           own == OwnUpTo(rs, n, fp)
           u   == a.ru[fp]
<1>1. fp \in DOMAIN a.ru
  BY DEF Entries
<1>2. e = [count |-> a.counts[fp], samples |-> u.samples, errors |-> u.errors,
           total |-> u.total, min |-> u.min, max |-> u.max]
  BY <1>1 DEF Entries
<1>3. (\E i \in own : rs[i].ru # NoRU) /\ Accounts(u, rs, own)
  <2>1. /\ fp \in DOMAIN a.ru <=> \E i \in OwnUpTo(rs, n, fp) : rs[i].ru # NoRU
        /\ Accounts(At(a.ru, fp, NoSamples), rs, OwnUpTo(rs, n, fp))
    BY DEF Gathered, RuAccounts
  <2>2. At(a.ru, fp, NoSamples) = u
    BY <1>1 DEF At
  <2> HIDE DEF u
  <2> QED
    BY <1>1, <2>1, <2>2
<1>4. a.counts[fp] = Cardinality(own)
  BY <1>3 DEF Gathered, CountsOwn
<1>5. Cardinality(own) \in Nat
  BY OwnIsFinite
<1> HIDE DEF e, own, u
<1>6. /\ u \in Accumulated
      /\ u.samples = Cardinality(own) => \A i \in own : rs[i].ru.known
      /\ u.errors = 0 => \A i \in own : ~ rs[i].ru.failed
      /\ u.total = Values(rs, own)
  BY <1>3 DEF Accounts
<1>7. u.samples \in Nat /\ u.errors \in Nat /\ u.total \in Nat /\ u.max \in Int
  BY <1>6 DEF Accumulated
<1>8. e.count = a.counts[fp] /\ e.samples = u.samples /\ e.errors = u.errors /\ e.total = u.total /\ e.max = u.max
  BY <1>2
<1>9. /\ e.count = Cardinality(own) /\ Cardinality(own) \in Nat
      /\ e.samples \in Nat /\ e.errors \in Nat /\ e.total \in Nat /\ e.max \in Int
      /\ e.samples = Cardinality(own) => \A i \in own : rs[i].ru.known
      /\ e.errors = 0 => \A i \in own : ~ rs[i].ru.failed
      /\ e.total = Values(rs, own)
  BY <1>4, <1>5, <1>6, <1>7, <1>8
<1> QED
  BY <1>9 DEF e, own

\* A regression needs both: one of the limits is kept.
LEMMA WithinALimit ==
    ASSUME NEW current, NEW base, ~ Exceeds(current, base), NEW t, NEW c, current.total = t, current.samples = c,
           t \in Nat, c \in Nat, EntryTypes(base)
    PROVE  10 * t * base.samples <= 13 * base.total * c \/ t <= base.max * c
<1>1. \A s, b, m \in Int :
         ~ (10 * t * s > 13 * b * c /\ t > m * c) => 10 * t * s <= 13 * b * c \/ t <= m * c
  OBVIOUS
<1> QED
  BY <1>1 DEF Exceeds, EntryTypes

LEMMA MeasuredFingerprint ==
    ASSUME NEW n \in Nat, NEW rs, NEW a, Gathered(a, rs, n), NEW base, BaselineTypes(base), NEW fp,
           FingerprintStatus(fp, Entries(a), base.entries) = "pass"
    PROVE  LET own == OwnUpTo(rs, n, fp) IN
           /\ Cardinality(own) >= MinimumSamples
           /\ \A i \in own : MeasuredCleanly(rs[i])
           /\ \/ 10 * Values(rs, own) * base.entries[fp].samples <= 13 * base.entries[fp].total * Cardinality(own)
              \/ Values(rs, own) <= base.entries[fp].max * Cardinality(own)
<1> DEFINE e   == Entries(a)[fp]
           own == OwnUpTo(rs, n, fp)
           b   == base.entries[fp]
<1>1. /\ fp \in DOMAIN base.entries /\ fp \in DOMAIN Entries(a)
      /\ e.errors = 0 /\ e.samples = e.count /\ ~ (e.samples < MinimumSamples) /\ ~ Exceeds(e, b)
  BY PassingFingerprint
<1>2. /\ e.count = Cardinality(own) /\ Cardinality(own) \in Nat
      /\ e.samples \in Nat /\ e.errors \in Nat /\ e.total \in Nat /\ e.max \in Int
      /\ e.samples = Cardinality(own) => \A i \in own : rs[i].ru.known
      /\ e.errors = 0 => \A i \in own : ~ rs[i].ru.failed
      /\ e.total = Values(rs, own)
  BY <1>1, EntryOfRecords
<1>3. EntryTypes(b)
  BY <1>1 DEF BaselineTypes
<1> HIDE DEF e, own, b
<1>4. Cardinality(own) >= MinimumSamples
  BY <1>1, <1>2, CapturesAssumption
<1>5. \A i \in own : MeasuredCleanly(rs[i])
  BY <1>1, <1>2 DEF MeasuredCleanly
<1>6. \/ 10 * Values(rs, own) * b.samples <= 13 * b.total * Cardinality(own)
      \/ Values(rs, own) <= b.max * Cardinality(own)
  <2>1. e.total = Values(rs, own) /\ e.samples = Cardinality(own) /\ Values(rs, own) \in Nat /\ Cardinality(own) \in Nat
    BY <1>1, <1>2
  <2> QED
    BY <1>1, <1>3, <2>1, WithinALimit
<1> QED
  BY <1>4, <1>5, <1>6 DEF own, b

\* Success against a baseline, and what was measured.
LEMMA MeasuredSuccess ==
    ASSUME NEW n \in Nat, NEW rs, NEW request, NEW a, a = Analysis(rs, request.schema), Gathered(a, rs, n),
           NEW base, BaselineTypes(base), ValidBaseline(base), Passes(Analyzed(rs, request), base)
    PROVE  /\ \A fp \in DOMAIN base.entries :
                 LET own == OwnUpTo(rs, n, fp) IN
                 /\ Cardinality(own) >= MinimumSamples
                 /\ base.entries[fp].samples >= MinimumSamples
                 /\ \A i \in own : MeasuredCleanly(rs[i])
                 /\ \/ 10 * Values(rs, own) * base.entries[fp].samples <= 13 * base.entries[fp].total * Cardinality(own)
                    \/ Values(rs, own) <= base.entries[fp].max * Cardinality(own)
           /\ \A i \in 1 .. n : rs[i].ru # NoRU => rs[i].fp \in DOMAIN base.entries
<1>1. \A fp \in DOMAIN Entries(a) \cup DOMAIN base.entries : FingerprintStatus(fp, Entries(a), base.entries) = "pass"
  <2>1. Analyzed(rs, request).entries = Entries(a)
    BY DEF Analyzed
  <2> QED
    BY <2>1 DEF Passes
<1>2. ASSUME NEW fp \in DOMAIN base.entries
      PROVE  LET own == OwnUpTo(rs, n, fp) IN
             /\ Cardinality(own) >= MinimumSamples
             /\ base.entries[fp].samples >= MinimumSamples
             /\ \A i \in own : MeasuredCleanly(rs[i])
             /\ \/ 10 * Values(rs, own) * base.entries[fp].samples <= 13 * base.entries[fp].total * Cardinality(own)
                \/ Values(rs, own) <= base.entries[fp].max * Cardinality(own)
  <2>1. FingerprintStatus(fp, Entries(a), base.entries) = "pass"
    BY <1>1
  <2>2. base.entries[fp].samples >= MinimumSamples
    BY DEF ValidBaseline, ValidEntry
  <2>3. LET own == OwnUpTo(rs, n, fp) IN
           /\ Cardinality(own) >= MinimumSamples
           /\ \A i \in own : MeasuredCleanly(rs[i])
           /\ \/ 10 * Values(rs, own) * base.entries[fp].samples <= 13 * base.entries[fp].total * Cardinality(own)
              \/ Values(rs, own) <= base.entries[fp].max * Cardinality(own)
    BY <2>1, MeasuredFingerprint
  <2> QED
    BY <2>2, <2>3, Zenon
<1>3. ASSUME NEW i \in 1 .. n, rs[i].ru # NoRU
      PROVE  rs[i].fp \in DOMAIN base.entries
  <2>1. i \in OwnUpTo(rs, n, rs[i].fp)
    BY DEF OwnUpTo
  <2>2. rs[i].fp \in DOMAIN Entries(a)
    BY <1>3, <2>1 DEF Gathered, RuAccounts, Entries
  <2>3. FingerprintStatus(rs[i].fp, Entries(a), base.entries) = "pass"
    BY <1>1, <2>2
  <2> QED
    BY <2>3, PassingFingerprint
<1> QED
  BY <1>2, <1>3

\* A declared workload, scope by scope.
LEMMA MeasuredWorkload ==
    ASSUME NEW n \in Nat, NEW rs, NEW request, request.workload # "",
           NEW a, a = Analysis(rs, request.schema), Gathered(a, rs, n),
           NEW base, Passes(Analyzed(rs, request), base)
    PROVE  /\ base.workload.name = request.workload
           /\ \A i \in 1 .. n :
                /\ ~ rs[i].failed
                /\ \/ rs[i].op \in Dml /\ MeasuredCleanly(rs[i])
                   \/ rs[i].op \in TransactionControl
                /\ \E j \in 1 .. n : rs[j].scope = rs[i].scope /\ rs[j].op \in Dml
<1> DEFINE w == Analyzed(rs, request).workload
<1>1. w = Workload(a, request.workload)
  BY DEF Analyzed
<1>2. w.name = request.workload /\ (w.covered => \A s \in DOMAIN a.scopes : CompleteScope(a.scopes[s]))
  <2> DEFINE ru == Metric([s \in DOMAIN a.scopes |-> a.scopes[s].ru])
             statements == Metric([s \in DOMAIN a.scopes |-> a.scopes[s].statements])
             complete == \A s \in DOMAIN a.scopes : CompleteScope(a.scopes[s])
             enough == Cardinality(DOMAIN a.scopes) >= MinimumSamples
  <2>1. w = [name |-> request.workload, ru |-> ru, statements |-> statements, covered |-> complete /\ enough]
    BY <1>1, Zenon DEF Workload
  <2> HIDE DEF w, ru, statements, complete, enough
  <2>2. w.name = request.workload /\ w.covered = (complete /\ enough)
    BY <2>1
  <2> QED
    BY <2>2 DEF complete
<1>3. WorkloadStatus(w, base.workload) = "pass"
  BY DEF Passes
<1> HIDE DEF w
<1>4. base.workload.name = request.workload /\ w.covered
  BY <1>2, <1>3, PassingWorkload
<1>5. ASSUME NEW i \in 1 .. n
      PROVE  /\ ~ rs[i].failed
             /\ \/ rs[i].op \in Dml /\ MeasuredCleanly(rs[i])
                \/ rs[i].op \in TransactionControl
             /\ \E j \in 1 .. n : rs[j].scope = rs[i].scope /\ rs[j].op \in Dml
  <2> DEFINE scope == rs[i].scope
             s == a.scopes[scope]
             mine == ScopeUpTo(rs, n, scope)
  <2>1. i \in mine /\ \A j \in mine : j \in 1 .. n /\ rs[j].scope = scope
    BY DEF ScopeUpTo
  <2>2. scope \in DOMAIN a.scopes /\ Covers(s, rs, mine)
    <3>1. /\ scope \in DOMAIN a.scopes <=> mine # {}
          /\ Covers(At(a.scopes, scope, NoScope), rs, mine)
      BY DEF Gathered, ScopesCover
    <3>2. scope \in DOMAIN a.scopes
      BY <2>1, <3>1
    <3>3. At(a.scopes, scope, NoScope) = s
      BY <3>2 DEF At
    <3> HIDE DEF s, mine
    <3> QED
      BY <3>1, <3>2, <3>3
  <2> HIDE DEF s, mine, scope
  <2>3. s.statements > 0 /\ s.samples = s.statements /\ s.failures = 0 /\ s.unsupported = 0
    BY <1>2, <1>4, <2>2 DEF CompleteScope, s
  <2>4. /\ \A j \in mine : rs[j].op \in Dml => rs[j].ru.known
        /\ \A j \in mine : ~ rs[j].failed /\ (rs[j].op \in Dml => ~ rs[j].ru.failed)
        /\ \A j \in mine : rs[j].op \in Dml \cup TransactionControl
        /\ \E j \in mine : rs[j].op \in Dml
    BY <2>2, <2>3 DEF Covers
  <2> QED
    BY <2>1, <2>4 DEF MeasuredCleanly, scope
<1> QED
  BY <1>4, <1>5

---------------------------------------------------------------------------
(* The baseline of the very capture.                                         *)

LEMMA SavedEntry ==
    ASSUME NEW a, NEW fp \in DOMAIN a.entries
    PROVE  LET saved == BaselineOf(a).entries[fp] IN
           /\ DOMAIN BaselineOf(a).entries = DOMAIN a.entries
           /\ saved.count = a.entries[fp].count /\ saved.samples = a.entries[fp].samples
           /\ saved.total = a.entries[fp].total /\ saved.max = a.entries[fp].max
<1> DEFINE e == a.entries[fp]
<1>1. BaselineOf(a).entries = [x \in DOMAIN a.entries |->
                                 [count |-> a.entries[x].count, samples |-> a.entries[x].samples,
                                  total |-> a.entries[x].total, min |-> a.entries[x].min, max |-> a.entries[x].max]]
  BY DEF BaselineOf
<1>2. BaselineOf(a).entries[fp] = [count |-> e.count, samples |-> e.samples, total |-> e.total, min |-> e.min, max |-> e.max]
  BY <1>1
<1> QED
  BY <1>1, <1>2

LEMMA SavedTypes ==
    ASSUME NEW n \in Nat, NEW rs, DOMAIN rs = 1 .. n, WellFormed(rs, n), NEW request
    PROVE  BaselineTypes(BaselineOf(Analyzed(rs, request)))
<1> DEFINE a == Analyzed(rs, request)
           b == Analysis(rs, request.schema)
<1>1. Gathered(b, rs, n)
  BY AnalysisGathers
<1>2. a.entries = Entries(b)
  BY DEF Analyzed
<1>3. DOMAIN BaselineOf(a).entries = DOMAIN a.entries
  BY DEF BaselineOf
<1> HIDE DEF a, b
<1>4. ASSUME NEW fp \in DOMAIN a.entries
      PROVE  EntryTypes(BaselineOf(a).entries[fp])
  <2>1. Entries(b)[fp].samples \in Nat /\ Entries(b)[fp].total \in Nat /\ Entries(b)[fp].max \in Int
    <3>1. fp \in DOMAIN Entries(b)
      BY <1>2
    <3> QED
      BY <1>1, <3>1, EntryOfRecords
  <2>2. LET saved == BaselineOf(a).entries[fp] IN
        /\ DOMAIN BaselineOf(a).entries = DOMAIN a.entries
        /\ saved.count = a.entries[fp].count /\ saved.samples = a.entries[fp].samples
        /\ saved.total = a.entries[fp].total /\ saved.max = a.entries[fp].max
    BY SavedEntry
  <2> QED
    BY <1>2, <2>1, <2>2 DEF EntryTypes
<1> QED
  BY <1>3, <1>4 DEF BaselineTypes, a

\* No metric exceeds itself.
LEMMA NoExcess ==
    ASSUME NEW m, NEW k, EntryTypes(m), Consistent(k),
           k.samples = m.samples, k.total = m.total, k.max = m.max
    PROVE  ~ Exceeds(m, k)
<1>1. \A t, s, x \in Int : t <= x * s => ~ (t > x * s)
  OBVIOUS
<1>2. m.total \in Int /\ m.samples \in Int /\ k.max \in Int /\ m.total <= k.max * m.samples
  BY DEF EntryTypes, Consistent
<1> QED
  BY <1>1, <1>2 DEF Exceeds

LEMMA WorkloadTypes ==
    ASSUME NEW n \in Nat, NEW rs, NEW a, Gathered(a, rs, n), NEW name
    PROVE  EntryTypes(Workload(a, name).ru) /\ EntryTypes(Workload(a, name).statements)
<1> DEFINE D == DOMAIN a.scopes
           ru == [s \in D |-> a.scopes[s].ru]
           statements == [s \in D |-> a.scopes[s].statements]
<1>1. IsFiniteSet(D) /\ \A s \in D : a.scopes[s].ru \in Nat /\ a.scopes[s].statements \in Nat
  <2>1. IsFiniteSet(D) /\ \A s \in D : Covers(a.scopes[s], rs, ScopeUpTo(rs, n, s))
    BY DEF Gathered, ScopesCover, At
  <2> QED
    BY <2>1 DEF Covers, Scoped
<1>2. DOMAIN ru = D /\ DOMAIN statements = D /\ Numbers(ru, D) /\ Numbers(statements, D)
  BY <1>1 DEF Numbers
<1>3. Workload(a, name).ru = Metric(ru) /\ Workload(a, name).statements = Metric(statements)
  BY DEF Workload
<1> HIDE DEF D, ru, statements
<1>4. EntryTypes(Metric(ru)) /\ EntryTypes(Metric(statements))
  BY <1>1, <1>2, MetricTypes
<1> QED
  BY <1>3, <1>4

LEMMA OwnEntriesPass ==
    ASSUME NEW n \in Nat, NEW rs, NEW b, Gathered(b, rs, n), NEW a, a.entries = Entries(b), Saveable(a),
           NEW fp \in DOMAIN a.entries
    PROVE  FingerprintStatus(fp, a.entries, BaselineOf(a).entries) = "pass"
<1> DEFINE e == a.entries[fp]
           saved == BaselineOf(a).entries[fp]
<1>1. /\ DOMAIN BaselineOf(a).entries = DOMAIN a.entries
      /\ saved.count = e.count /\ saved.samples = e.samples
      /\ saved.total = e.total /\ saved.max = e.max
  BY SavedEntry
<1>2. e.errors = 0
  BY DEF Saveable
<1>3. ValidEntry(saved)
  BY <1>1 DEF Saveable, ValidBaseline
<1>4. e.samples \in Nat /\ e.total \in Nat /\ e.max \in Int
  BY EntryOfRecords
<1> HIDE DEF e, saved
<1>5. saved.samples = saved.count /\ saved.samples >= MinimumSamples /\ Consistent(saved)
  BY <1>3 DEF ValidEntry
<1>6. EntryTypes(e)
  BY <1>4 DEF EntryTypes
<1>7. ~ Exceeds(e, saved)
  BY <1>1, <1>5, <1>6, NoExcess
<1>8. e.samples = e.count /\ ~ (e.samples < MinimumSamples)
  BY <1>1, <1>4, <1>5, CapturesAssumption
<1> QED
  BY <1>1, <1>2, <1>7, <1>8, FingerprintPasses DEF e, saved

LEMMA OwnWorkloadPasses ==
    ASSUME NEW n \in Nat, NEW rs, NEW b, Gathered(b, rs, n), NEW c, c.scopes = b.scopes,
           NEW name, name # "", NEW a, a.workload = Workload(b, name), Saveable(a)
    PROVE  WorkloadStatus(Workload(c, name), BaselineOf(a).workload) = "pass"
<1> DEFINE w == Workload(b, name)
           saved == BaselineOf(a).workload
<1>1. Workload(c, name) = w
  BY Zenon DEF Workload
<1>2. w.name = name
  BY DEF Workload
<1>3. EntryTypes(w.ru) /\ EntryTypes(w.statements)
  BY WorkloadTypes
<1>4. saved = [name |-> w.name, ru |-> w.ru, statements |-> w.statements]
  BY <1>2 DEF BaselineOf, SavedWorkload
<1>5. w.covered /\ (saved.name # "" => ValidWorkload(saved, BaselineOf(a).entries))
  BY <1>2 DEF Saveable, ValidBaseline
<1> HIDE DEF w, saved
<1>6. saved.name = name /\ saved.ru = w.ru /\ saved.statements = w.statements
  BY <1>2, <1>4
<1>7. Consistent(saved.ru) /\ Consistent(saved.statements)
  BY <1>5, <1>6 DEF ValidWorkload, ValidMetrics, ValidMetric
<1>8. ~ Exceeds(w.ru, saved.ru) /\ ~ Exceeds(w.statements, saved.statements)
  BY <1>3, <1>6, <1>7, NoExcess
<1>9. WorkloadStatus(w, saved) = "pass"
  BY <1>2, <1>5, <1>6, <1>8 DEF WorkloadStatus
<1> QED
  BY <1>1, <1>9 DEF saved

LEMMA NoName == NoWorkload.name = ""
  BY DEF NoWorkload

LEMMA SavedName == ASSUME NEW w PROVE SavedWorkload(w).name = w.name
<1>1. CASE w.name = ""
  BY <1>1, NoName DEF SavedWorkload
<1>2. CASE w.name # ""
  BY <1>2 DEF SavedWorkload
<1> QED
  BY <1>1, <1>2

LEMMA OwnBaseline ==
    ASSUME NEW n \in Nat, NEW rs, DOMAIN rs = 1 .. n, WellFormed(rs, n), NEW request, NEW name,
           NEW a, a = Analyzed(rs, [schema |-> FALSE, workload |-> name]), Saveable(a),
           request.workload = BaselineOf(a).workload.name
    PROVE  Passes(Analyzed(rs, request), BaselineOf(a))
<1> DEFINE b == Analysis(rs, FALSE)
           c == Analysis(rs, request.schema)
           again == Analyzed(rs, request)
<1>1. Gathered(b, rs, n) /\ SameCounters(c, b)
  BY AnalysisGathers, SchemaIsLeftOut
<1>2. a.entries = Entries(b) /\ a.workload = IF name = "" THEN NoWorkload ELSE Workload(b, name)
  BY DEF Analyzed
<1>3. again.entries = Entries(c) /\ again.workload = IF request.workload = "" THEN NoWorkload ELSE Workload(c, request.workload)
  BY DEF Analyzed
<1> HIDE DEF b, c, again
<1>4. Entries(c) = Entries(b)
  BY <1>1, Zenon DEF Entries, SameCounters
<1>5. DOMAIN BaselineOf(a).entries = DOMAIN a.entries
  BY DEF BaselineOf
<1>6. \A fp \in DOMAIN again.entries \cup DOMAIN BaselineOf(a).entries :
         FingerprintStatus(fp, again.entries, BaselineOf(a).entries) = "pass"
  BY <1>1, <1>2, <1>3, <1>4, <1>5, OwnEntriesPass
<1>7. BaselineOf(a).workload = SavedWorkload(a.workload)
  BY DEF BaselineOf
<1>8. CASE request.workload = ""
  <2>1. again.workload.name = ""
    BY <1>3, <1>8, NoName
  <2> QED
    BY <1>6, <1>8, <2>1 DEF Passes, WorkloadStatus, again
<1>9. CASE request.workload # ""
  <2>1. name # "" /\ name = request.workload
    <3>1. SavedWorkload(a.workload).name = a.workload.name
      BY SavedName
    <3>2. a.workload.name = request.workload /\ name # ""
      BY <1>2, <1>7, <1>9, <3>1, NoName
    <3>3. Workload(b, name).name = name
      BY DEF Workload
    <3> QED
      BY <1>2, <3>2, <3>3
  <2>2. a.workload = Workload(b, name) /\ again.workload = Workload(c, name) /\ c.scopes = b.scopes
    BY <1>1, <1>2, <1>3, <2>1 DEF SameCounters
  <2>3. WorkloadStatus(again.workload, BaselineOf(a).workload) = "pass"
    <3>1. WorkloadStatus(Workload(c, name), BaselineOf(a).workload) = "pass"
      BY <1>1, <2>1, <2>2, OwnWorkloadPasses
    <3> QED
      BY <2>2, <3>1
  <2> QED
    BY <1>6, <2>3 DEF Passes, again
<1> QED
  BY <1>8, <1>9

---------------------------------------------------------------------------
(* The captures of a behaviour.                                              *)

\* The file holds records of the program's own types.
Filed(rs) == \E S : rs \in Seq(S) /\ \A r \in S : RecordTypes(r)

MadeFrom(base, rs) ==
    \E name : LET a == Analyzed(rs, [schema |-> FALSE, workload |-> name])
              IN  ReadableFile(rs) /\ Saveable(a) /\ base = BaselineOf(a)

\* The last answer and the baseline of this capture follow from the file.
CaptureInv ==
    /\ Filed(log) /\ BaselineTypes(baseline)
    /\ fresh => MadeFrom(baseline, log)
    /\ Answered => report = TheReport(log, baseline, report.request)

LEMMA FiledReads ==
    ASSUME NEW rs, Filed(rs)
    PROVE  \E n \in Nat : DOMAIN rs = 1 .. n /\ (ReadableFile(rs) => WellFormed(rs, n))
<1>1. PICK S : rs \in Seq(S) /\ \A r \in S : RecordTypes(r)
  BY DEF Filed
<1>2. Len(rs) \in Nat /\ DOMAIN rs = 1 .. Len(rs) /\ \A i \in 1 .. Len(rs) : rs[i] \in S
  BY <1>1
<1>3. ReadableFile(rs) => WellFormed(rs, Len(rs))
  BY <1>1, <1>2 DEF ReadableFile, WellFormed
<1> QED
  BY <1>2, <1>3

LEMMA FiledAppend ==
    ASSUME NEW rs, Filed(rs), NEW r, RecordTypes(r)
    PROVE  Filed(Append(rs, r))
<1>1. PICK S : rs \in Seq(S) /\ \A x \in S : RecordTypes(x)
  BY DEF Filed
<1>2. rs \in Seq(S \cup {r}) /\ r \in S \cup {r}
  BY <1>1
<1>3. Append(rs, r) \in Seq(S \cup {r})
  BY <1>2
<1>4. \A x \in S \cup {r} : RecordTypes(x)
  BY <1>1
<1> QED
  BY <1>3, <1>4 DEF Filed

LEMMA NoFile == Filed(<<>>)
<1> DEFINE S == {}
<1>1. <<>> \in Seq(S) /\ \A r \in S : RecordTypes(r)
  OBVIOUS
<1> HIDE DEF S
<1> QED
  BY <1>1 DEF Filed

\* The record of a statement has the types of its kind.
LEMMA KindsAreTyped ==
    ASSUME NEW kind \in Kinds \cup LaterKinds, NEW scope
    PROVE  RecordTypes(With(kind, "scope", scope))
<1> DEFINE r == With(kind, "scope", scope)
<1>1. RecordFields \subseteq DOMAIN kind /\ RecordTypes(kind)
  BY CapturesAssumption
<1>2. \A f \in RecordFields : f # "scope" => r[f] = kind[f]
  BY <1>1 DEF With
<1>3. r.ru = kind.ru /\ r.failed = kind.failed /\ r.warned = kind.warned /\ r.pattern = kind.pattern /\ r.index = kind.index
  <2> HIDE DEF r
  <2> QED
    BY <1>2 DEF RecordFields
<1> HIDE DEF r
<1>4. RecordTypes(r)
  BY <1>1, <1>3 DEF RecordTypes
<1> QED
  BY <1>4 DEF r

LEMMA NoBaselineTypes == BaselineTypes(NoBaseline)
<1>1. NoBaseline.entries = <<>> /\ DOMAIN <<>> = {}
  BY DEF NoBaseline
<1> QED
  BY <1>1 DEF BaselineTypes

LEMMA NotAnswered == NoReport.of = "nothing"
  BY DEF NoReport

LEMMA CapturesStart == ASSUME CapturesInit PROVE CaptureInv
<1>1. Filed(log)
  BY NoFile DEF CapturesInit
<1>2. BaselineTypes(baseline)
  BY NoBaselineTypes, CapturesAssumption DEF CapturesInit, BaselineTypes
<1>3. ~ Answered
  BY NotAnswered DEF CapturesInit, Answered
<1> QED
  BY <1>1, <1>2, <1>3 DEF CaptureInv, CapturesInit

---------------------------------------------------------------------------
(* The steps.                                                                *)

LEMMA CaptureKeeps ==
    ASSUME CaptureInv, NEW scope, NEW kind \in Kinds \cup LaterKinds, Capture(scope, kind)
    PROVE  CaptureInv'
<1>1. Filed(log')
  <2>1. log' = Append(log, With(kind, "scope", scope))
    BY DEF Capture
  <2> QED
    BY <2>1, FiledAppend, KindsAreTyped DEF CaptureInv
<1>2. ~ fresh' /\ report' = NoReport /\ baseline' = baseline
  BY DEF Capture
<1>3. ~ Answered'
  BY <1>2, NotAnswered DEF Answered
<1> QED
  BY <1>1, <1>2, <1>3 DEF CaptureInv

LEMMA NewCaptureKeeps == ASSUME CaptureInv, NewCapture PROVE CaptureInv'
<1>1. Filed(log') /\ ~ fresh' /\ report' = NoReport /\ baseline' = baseline
  BY NoFile DEF NewCapture
<1>2. ~ Answered'
  BY <1>1, NotAnswered DEF Answered
<1> QED
  BY <1>1, <1>2 DEF CaptureInv

LEMMA BaselineKeeps == ASSUME CaptureInv, NEW workload, MakeBaseline(workload) PROVE CaptureInv'
<1> DEFINE request == [schema |-> FALSE, workload |-> workload]
           a == Analyzed(log, request)
           saved == ReadableFile(log) /\ Saveable(a)
<1>1. /\ baseline' = IF saved THEN BaselineOf(a) ELSE baseline
      /\ fresh' = IF saved THEN TRUE ELSE fresh
      /\ report' = [NoReport EXCEPT !.of = "baseline", !.ok = saved, !.err = IF saved THEN "none" ELSE "input"]
      /\ log' = log
  BY Zenon DEF MakeBaseline
<1>2. saved => BaselineTypes(BaselineOf(a)) /\ MadeFrom(BaselineOf(a), log)
  <2>1. saved => BaselineTypes(BaselineOf(a))
    <3> SUFFICES ASSUME saved PROVE BaselineTypes(BaselineOf(a))
      OBVIOUS
    <3>1. PICK n \in Nat : DOMAIN log = 1 .. n /\ (ReadableFile(log) => WellFormed(log, n))
      BY FiledReads DEF CaptureInv
    <3>2. WellFormed(log, n)
      BY <3>1
    <3> HIDE DEF request
    <3> QED
      BY <3>1, <3>2, SavedTypes
  <2>2. saved => MadeFrom(BaselineOf(a), log)
    BY Zenon DEF MadeFrom
  <2> QED
    BY <2>1, <2>2
<1> HIDE DEF a, saved, request
<1>3. report'.of = "baseline"
  BY <1>1 DEF NoReport
<1>4. ~ Answered'
  BY <1>3 DEF Answered
<1>5. /\ BaselineTypes(baseline')
      /\ fresh' => MadeFrom(baseline', log')
      /\ Filed(log')
  BY <1>1, <1>2 DEF CaptureInv
<1> QED
  BY <1>4, <1>5 DEF CaptureInv

LEMMA BaselineFailsKeeps == ASSUME CaptureInv, NEW workload, WriteBaselineFails(workload) PROVE CaptureInv'
<1>1. /\ baseline' = NoBaseline /\ ~ fresh' /\ log' = log
      /\ report' = [NoReport EXCEPT !.of = "baseline", !.err = "write", !.ok = FALSE]
  BY DEF WriteBaselineFails
<1>2. report'.of = "baseline"
  BY <1>1 DEF NoReport
<1>3. ~ Answered'
  BY <1>2 DEF Answered
<1> QED
  BY <1>1, <1>3, NoBaselineTypes DEF CaptureInv

LEMMA AnalyzeKeeps == ASSUME CaptureInv, NEW request, Analyze(request) PROVE CaptureInv'
<1>1. UNCHANGED <<log, baseline, fresh>> /\ (report' = AnalyzeReport(request) \/ report' = Refusal("write", request))
  BY DEF Analyze
<1>2. ASSUME Answered'
      PROVE  report' = TheReport(log', baseline', report'.request)
  <2>1. report'.err = "none"
    BY <1>2 DEF Answered
  <2>2. Refusal("write", request).err # "none"
    BY DEF Refusal, NoReport
  <2>3. report' = TheReport(log, baseline, request)
    BY <1>1, <2>1, <2>2, ReportFollows
  <2>4. Answers(Analyzed(log, request), report', baseline, request)
    BY <2>1, <2>3, AnswerSays
  <2>5. report'.request = request
    BY <2>4 DEF Answers
  <2> QED
    BY <1>1, <2>3, <2>5
<1> QED
  BY <1>1, <1>2 DEF CaptureInv

\* The RU of a sample is that of a statement of the rounds.
Sent ==
    \A v \in Variants : \A i \in 1 .. Len(compare.samples[v]) :
       compare.samples[v][i].by \in 1 .. 3 * Rounds

LEMMA SentStays == ASSUME Sent, compare'.samples = compare.samples PROVE Sent'
  BY DEF Sent

LEMMA NothingSent == ASSUME compare'.samples = NoCompare.samples PROVE Sent'
<1>1. \A v \in Variants : NoCompare.samples[v] = <<>>
  BY DEF NoCompare
<1>2. Len(<<>>) = 0 /\ 1 .. 0 = {}
  OBVIOUS
<1> QED
  BY <1>1, <1>2 DEF Sent

LEMMA SampleIsSent ==
    ASSUME CompareInv, Sent, Probe, ~ Differs
    PROVE  Sent'
<1>0. CompareTyping /\ ConnInv /\ StepInv /\ compare.pc = "probe"
  BY DEF CompareInv, Probe
<1>1. compare'.samples = Sampled
  BY <1>0, AgreesFields
<1>2. compare \in Calls
  BY <1>0 DEF CompareTyping
<1>3. compare.step \in 1 .. 3 * Rounds /\ compare.samples \in [Variants -> Seq(Sample)] /\ compare.step \in Nat
  BY <1>0, <1>2, FieldTypes DEF StepInv
<1>4. last[ProbeSession] = compare.step
  BY <1>0 DEF ConnInv, ProbeSession
<1>5. PICK w \in Variants : w = Variant(compare.step - 1)
  <2>1. compare.step - 1 \in Nat
    BY <1>3
  <2> QED
    BY <2>1, VariantType
<1>6. PICK m \in 1 .. 3 * Rounds : m = compare.step
  BY <1>3
<1>7. PICK x : x = [of |-> m, by |-> m] /\ x.by = m /\ x \in Sample
  <2>1. m \in Nat
    BY <1>3, <1>6
  <2>2. [of |-> m, by |-> m] \in Sample /\ [of |-> m, by |-> m].by = m
    BY <2>1 DEF Sample
  <2> QED
    BY <2>2
<1>8. compare'.samples = [compare.samples EXCEPT ![w] = IF Round(compare.step - 1) < Warmup THEN compare.samples[w]
                                                        ELSE Append(compare.samples[w], x)]
  BY <1>1, <1>4, <1>5, <1>6, <1>7, Zenon DEF Sampled
<1>9. \A v \in Variants : \/ compare'.samples[v] = compare.samples[v]
                          \/ compare'.samples[v] = Append(compare.samples[v], x)
  BY <1>3, <1>8
<1>10. ASSUME NEW v \in Variants, NEW i \in 1 .. Len(compare'.samples[v])
       PROVE  compare'.samples[v][i].by \in 1 .. 3 * Rounds
  <2>1. PICK q \in Seq(Sample) : q = compare.samples[v]
    BY <1>3
  <2>2. \A k \in 1 .. Len(q) : q[k].by \in 1 .. 3 * Rounds
    BY <2>1 DEF Sent
  <2>3. compare'.samples[v] = q \/ compare'.samples[v] = Append(q, x)
    BY <1>9, <2>1
  <2>4. ASSUME NEW k \in 1 .. Len(Append(q, x))
        PROVE  Append(q, x)[k] = x \/ (k \in 1 .. Len(q) /\ Append(q, x)[k] = q[k])
    <3>1. Len(Append(q, x)) = Len(q) + 1 /\ Len(q) \in Nat /\ Append(q, x)[Len(q) + 1] = x
          /\ \A j \in 1 .. Len(q) : Append(q, x)[j] = q[j]
      BY <1>7
    <3>2. k \in 1 .. Len(q) \/ k = Len(q) + 1
      BY <3>1
    <3> QED
      BY <3>1, <3>2
  <2>5. CASE compare'.samples[v] = q
    BY <1>10, <2>2, <2>5
  <2>6. CASE compare'.samples[v] = Append(q, x)
    BY <1>6, <1>7, <1>10, <2>2, <2>4, <2>6
  <2> QED
    BY <2>3, <2>5, <2>6
<1> QED
  BY <1>10 DEF Sent

LEMMA SentKeeps ==
    ASSUME CompareInv, Sent, cancelled \in BOOLEAN, Comparing
    PROVE  Sent'
<1>0. CompareTyping
  BY DEF CompareInv
<1>1. CASE RefuseCompare
  BY <1>0, <1>1, RefuseFields, NothingSent DEF Only, Fields
<1>2. CASE \E kind \in Executors : StartCompare(kind)
  BY <1>0, <1>2, StartFields, NothingSent DEF Only, Fields
<1>3. CASE \E c \in Connections : Pin(c)
  BY <1>0, <1>3, PinFields, SentStays DEF Only, Fields
<1>4. CASE PinFails
  BY <1>0, <1>4, PinFailsFields, SentStays DEF Only, Fields
<1>5. CASE CompareStops
  BY <1>0, <1>5, StopFields, SentStays DEF Only, Fields
<1>6. CASE SelectFails
  BY <1>0, <1>6, SelectFailsFields, SentStays DEF Only, Fields
<1>7. CASE Select
  BY <1>0, <1>7, SelectFields, SentStays DEF Only, Fields
<1>8. CASE ProbeFails
  BY <1>0, <1>8, ProbeFailsFields, SentStays DEF Only, Fields
<1>9. CASE Probe
  <2>1. CASE Differs
    BY <1>0, <1>9, <2>1, DiffersFields, SentStays DEF Only, Fields
  <2>2. CASE ~ Differs
    BY <1>9, <2>2, SampleIsSent
  <2> QED
    BY <2>1, <2>2
<1>10. CASE Explain
  <2>1. cancelled' \in BOOLEAN
    BY <1>10 DEF Explain
  <2> QED BY <1>0, <1>10, <2>1, ExplainOutcomes, ExplainFailsFields, ExplainFields, SentStays DEF Only, Fields
<1>11. CASE Release
  BY <1>0, <1>11, ReleaseOutcomes, ReleaseFields, SentStays DEF Only, Fields
<1>12. CASE Deliver
  BY <1>0, <1>12, DeliverFields, SentStays DEF Only, Fields
<1>13. CASE Return
  BY <1>0, <1>13, ReturnFields, SentStays DEF Only, Fields
<1> QED BY <1>1, <1>2, <1>3, <1>4, <1>5, <1>6, <1>7, <1>8, <1>9, <1>10, <1>11, <1>12, <1>13
        DEF Comparing, CompareStep

LEMMA SentHolds ==
    ASSUME MeasureInv, Sent, [MeasureNext]_measureVars
    PROVE  Sent'
<1>0. CompareInv /\ cancelled \in BOOLEAN
  BY DEF MeasureInv, TaskInv
<1>1. CASE CompareMoves /\ Comparing
  BY <1>0, <1>1, SentKeeps
<1>2. CASE SessionMoves \/ PrepareMoves \/ ContextMoves \/ NothingMoves \/ OthersMove \/ (CompareMoves /\ DataChanges)
  <2>1. compare' = compare
    BY <1>2 DEF SessionMoves, PrepareMoves, ContextMoves, NothingMoves, OthersMove, OthersUse, DataChanges, compareVars
  <2> QED
    BY <2>1, SentStays
<1> QED
  BY <1>1, <1>2, StepKinds DEF CompareMoves

---------------------------------------------------------------------------
(* The export of a comparison's samples.                                     *)

LEMMA CostIsNumber == ASSUME NEW n \in 1 .. 3 * Rounds PROVE Cost[n] \in Nat
<1>1. Cost \in [1 .. 3 * Rounds -> Nat]
  BY ComparisonsAssumption, Zenon DEF Rounds
<1> QED
  BY <1>1

LEMMA SampleRecordTypes ==
    ASSUME Sent, NEW v \in Variants, NEW i \in 1 .. Len(compare.samples[v])
    PROVE  RecordTypes(SampleRecord(v, i))
<1> DEFINE cost == Cost[compare.samples[v][i].by]
           r == SampleRecord(v, i)
<1>1. cost \in Nat
  BY CostIsNumber DEF Sent
<1>2. r.ru = [known |-> TRUE, value |-> cost, failed |-> FALSE] /\ r.failed = FALSE
      /\ r.warned = {} /\ r.pattern = {} /\ r.index = ""
  BY DEF SampleRecord
<1> HIDE DEF cost, r
<1>3. "" \notin AnalysisCodes
  BY DEF AnalysisCodes
<1>4. r.ru \in [known : BOOLEAN, value : Int, failed : BOOLEAN]
  <2>1. [known |-> TRUE, value |-> cost, failed |-> FALSE] \in [known : BOOLEAN, value : Int, failed : BOOLEAN]
    BY <1>1
  <2> QED
    BY <1>2, <2>1, Zenon
<1>5. AnalysisCodes \cap (r.warned \cup r.pattern \cup {r.index}) = {}
  BY <1>2, <1>3
<1>6. RecordTypes(r)
  BY <1>2, <1>4, <1>5 DEF RecordTypes
<1> QED
  BY <1>6 DEF r

LEMMA ExportKeeps ==
    ASSUME CaptureInv, CompareInv, Sent, NEW v \in Variants, WriteCapture(v)
    PROVE  CaptureInv'
<1>1. ~ fresh' /\ report' = NoReport /\ baseline' = baseline /\ Len(compare.samples[v]) = Samples
  BY DEF WriteCapture, Exportable
<1>2. PICK n \in 0 .. Samples : log' = [i \in 1 .. n |-> SampleRecord(v, i)]
  BY DEF WriteCapture
<1>3. Filed(log')
  <2> DEFINE S == {SampleRecord(v, i) : i \in 1 .. n}
             rs == [i \in 1 .. n |-> SampleRecord(v, i)]
  <2>1. \A i \in 1 .. n : i \in 1 .. Len(compare.samples[v])
    BY <1>1, ComparisonsAssumption
  <2>2. \A r \in S : RecordTypes(r)
    BY <2>1, SampleRecordTypes
  <2>3. rs \in [1 .. n -> S] /\ n \in Nat
    BY ComparisonsAssumption
  <2> HIDE DEF S, rs
  <2>4. rs \in Seq(S)
    BY <2>3
  <2>5. Filed(rs)
    BY <2>2, <2>4 DEF Filed
  <2> QED
    BY <1>2, <2>5 DEF rs
<1>4. ~ Answered'
  BY <1>1, NotAnswered DEF Answered
<1> QED
  BY <1>1, <1>3, <1>4 DEF CaptureInv

LEMMA CapturesStay == ASSUME CaptureInv, UNCHANGED captureVars PROVE CaptureInv'
  BY DEF CaptureInv, captureVars, Answered

LEMMA CapturesHold ==
    ASSUME MeasureInv, Sent, CaptureInv, [MeasureNext]_measureVars
    PROVE  CaptureInv'
<1>1. CASE UNCHANGED captureVars
  BY <1>1, CapturesStay
<1>2. CASE Offline
  <2>1. \/ \E scope \in Scopes, kind \in Kinds \cup LaterKinds : Capture(scope, kind)
        \/ NewCapture
        \/ \E workload \in Workloads : MakeBaseline(workload) \/ WriteBaselineFails(workload)
        \/ \E request \in Requests : Analyze(request)
    BY <1>2, Zenon DEF Offline
  <2> QED
    BY <2>1, CaptureKeeps, NewCaptureKeeps, BaselineKeeps, BaselineFailsKeeps, AnalyzeKeeps
<1>3. CASE Export
  BY <1>3, ExportKeeps DEF Export, MeasureInv
<1> QED
  BY <1>1, <1>2, <1>3
  DEF MeasureNext, measureVars, CallStarts, CallStep, ContextEnds, PoolTaken, PoolReturned, ServerChanges

---------------------------------------------------------------------------
(* What an answer says.                                                      *)

\* No finding of the analysis itself is one of the comparison.
LEMMA FindingsCodes ==
    ASSUME NEW n \in Nat, NEW rs, NEW a, Gathered(a, rs, n), NEW f \in Findings(a)
    PROVE  f[1] \notin RegressionCodes
<1>1. CASE f \in a.found
  BY <1>1 DEF Gathered, FoundCodes
<1>2. CASE f \in DOMAIN a.repeats
  <2>1. PICK i \in RepeatsUpTo(rs, n, f) : TRUE
    BY <1>2 DEF Gathered, CountsRepeats
  <2>2. RepeatCode(rs[i]) # "" /\ f = <<RepeatCode(rs[i]), RepeatKey(rs[i])>>
    BY <2>1 DEF RepeatsUpTo
  <2>3. f[1] \in RepeatCodes
    BY <2>2, RepeatCodeTypes
  <2> QED
    BY <2>3 DEF RepeatCodes, RegressionCodes
<1> QED
  BY <1>1, <1>2 DEF Findings, BagToSet

\* An answer rests on a readable file.
LEMMA AnswerReads ==
    ASSUME CaptureInv, Answered
    PROVE  \E n \in Nat :
              /\ DOMAIN log = 1 .. n /\ WellFormed(log, n)
              /\ Gathered(Analysis(log, report.request.schema), log, n)
              /\ Answers(Analyzed(log, report.request), report, baseline, report.request)
<1>1. report = TheReport(log, baseline, report.request) /\ report.err = "none"
  BY DEF CaptureInv, Answered
<1>2. ReadableFile(log) /\ Answers(Analyzed(log, report.request), report, baseline, report.request)
  BY <1>1, AnswerSays
<1>3. PICK n \in Nat : DOMAIN log = 1 .. n /\ (ReadableFile(log) => WellFormed(log, n))
  BY FiledReads DEF CaptureInv
<1>4. WellFormed(log, n)
  BY <1>2, <1>3
<1>5. Gathered(Analysis(log, report.request.schema), log, n)
  BY <1>3, <1>4, AnalysisGathers
<1> QED
  BY <1>2, <1>3, <1>4, <1>5

BaselineFindings ==
    IF report.request.baseline THEN ComparisonFindings(Analyzed(log, report.request), baseline) ELSE {}

LEMMA AnswerFinds ==
    ASSUME NEW n \in Nat, Answers(Analyzed(log, report.request), report, baseline, report.request)
    PROVE  /\ report.found = Findings(Analysis(log, report.request.schema)) \cup BaselineFindings
           /\ \A f \in BaselineFindings : f[1] \in RegressionCodes
           /\ report.ok => \A f \in report.found : f[1] \notin ErrorCodes
           /\ report.request.baseline => ValidBaseline(baseline)
<1>1. Analyzed(log, report.request).findings = Findings(Analysis(log, report.request.schema))
  BY DEF Analyzed
<1>2. /\ report.request.baseline => ValidBaseline(baseline)
      /\ report.found = Analyzed(log, report.request).findings \cup BaselineFindings
      /\ report.ok = (\A f \in report.found : f[1] \notin ErrorCodes)
  BY Zenon DEF Answers, BaselineFindings
<1>3. \A f \in BaselineFindings : f[1] \in RegressionCodes
  BY ComparisonCodes DEF BaselineFindings
<1> QED
  BY <1>1, <1>2, <1>3

LEMMA SuccessPasses ==
    ASSUME NEW n \in Nat, Answers(Analyzed(log, report.request), report, baseline, report.request),
           report.ok, report.request.baseline
    PROVE  Passes(Analyzed(log, report.request), baseline) /\ ValidBaseline(baseline)
<1>1. /\ report.found = Findings(Analysis(log, report.request.schema)) \cup BaselineFindings
      /\ \A f \in BaselineFindings : f[1] \in RegressionCodes
      /\ \A f \in report.found : f[1] \notin ErrorCodes
      /\ ValidBaseline(baseline)
  BY AnswerFinds
<1>2. BaselineFindings = ComparisonFindings(Analyzed(log, report.request), baseline)
  BY DEF BaselineFindings
<1>3. BaselineFindings = {}
  BY <1>1 DEF ErrorCodes, RegressionCodes
<1> QED
  BY <1>1, <1>2, <1>3, NoFindingPasses

LEMMA InvKeepsScopes == ASSUME CaptureInv, Answered PROVE RepeatsStayInScope
<1>1. PICK n \in Nat :
         /\ DOMAIN log = 1 .. n /\ WellFormed(log, n)
         /\ Gathered(Analysis(log, report.request.schema), log, n)
         /\ Answers(Analyzed(log, report.request), report, baseline, report.request)
  BY AnswerReads
<1>2. /\ report.found = Findings(Analysis(log, report.request.schema)) \cup BaselineFindings
      /\ \A f \in BaselineFindings : f[1] \in RegressionCodes
  BY <1>1, AnswerFinds
<1>3. ASSUME NEW i \in 1 .. n, RepeatCode(log[i]) # ""
      PROVE  <<RepeatCode(log[i]), RepeatKey(log[i])>> \in report.found
                <=> \E j \in 1 .. n \ {i} : SameRepeat(log[j], log[i])
  <2>1. <<RepeatCode(log[i]), RepeatKey(log[i])>> \in Findings(Analysis(log, report.request.schema)) \cup BaselineFindings
           <=> \E j \in 1 .. n \ {i} : SameRepeat(log[j], log[i])
    BY <1>1, <1>2, <1>3, RepeatsOfTwo
  <2> QED
    BY <1>2, <2>1
<1> QED
  BY <1>1, <1>3, Zenon DEF RepeatsStayInScope, SameRepeat

LEMMA OwnRecords ==
    ASSUME NEW n \in Nat, DOMAIN log = 1 .. n, NEW fp
    PROVE  RecordsOf(fp) = OwnUpTo(log, n, fp)
  BY DEF RecordsOf, OwnUpTo

LEMMA OwnTotal == ASSUME NEW own PROVE TotalRU(own) = Values(log, own)
  BY Zenon DEF TotalRU, Values

LEMMA InvMeasuresSuccess == ASSUME CaptureInv, Answered PROVE SuccessIsMeasured
<1> SUFFICES ASSUME report.ok, report.request.baseline
             PROVE  /\ \A fp \in DOMAIN baseline.entries :
                          LET own == RecordsOf(fp)  base == baseline.entries[fp]
                          IN  /\ Cardinality(own) >= MinimumSamples
                              /\ base.samples >= MinimumSamples
                              /\ \A i \in own : MeasuredCleanly(log[i])
                              /\ \/ 10 * TotalRU(own) * base.samples <= 13 * base.total * Cardinality(own)
                                 \/ TotalRU(own) <= base.max * Cardinality(own)
                    /\ \A i \in DOMAIN log : log[i].ru # NoRU => log[i].fp \in DOMAIN baseline.entries
  BY Zenon DEF SuccessIsMeasured
<1>1. PICK n \in Nat :
         /\ DOMAIN log = 1 .. n /\ WellFormed(log, n)
         /\ Gathered(Analysis(log, report.request.schema), log, n)
         /\ Answers(Analyzed(log, report.request), report, baseline, report.request)
  BY AnswerReads
<1>2. Passes(Analyzed(log, report.request), baseline) /\ ValidBaseline(baseline)
  BY <1>1, SuccessPasses
<1>3. BaselineTypes(baseline)
  BY DEF CaptureInv
<1>4. /\ \A fp \in DOMAIN baseline.entries :
            LET own == OwnUpTo(log, n, fp) IN
            /\ Cardinality(own) >= MinimumSamples
            /\ baseline.entries[fp].samples >= MinimumSamples
            /\ \A i \in own : MeasuredCleanly(log[i])
            /\ \/ 10 * Values(log, own) * baseline.entries[fp].samples <= 13 * baseline.entries[fp].total * Cardinality(own)
               \/ Values(log, own) <= baseline.entries[fp].max * Cardinality(own)
      /\ \A i \in 1 .. n : log[i].ru # NoRU => log[i].fp \in DOMAIN baseline.entries
  BY <1>1, <1>2, <1>3, MeasuredSuccess
<1>5. ASSUME NEW fp \in DOMAIN baseline.entries
      PROVE  LET own == RecordsOf(fp)  base == baseline.entries[fp]
             IN  /\ Cardinality(own) >= MinimumSamples
                 /\ base.samples >= MinimumSamples
                 /\ \A i \in own : MeasuredCleanly(log[i])
                 /\ \/ 10 * TotalRU(own) * base.samples <= 13 * base.total * Cardinality(own)
                    \/ TotalRU(own) <= base.max * Cardinality(own)
  <2>1. RecordsOf(fp) = OwnUpTo(log, n, fp) /\ TotalRU(OwnUpTo(log, n, fp)) = Values(log, OwnUpTo(log, n, fp))
    BY <1>1, OwnRecords, OwnTotal
  <2> QED
    BY <1>4, <2>1, Zenon
<1> QED
  BY <1>1, <1>4, <1>5, Zenon

LEMMA InvMeasuresWorkload == ASSUME CaptureInv, Answered PROVE WorkloadIsMeasured
<1> SUFFICES ASSUME report.ok, report.request.baseline, report.request.workload # ""
             PROVE  /\ baseline.workload.name = report.request.workload
                    /\ \A i \in DOMAIN log :
                          /\ ~log[i].failed
                          /\ \/ log[i].op \in Dml /\ MeasuredCleanly(log[i])
                             \/ log[i].op \in TransactionControl
                          /\ \E j \in DOMAIN log : log[j].scope = log[i].scope /\ log[j].op \in Dml
  BY Zenon DEF WorkloadIsMeasured
<1>1. PICK n \in Nat :
         /\ DOMAIN log = 1 .. n /\ WellFormed(log, n)
         /\ Gathered(Analysis(log, report.request.schema), log, n)
         /\ Answers(Analyzed(log, report.request), report, baseline, report.request)
  BY AnswerReads
<1>2. Passes(Analyzed(log, report.request), baseline)
  BY <1>1, SuccessPasses
<1>3. /\ baseline.workload.name = report.request.workload
      /\ \A i \in 1 .. n :
            /\ ~ log[i].failed
            /\ \/ log[i].op \in Dml /\ MeasuredCleanly(log[i])
               \/ log[i].op \in TransactionControl
            /\ \E j \in 1 .. n : log[j].scope = log[i].scope /\ log[j].op \in Dml
  BY <1>1, <1>2, MeasuredWorkload
<1> QED
  BY <1>1, <1>3, Zenon

LEMMA InvPassesOwnBaseline == ASSUME CaptureInv, Answered PROVE OwnBaselinePasses
<1> SUFFICES ASSUME fresh, report.request.baseline, report.request.workload = baseline.workload.name
             PROVE  \A f \in report.found : f[1] \notin {"RU001", "RU002", "RU003", "RU004"}
  BY Zenon DEF OwnBaselinePasses
<1>1. PICK n \in Nat :
         /\ DOMAIN log = 1 .. n /\ WellFormed(log, n)
         /\ Gathered(Analysis(log, report.request.schema), log, n)
         /\ Answers(Analyzed(log, report.request), report, baseline, report.request)
  BY AnswerReads
<1>2. report.found = Findings(Analysis(log, report.request.schema)) \cup BaselineFindings
  BY <1>1, AnswerFinds
<1>3. BaselineFindings = {}
  <2>1. PICK name : /\ Saveable(Analyzed(log, [schema |-> FALSE, workload |-> name]))
                    /\ baseline = BaselineOf(Analyzed(log, [schema |-> FALSE, workload |-> name]))
    BY Zenon DEF CaptureInv, MadeFrom
  <2>2. PICK a : a = Analyzed(log, [schema |-> FALSE, workload |-> name])
    OBVIOUS
  <2>3. Saveable(a) /\ baseline = BaselineOf(a)
    BY <2>1, <2>2, Zenon
  <2>4. report.request.workload = BaselineOf(a).workload.name
    BY <2>3
  <2>5. Passes(Analyzed(log, report.request), BaselineOf(a))
    BY <1>1, <2>2, <2>3, <2>4, OwnBaseline
  <2>6. ComparisonFindings(Analyzed(log, report.request), baseline) = {}
    BY <2>3, <2>5, NoFindingPasses
  <2> QED
    BY <2>6 DEF BaselineFindings
<1>4. \A f \in Findings(Analysis(log, report.request.schema)) : f[1] \notin RegressionCodes
  BY <1>1, FindingsCodes
<1> QED
  BY <1>2, <1>3, <1>4 DEF RegressionCodes

\* tidbgo analyze: repetitions are counted within a scope, success means that what
\* the baseline promises was measured, and a capture does not regress from its own
\* baseline, for any captures, requests and saved baselines (CaptureInv).
THEOREM VerdictsFollow == MeasureSpec => []VerdictsFollowTheRecords
<1>1. MeasureInit => Sent /\ CaptureInv
  <2>1. MeasureInit => Sent
    <3> SUFFICES ASSUME MeasureInit PROVE Sent
      OBVIOUS
    <3>1. \A v \in Variants : compare.samples[v] = <<>>
      BY DEF MeasureInit, CompareInit, NoCompare
    <3>2. Len(<<>>) = 0 /\ 1 .. 0 = {}
      OBVIOUS
    <3> QED
      BY <3>1, <3>2 DEF Sent
  <2> QED
    BY <2>1, CapturesStart DEF MeasureInit
<1>2. MeasureInv /\ (Sent /\ CaptureInv) /\ [MeasureNext]_measureVars => (Sent /\ CaptureInv)'
  BY SentHolds, CapturesHold
<1>3. CaptureInv => VerdictsFollowTheRecords
  BY InvKeepsScopes, InvMeasuresSuccess, InvMeasuresWorkload, InvPassesOwnBaseline DEF VerdictsFollowTheRecords
<1> QED
  BY <1>1, <1>2, <1>3, MeasureInvariant, PTL DEF MeasureSpec

---------------------------------------------------------------------------
(* Functions of predicates.                                                  *)

SameBelow(f, g, p) == \A q \in 1 .. p - 1 : f[q] = g[q]

\* E gives the value at a number from those at smaller ones.
Local(E, n, V) ==
    \A p \in 1 .. n : \A f, g \in [1 .. n -> V] : SameBelow(f, g, p) => E[p][f] = E[p][g]

Recurs(f, E, n) == \A p \in 1 .. n : f[p] = E[p][f]

\* A value that rests on those of smaller numbers is there for every number.
LEMMA RecursionExists ==
    ASSUME NEW n \in Nat, NEW V, V # {}, NEW E \in [1 .. n -> [[1 .. n -> V] -> V]], Local(E, n, V)
    PROVE  \E f \in [1 .. n -> V] : Recurs(f, E, n)
<1> DEFINE D == [1 .. n -> V]
           S == {k \in 0 .. n : \E f \in D : \A p \in 1 .. k : f[p] = E[p][f]}
<1>1. 0 \in S
  <2>1. PICK f \in D : TRUE
    <3>1. PICK some \in V : TRUE
      OBVIOUS
    <3>2. [p \in 1 .. n |-> some] \in D
      BY <3>1
    <3> QED
      BY <3>2
  <2>2. \A p \in 1 .. 0 : f[p] = E[p][f]
    OBVIOUS
  <2>3. 0 \in 0 .. n
    OBVIOUS
  <2> QED
    BY <2>1, <2>2, <2>3
<1>2. ASSUME NEW k \in 0 .. n - 1, k \in S
      PROVE  k + 1 \in S
  <2>1. PICK f \in D : \A p \in 1 .. k : f[p] = E[p][f]
    BY <1>2
  <2>2. k + 1 \in 1 .. n /\ (k + 1) - 1 = k /\ \A p \in 1 .. k + 1 : p \in 1 .. n /\ (p = k + 1 \/ p \in 1 .. k)
    OBVIOUS
  <2> DEFINE g == [f EXCEPT ![k + 1] = E[k + 1][f]]
  <2>3. E[k + 1][f] \in V
    BY <2>2
  <2>4. g \in D /\ g[k + 1] = E[k + 1][f] /\ \A p \in 1 .. k : g[p] = f[p]
    BY <2>2, <2>3
  <2> HIDE DEF g
  <2>5. ASSUME NEW p \in 1 .. k + 1
        PROVE  g[p] = E[p][g]
    <3>1. \A q \in 1 .. p - 1 : f[q] = g[q]
      <4>1. \A q \in 1 .. p - 1 : q \in 1 .. k
        OBVIOUS
      <4> QED
        BY <2>4, <4>1
    <3>2. E[p][f] = E[p][g]
      BY <2>2, <2>4, <3>1 DEF Local, SameBelow
    <3> QED
      BY <2>1, <2>2, <2>4, <3>2
  <2> QED
    BY <2>2, <2>4, <2>5
<1> HIDE DEF S
<1>3. \A k \in 0 .. n : k \in S
  BY <1>1, <1>2, UpTo
<1>4. n \in S
  BY <1>3
<1> QED
  BY <1>4 DEF S, Recurs

\* Two functions that agree at a number if they agree below it are the same.
SameAbove(f, g, n) == \A p \in 1 .. n : SameBelow(f, g, p) => f[p] = g[p]

LEMMA SameFunction ==
    ASSUME NEW n \in Nat, NEW f, NEW g, SameAbove(f, g, n)
    PROVE  \A p \in 1 .. n : f[p] = g[p]
<1> DEFINE S == {k \in 0 .. n : \A p \in 1 .. k : f[p] = g[p]}
<1>1. 0 \in S
  OBVIOUS
<1>2. ASSUME NEW k \in 0 .. n - 1, k \in S
      PROVE  k + 1 \in S
  <2>1. k + 1 \in 1 .. n /\ (k + 1) - 1 = k /\ \A p \in 1 .. k + 1 : p = k + 1 \/ p \in 1 .. k
    OBVIOUS
  <2>2. f[k + 1] = g[k + 1]
    BY <1>2, <2>1 DEF SameAbove, SameBelow
  <2> QED
    BY <1>2, <2>1, <2>2
<1> HIDE DEF S
<1>3. \A k \in 0 .. n : k \in S
  BY <1>1, <1>2, UpTo
<1>4. n \in S
  BY <1>3
<1> QED
  BY <1>4 DEF S

LEMMA PredicateNumbers ==
    /\ Len(Nodes) \in Nat
    /\ \A p \in Predicates : /\ p \in Nat /\ Nodes[p].children \subseteq Predicates
                             /\ \A child \in Nodes[p].children : child \in 1 .. p - 1
                             /\ Nodes[p].op = "not" => Cardinality(Nodes[p].children) = 1
  BY IndexChecksAssumption DEF Predicates

\* Nodes below a predicate: itself, and what is below its children.
LEMMA UnderDef ==
    /\ Under \in [Predicates -> SUBSET Predicates]
    /\ \A p \in Predicates : Under[p] = {p} \cup UNION {Under[child] : child \in Nodes[p].children}
<1> DEFINE n == Len(Nodes)
           V == SUBSET Predicates
           D == [1 .. n -> V]
           body(p, f) == {p} \cup UNION {f[child] : child \in Nodes[p].children}
           E == [p \in 1 .. n |-> [f \in D |-> body(p, f)]]
<1>1. n \in Nat /\ Predicates = 1 .. n
  BY PredicateNumbers DEF Predicates
<1>2. \A p \in 1 .. n : \A f \in D : body(p, f) \in V
  BY <1>1, PredicateNumbers
<1>3. ASSUME NEW p \in 1 .. n, NEW f, NEW g, SameBelow(f, g, p)
      PROVE  body(p, f) = body(p, g)
  <2>1. \A child \in Nodes[p].children : f[child] = g[child]
    BY <1>1, <1>3, PredicateNumbers DEF SameBelow
  <2> QED
    BY <2>1
<1>4. E \in [1 .. n -> [D -> V]]
  BY <1>2
<1>5. \A p \in 1 .. n : \A f \in D : E[p][f] = body(p, f)
  OBVIOUS
<1>6. V # {}
  OBVIOUS
<1>7. Under = CHOOSE f : f = [p \in 1 .. n |-> body(p, f)]
  BY <1>1 DEF Under
<1> HIDE DEF body, E, n, V
<1>8. Local(E, n, V)
  BY <1>3, <1>5 DEF Local
<1>9. PICK F \in D : \A p \in 1 .. n : F[p] = E[p][F]
  <2>1. \E f \in D : Recurs(f, E, n)
    BY <1>1, <1>4, <1>6, <1>8, RecursionExists
  <2> QED
    BY <2>1 DEF Recurs
<1>10. F = [p \in 1 .. n |-> body(p, F)]
  BY <1>5, <1>9
<1>11. Under = [p \in 1 .. n |-> body(p, Under)]
  BY <1>7, <1>10
<1>12. \A p \in 1 .. n : Under[p] = F[p]
  <2>1. ASSUME NEW p \in 1 .. n, SameBelow(Under, F, p)
        PROVE  Under[p] = F[p]
    <3>1. body(p, Under) = body(p, F)
      BY <1>3, <2>1
    <3>2. Under[p] = body(p, Under)
      BY <1>11
    <3>3. F[p] = body(p, F)
      BY <1>10
    <3> QED
      BY <3>1, <3>2, <3>3
  <2>2. SameAbove(Under, F, n)
    BY <2>1 DEF SameAbove
  <2> QED
    BY <1>1, <2>2, SameFunction
<1>13. Under = F
  BY <1>10, <1>11, <1>12
<1> QED
  BY <1>1, <1>9, <1>11, <1>13 DEF body, V

ConstantValues == {"true", "false", "variable"}
TruthValues    == {"true", "false", "unknown"}

LEMMA OneBelowNot ==
    ASSUME NEW p \in Predicates, Nodes[p].op = "not"
    PROVE  \E child \in Predicates : Nodes[p].children = {child}
<1>1. Nodes[p].children \subseteq 1 .. p - 1 /\ p \in Nat /\ Cardinality(Nodes[p].children) = 1
  BY PredicateNumbers
<1>2. IsFiniteSet(Nodes[p].children)
  <2>1. p - 1 \in Int
    BY <1>1
  <2> QED
    BY <1>1, <2>1, FS_Interval, FS_Subset
<1>3. PICK child : Nodes[p].children = {child}
  BY <1>1, <1>2, FS_Singleton
<1> QED
  BY <1>3, PredicateNumbers

LEMMA TheOnly == \A x : (CHOOSE y \in {x} : TRUE) = x
  OBVIOUS

LEMMA PartsSame ==
    ASSUME NEW S, NEW f, NEW g, \A child \in S : f[child] = g[child]
    PROVE  {f[child] : child \in S} = {g[child] : child \in S}
  OBVIOUS

LEMMA NegatedValues ==
    /\ Negated["true"] = "false" /\ Negated["false"] = "true"
    /\ Negated["variable"] = "variable" /\ Negated["unknown"] = "unknown"
  BY DEF Negated

\* What the definition of Constant asks of a function f of the predicates below p.
ConstantBody(p, f) ==
    LET n == Nodes[p]  parts == {f[child] : child \in n.children}
    IN  CASE IsEmptyList(n) -> IF n.op = "in" THEN "false" ELSE "true"
          [] n.op \in {"and", "or"} -> Group(n.op, parts)
          [] n.op = "not" -> IF Cardinality(n.children) = 1 THEN Negated[CHOOSE part \in parts : TRUE] ELSE "variable"
          [] OTHER -> "variable"

LEMMA GroupType == ASSUME NEW op, NEW parts PROVE Group(op, parts) \in ConstantValues
  BY DEF Group, ConstantValues

LEMMA ConstantBodyType ==
    ASSUME NEW p \in Predicates, NEW f \in [Predicates -> ConstantValues]
    PROVE  ConstantBody(p, f) \in ConstantValues
<1> DEFINE m == Nodes[p]
           parts == {f[child] : child \in m.children}
<1>1. Group(m.op, parts) \in ConstantValues
  BY GroupType
<1>2. m.op = "not" => Negated[CHOOSE part \in parts : TRUE] \in ConstantValues
  <2>1. SUFFICES ASSUME m.op = "not" PROVE Negated[CHOOSE part \in parts : TRUE] \in ConstantValues
    OBVIOUS
  <2>2. PICK child \in Predicates : m.children = {child}
    BY <2>1, OneBelowNot
  <2>3. parts = {f[child]} /\ f[child] \in ConstantValues
    BY <2>2
  <2> QED
    BY <2>3, TheOnly, NegatedValues DEF ConstantValues
<1> HIDE DEF parts
<1>3. ConstantBody(p, f) =
         CASE IsEmptyList(m) -> IF m.op = "in" THEN "false" ELSE "true"
           [] m.op \in {"and", "or"} -> Group(m.op, parts)
           [] m.op = "not" -> IF Cardinality(m.children) = 1 THEN Negated[CHOOSE part \in parts : TRUE] ELSE "variable"
           [] OTHER -> "variable"
  BY Zenon DEF ConstantBody, parts
<1>4. m.op = "not" => Cardinality(m.children) = 1
  BY PredicateNumbers
<1> HIDE DEF m
<1>5. CASE IsEmptyList(m)
  BY <1>3, <1>5 DEF ConstantValues, IsEmptyList
<1>6. CASE ~ IsEmptyList(m)
  BY <1>1, <1>2, <1>3, <1>4, <1>6 DEF ConstantValues
<1> QED
  BY <1>5, <1>6

LEMMA ConstantDef ==
    /\ Constant \in [Predicates -> ConstantValues]
    /\ \A p \in Predicates : Constant[p] = ConstantBody(p, Constant)
<1> DEFINE n == Len(Nodes)
           V == ConstantValues
           D == [1 .. n -> V]
           body(p, f) ==
               ConstantBody(p, f)
           E == [p \in 1 .. n |-> [f \in D |-> body(p, f)]]
<1>1. n \in Nat /\ Predicates = 1 .. n
  BY PredicateNumbers DEF Predicates
<1>2. ASSUME NEW p \in 1 .. n, NEW f \in D
      PROVE  body(p, f) \in V
  BY <1>1, ConstantBodyType DEF n
<1>3. ASSUME NEW p \in 1 .. n, NEW f, NEW g, SameBelow(f, g, p)
      PROVE  body(p, f) = body(p, g)
  <2>1. \A child \in Nodes[p].children : f[child] = g[child]
    BY <1>1, <1>3, PredicateNumbers DEF SameBelow
  <2> QED
    BY <2>1, PartsSame DEF ConstantBody
<1>4. E \in [1 .. n -> [D -> V]]
  BY <1>2
<1>5. \A p \in 1 .. n : \A f \in D : E[p][f] = body(p, f)
  OBVIOUS
<1>6. V # {}
  BY DEF ConstantValues, TruthValues
<1>7. Constant = CHOOSE f : f = [p \in 1 .. n |-> body(p, f)]
  BY <1>1 DEF Constant, ConstantBody
<1> DEFINE T == Constant
<1> HIDE DEF body, E, n, V, T
<1>8. Local(E, n, V)
  BY <1>3, <1>5 DEF Local
<1>9. PICK F \in D : \A p \in 1 .. n : F[p] = E[p][F]
  <2>1. \E f \in D : Recurs(f, E, n)
    BY <1>1, <1>4, <1>6, <1>8, RecursionExists
  <2> QED
    BY <2>1 DEF Recurs
<1>10. F = [p \in 1 .. n |-> body(p, F)]
  BY <1>5, <1>9
<1>11. T = [p \in 1 .. n |-> body(p, T)]
  BY <1>7, <1>10 DEF T
<1>12. \A p \in 1 .. n : T[p] = F[p]
  <2>1. ASSUME NEW p \in 1 .. n, SameBelow(T, F, p)
        PROVE  T[p] = F[p]
    <3>1. body(p, T) = body(p, F)
      BY <1>3, <2>1
    <3>2. T[p] = body(p, T)
      BY <1>11
    <3>3. F[p] = body(p, F)
      BY <1>10
    <3> QED
      BY <3>1, <3>2, <3>3
  <2>2. SameAbove(T, F, n)
    BY <2>1 DEF SameAbove
  <2> QED
    BY <1>1, <2>2, SameFunction
<1>13. T = F
  BY <1>10, <1>11, <1>12
<1> QED
  BY <1>1, <1>9, <1>11, <1>13 DEF body, V, T

BoundsBody(p, f, column) ==
    LET n == Nodes[p]
    IN  CASE n.op = "and" -> \E child \in n.children : f[child]
          [] n.op = "or"  -> n.children # {} /\ \A child \in n.children : f[child]
          [] n.op = "not" -> Constant[p] = "false"
          [] OTHER -> \/ n.op = "in" /\ n.values = {}
                      \/ n.op \in Supported /\ n.column = column

Bounds(column) == CHOOSE f : f = [p \in Predicates |-> BoundsBody(p, f, column)]

LEMMA BoundsBodyType ==
    ASSUME NEW p, NEW f, NEW column
    PROVE  BoundsBody(p, f, column) \in BOOLEAN
  BY DEF BoundsBody

LEMMA BoundsBodySame ==
    ASSUME NEW p, NEW f, NEW g, NEW column, \A child \in Nodes[p].children : f[child] = g[child]
    PROVE  BoundsBody(p, f, column) = BoundsBody(p, g, column)
  BY DEF BoundsBody

LEMMA BoundPredicatesDef ==
    ASSUME NEW column
    PROVE  /\ BoundPredicates(column) = {p \in Predicates : Bounds(column)[p]}
           /\ Bounds(column) \in [Predicates -> BOOLEAN]
           /\ \A p \in Predicates : Bounds(column)[p] = BoundsBody(p, Bounds(column), column)
<1> DEFINE n == Len(Nodes)
           V == BOOLEAN
           D == [1 .. n -> V]
           body(p, f) ==
               BoundsBody(p, f, column)
           E == [p \in 1 .. n |-> [f \in D |-> body(p, f)]]
<1>1. n \in Nat /\ Predicates = 1 .. n
  BY PredicateNumbers DEF Predicates
<1>2. ASSUME NEW p \in 1 .. n, NEW f \in D
      PROVE  body(p, f) \in V
  BY <1>1, BoundsBodyType DEF n
<1>3. ASSUME NEW p \in 1 .. n, NEW f, NEW g, SameBelow(f, g, p)
      PROVE  body(p, f) = body(p, g)
  <2>1. \A child \in Nodes[p].children : f[child] = g[child]
    BY <1>1, <1>3, PredicateNumbers DEF SameBelow
  <2> QED
    BY <2>1, BoundsBodySame
<1>4. E \in [1 .. n -> [D -> V]]
  BY <1>2
<1>5. \A p \in 1 .. n : \A f \in D : E[p][f] = body(p, f)
  OBVIOUS
<1>6. V # {}
  BY DEF ConstantValues, TruthValues
<1>7. Bounds(column) = CHOOSE f : f = [p \in 1 .. n |-> body(p, f)]
  BY <1>1 DEF Bounds
<1> DEFINE T == Bounds(column)
<1> HIDE DEF body, E, n, V, T
<1>8. Local(E, n, V)
  BY <1>3, <1>5 DEF Local
<1>9. PICK F \in D : \A p \in 1 .. n : F[p] = E[p][F]
  <2>1. \E f \in D : Recurs(f, E, n)
    BY <1>1, <1>4, <1>6, <1>8, RecursionExists
  <2> QED
    BY <2>1 DEF Recurs
<1>10. F = [p \in 1 .. n |-> body(p, F)]
  BY <1>5, <1>9
<1>11. T = [p \in 1 .. n |-> body(p, T)]
  BY <1>7, <1>10 DEF T
<1>12. \A p \in 1 .. n : T[p] = F[p]
  <2>1. ASSUME NEW p \in 1 .. n, SameBelow(T, F, p)
        PROVE  T[p] = F[p]
    <3>1. body(p, T) = body(p, F)
      BY <1>3, <2>1
    <3>2. T[p] = body(p, T)
      BY <1>11
    <3>3. F[p] = body(p, F)
      BY <1>10
    <3> QED
      BY <3>1, <3>2, <3>3
  <2>2. SameAbove(T, F, n)
    BY <2>1 DEF SameAbove
  <2> QED
    BY <1>1, <2>2, SameFunction
<1>13. T = F
  BY <1>10, <1>11, <1>12
<1>14. BoundPredicates(column) = {p \in Predicates : Bounds(column)[p]}
  BY Zenon DEF BoundPredicates, Bounds, BoundsBody
<1> QED
  BY <1>1, <1>9, <1>11, <1>13, <1>14 DEF body, V, T

\* What the definition of TruthOf asks of a function f of the predicates below p.
TruthBody(p, f, r) ==
    LET n == Nodes[p]  parts == {f[child] : child \in n.children}
    IN  CASE IsEmptyList(n) -> IF n.op = "in" THEN "false" ELSE "true"
          [] n.op = "and" -> Both(parts)
          [] n.op = "or"  -> Either(parts)
          [] n.op = "not" -> Negated[CHOOSE part \in parts : TRUE]
          [] OTHER -> Compared(n, r[n.column])

LEMMA TruthParts ==
    /\ \A parts : Both(parts) \in TruthValues /\ Either(parts) \in TruthValues
    /\ \A n, value : Compared(n, value) \in TruthValues
<1>1. \A parts : Both(parts) \in TruthValues /\ Either(parts) \in TruthValues
  BY DEF Both, Either, TruthValues
<1>2. ASSUME NEW n, NEW value
      PROVE  Compared(n, value) \in TruthValues
  BY DEF Compared, TruthValues
<1> QED
  BY <1>1, <1>2

LEMMA TruthBodyType ==
    ASSUME NEW p \in Predicates, NEW f \in [Predicates -> TruthValues], NEW r
    PROVE  TruthBody(p, f, r) \in TruthValues
<1> DEFINE m == Nodes[p]
           parts == {f[child] : child \in m.children}
<1>1. /\ Both(parts) \in TruthValues /\ Either(parts) \in TruthValues
      /\ Compared(m, r[m.column]) \in TruthValues
  BY TruthParts
<1>2. m.op = "not" => Negated[CHOOSE part \in parts : TRUE] \in TruthValues
  <2>1. SUFFICES ASSUME m.op = "not" PROVE Negated[CHOOSE part \in parts : TRUE] \in TruthValues
    OBVIOUS
  <2>2. PICK child \in Predicates : m.children = {child}
    BY <2>1, OneBelowNot
  <2>3. parts = {f[child]} /\ f[child] \in TruthValues
    BY <2>2
  <2> QED
    BY <2>3, TheOnly, NegatedValues DEF TruthValues
<1> HIDE DEF parts
<1>3. TruthBody(p, f, r) =
         CASE IsEmptyList(m) -> IF m.op = "in" THEN "false" ELSE "true"
           [] m.op = "and" -> Both(parts)
           [] m.op = "or"  -> Either(parts)
           [] m.op = "not" -> Negated[CHOOSE part \in parts : TRUE]
           [] OTHER -> Compared(m, r[m.column])
  BY Zenon DEF TruthBody, parts
<1> HIDE DEF m
<1>4. CASE IsEmptyList(m)
  BY <1>3, <1>4 DEF TruthValues, IsEmptyList
<1>5. CASE ~ IsEmptyList(m)
  BY <1>1, <1>2, <1>3, <1>5 DEF TruthValues
<1> QED
  BY <1>4, <1>5

LEMMA TruthDef ==
    ASSUME NEW r
    PROVE  /\ TruthOf(r) \in [Predicates -> TruthValues]
           /\ \A p \in Predicates : TruthOf(r)[p] = TruthBody(p, TruthOf(r), r)
<1> DEFINE n == Len(Nodes)
           V == TruthValues
           D == [1 .. n -> V]
           body(p, f) ==
               TruthBody(p, f, r)
           E == [p \in 1 .. n |-> [f \in D |-> body(p, f)]]
<1>1. n \in Nat /\ Predicates = 1 .. n
  BY PredicateNumbers DEF Predicates
<1>2. ASSUME NEW p \in 1 .. n, NEW f \in D
      PROVE  body(p, f) \in V
  BY <1>1, TruthBodyType DEF n
<1>3. ASSUME NEW p \in 1 .. n, NEW f, NEW g, SameBelow(f, g, p)
      PROVE  body(p, f) = body(p, g)
  <2>1. \A child \in Nodes[p].children : f[child] = g[child]
    BY <1>1, <1>3, PredicateNumbers DEF SameBelow
  <2> QED
    BY <2>1, PartsSame DEF TruthBody
<1>4. E \in [1 .. n -> [D -> V]]
  BY <1>2
<1>5. \A p \in 1 .. n : \A f \in D : E[p][f] = body(p, f)
  OBVIOUS
<1>6. V # {}
  BY DEF ConstantValues, TruthValues
<1>7. TruthOf(r) = CHOOSE f : f = [p \in 1 .. n |-> body(p, f)]
  BY <1>1 DEF TruthOf, TruthBody
<1> DEFINE T == TruthOf(r)
<1> HIDE DEF body, E, n, V, T
<1>8. Local(E, n, V)
  BY <1>3, <1>5 DEF Local
<1>9. PICK F \in D : \A p \in 1 .. n : F[p] = E[p][F]
  <2>1. \E f \in D : Recurs(f, E, n)
    BY <1>1, <1>4, <1>6, <1>8, RecursionExists
  <2> QED
    BY <2>1 DEF Recurs
<1>10. F = [p \in 1 .. n |-> body(p, F)]
  BY <1>5, <1>9
<1>11. T = [p \in 1 .. n |-> body(p, T)]
  BY <1>7, <1>10 DEF T
<1>12. \A p \in 1 .. n : T[p] = F[p]
  <2>1. ASSUME NEW p \in 1 .. n, SameBelow(T, F, p)
        PROVE  T[p] = F[p]
    <3>1. body(p, T) = body(p, F)
      BY <1>3, <2>1
    <3>2. T[p] = body(p, T)
      BY <1>11
    <3>3. F[p] = body(p, F)
      BY <1>10
    <3> QED
      BY <3>1, <3>2, <3>3
  <2>2. SameAbove(T, F, n)
    BY <2>1 DEF SameAbove
  <2> QED
    BY <1>1, <2>2, SameFunction
<1>13. T = F
  BY <1>10, <1>11, <1>12
<1> QED
  BY <1>1, <1>9, <1>11, <1>13 DEF body, V, T

---------------------------------------------------------------------------
(* Conditional writes.                                                       *)

LEMMA FromSmaller ==
    ASSUME NEW n \in Nat, NEW S, \A p \in 1 .. n : (1 .. p - 1) \subseteq S => p \in S
    PROVE  \A p \in 1 .. n : p \in S
<1> DEFINE Q == {k \in 0 .. n : (1 .. k) \subseteq S}
<1>1. 0 \in Q
  OBVIOUS
<1>2. ASSUME NEW k \in 0 .. n - 1, k \in Q
      PROVE  k + 1 \in Q
  <2>1. k + 1 \in 1 .. n /\ (k + 1) - 1 = k /\ \A p \in 1 .. k + 1 : p = k + 1 \/ p \in 1 .. k
    OBVIOUS
  <2>2. k + 1 \in S
    BY <1>2, <2>1
  <2> QED
    BY <1>2, <2>1, <2>2
<1> HIDE DEF Q
<1>3. \A k \in 0 .. n : k \in Q
  BY <1>1, <1>2, UpTo
<1>4. n \in Q
  BY <1>3
<1> QED
  BY <1>4 DEF Q

\* What holds of a predicate if it holds of its children holds of all.
LEMMA PredicateInduction ==
    ASSUME NEW S, \A p \in Predicates : Nodes[p].children \subseteq S => p \in S
    PROVE  \A p \in Predicates : p \in S
<1>1. \A p \in 1 .. Len(Nodes) : (1 .. p - 1) \subseteq S => p \in S
  BY PredicateNumbers DEF Predicates
<1> QED
  BY <1>1, PredicateNumbers, FromSmaller DEF Predicates

\* What empty lists alone decide is the value of the predicate for every row.
LEMMA ConstantIsTheValue ==
    ASSUME NEW r
    PROVE  \A p \in Predicates : Constant[p] # "variable" => TruthOf(r)[p] = Constant[p]
<1> DEFINE T == TruthOf(r)
           S == {p \in Predicates : Constant[p] # "variable" => T[p] = Constant[p]}
<1>1. T \in [Predicates -> TruthValues] /\ \A p \in Predicates : T[p] = TruthBody(p, T, r)
  BY TruthDef
<1> HIDE DEF T
<1>2. ASSUME NEW p \in Predicates, Nodes[p].children \subseteq S
      PROVE  p \in S
  <2> DEFINE m == Nodes[p]
             consts == {Constant[child] : child \in m.children}
             truths == {T[child] : child \in m.children}
  <2>1. Constant[p] = ConstantBody(p, Constant) /\ T[p] = TruthBody(p, T, r)
    BY <1>1, ConstantDef
  <2>2. Constant[p] =
         CASE IsEmptyList(m) -> IF m.op = "in" THEN "false" ELSE "true"
           [] m.op \in {"and", "or"} -> Group(m.op, consts)
           [] m.op = "not" -> IF Cardinality(m.children) = 1 THEN Negated[CHOOSE part \in consts : TRUE] ELSE "variable"
           [] OTHER -> "variable"
    BY <2>1, Zenon DEF ConstantBody
  <2>3. T[p] =
         CASE IsEmptyList(m) -> IF m.op = "in" THEN "false" ELSE "true"
           [] m.op = "and" -> Both(truths)
           [] m.op = "or"  -> Either(truths)
           [] m.op = "not" -> Negated[CHOOSE part \in truths : TRUE]
           [] OTHER -> Compared(m, r[m.column])
    BY <2>1, Zenon DEF TruthBody
  <2>4. m.children \subseteq Predicates /\ \A child \in m.children :
           /\ Constant[child] \in ConstantValues /\ T[child] \in TruthValues
           /\ Constant[child] # "variable" => T[child] = Constant[child]
    BY <1>1, <1>2, PredicateNumbers, ConstantDef
  <2>5. \A x : IsEmptyList(x) => x.op \in {"in", "not_in"}
    BY DEF IsEmptyList
  <2>6. CASE m.op = "and"
    <3>1. Constant[p] = Group("and", consts) /\ T[p] = Both(truths)
      BY <2>2, <2>3, <2>5, <2>6
    <3>2. "false" \in consts => "false" \in truths
      BY <2>4
    <3>3. consts = {"true"} => truths = {"true"}
      BY <2>4
    <3> HIDE DEF consts, truths
    <3> QED
      BY <3>1, <3>2, <3>3 DEF Group, Both
  <2>7. CASE m.op = "or"
    <3>1. Constant[p] = Group("or", consts) /\ T[p] = Either(truths)
      BY <2>2, <2>3, <2>5, <2>7
    <3>2. "true" \in consts => "true" \in truths
      BY <2>4
    <3>3. consts = {"false"} => truths = {"false"}
      BY <2>4
    <3> HIDE DEF consts, truths
    <3> QED
      BY <3>1, <3>2, <3>3 DEF Group, Either
  <2>8. CASE m.op = "not"
    <3>1. PICK child \in Predicates : m.children = {child}
      BY <2>8, OneBelowNot
    <3>2. consts = {Constant[child]} /\ truths = {T[child]}
      BY <3>1
    <3>3. Constant[p] \in {"variable", Negated[CHOOSE part \in consts : TRUE]} /\ T[p] = Negated[CHOOSE part \in truths : TRUE]
      BY <2>2, <2>3, <2>5, <2>8
    <3>4. Constant[p] \in {"variable", Negated[Constant[child]]} /\ T[p] = Negated[T[child]]
      BY <3>2, <3>3, TheOnly
    <3>5. Constant[child] = "variable" => Constant[p] = "variable"
      BY <3>4, NegatedValues
    <3> QED
      BY <2>4, <3>1, <3>4, <3>5
  <2>9. CASE IsEmptyList(m)
    BY <2>2, <2>3, <2>5, <2>9
  <2>10. CASE m.op \notin {"and", "or", "not"} /\ ~ IsEmptyList(m)
    <3>1. Constant[p] = "variable"
      BY <2>2, <2>10
    <3> QED
      BY <3>1
  <2> QED
    BY <2>6, <2>7, <2>8, <2>9, <2>10
<1>3. \A p \in Predicates : p \in S
  BY <1>2, PredicateInduction
<1> QED
  BY <1>3 DEF T

\* A condition that gives column c a range or a value.
Bound(p, c) == Nodes[p].op \in Supported /\ Nodes[p].column = c /\ ~ IsEmptyList(Nodes[p])

\* Where a predicate that bounds a column is true, so is a condition on the column.
LEMMA BoundsAreTrue ==
    ASSUME NEW r, NEW c
    PROVE  \A p \in BoundPredicates(c) :
              TruthOf(r)[p] = "true" => \E l \in Under[p] : Bound(l, c) /\ TruthOf(r)[l] = "true"
<1> DEFINE T == TruthOf(r)
           B == Bounds(c)
           S == {p \in Predicates : B[p] /\ T[p] = "true" => \E l \in Under[p] : Bound(l, c) /\ T[l] = "true"}
<1>1. T \in [Predicates -> TruthValues] /\ \A p \in Predicates : T[p] = TruthBody(p, T, r)
  BY TruthDef
<1>2. BoundPredicates(c) = {p \in Predicates : B[p]} /\ \A p \in Predicates : B[p] = BoundsBody(p, B, c)
  BY BoundPredicatesDef
<1>3. \A p \in Predicates : Constant[p] # "variable" => T[p] = Constant[p]
  BY ConstantIsTheValue
<1> HIDE DEF T, B
<1>4. ASSUME NEW p \in Predicates, Nodes[p].children \subseteq S, B[p], T[p] = "true"
      PROVE  \E l \in Under[p] : Bound(l, c) /\ T[l] = "true"
  <2> DEFINE m == Nodes[p]
             truths == {T[child] : child \in m.children}
  <2>1. B[p] = CASE m.op = "and" -> \E child \in m.children : B[child]
                 [] m.op = "or"  -> m.children # {} /\ \A child \in m.children : B[child]
                 [] m.op = "not" -> Constant[p] = "false"
                 [] OTHER -> \/ m.op = "in" /\ m.values = {}
                             \/ m.op \in Supported /\ m.column = c
    BY <1>2, Zenon DEF BoundsBody
  <2>2. T[p] =
         CASE IsEmptyList(m) -> IF m.op = "in" THEN "false" ELSE "true"
           [] m.op = "and" -> Both(truths)
           [] m.op = "or"  -> Either(truths)
           [] m.op = "not" -> Negated[CHOOSE part \in truths : TRUE]
           [] OTHER -> Compared(m, r[m.column])
    BY <1>1, Zenon DEF TruthBody
  <2>3. \A x : IsEmptyList(x) => x.op \in {"in", "not_in"}
    BY DEF IsEmptyList
  <2>4. m.children \subseteq Predicates /\ \A child \in m.children : T[child] \in TruthValues
    BY <1>1, PredicateNumbers
  <2>5. ASSUME NEW child \in m.children, B[child], T[child] = "true"
        PROVE  \E l \in Under[p] : Bound(l, c) /\ T[l] = "true"
    <3>1. PICK l \in Under[child] : Bound(l, c) /\ T[l] = "true"
      BY <1>4, <2>5
    <3>2. Under[child] \subseteq Under[p]
      BY UnderDef
    <3> QED
      BY <3>1, <3>2
  <2>6. CASE m.op = "and"
    <3>1. T[p] = Both(truths) /\ \E child \in m.children : B[child]
      BY <1>4, <2>1, <2>2, <2>3, <2>6
    <3>2. "false" \notin truths /\ "unknown" \notin truths
      <4> HIDE DEF truths
      <4> QED
        BY <1>4, <3>1 DEF Both
    <3>3. \A child \in m.children : T[child] = "true"
      BY <2>4, <3>2 DEF TruthValues
    <3> QED
      BY <2>5, <3>1, <3>3
  <2>7. CASE m.op = "or"
    <3>1. T[p] = Either(truths) /\ \A child \in m.children : B[child]
      BY <1>4, <2>1, <2>2, <2>3, <2>7
    <3>2. "true" \in truths
      <4> HIDE DEF truths
      <4> QED
        BY <1>4, <3>1 DEF Either
    <3> QED
      BY <2>5, <3>1, <3>2
  <2>8. CASE m.op = "not"
    <3>1. Constant[p] = "false"
      BY <1>4, <2>1, <2>8
    <3> QED
      BY <1>3, <1>4, <3>1
  <2>9. CASE m.op \notin {"and", "or", "not"}
    <3>1. (m.op = "in" /\ m.values = {}) \/ (m.op \in Supported /\ m.column = c)
      BY <1>4, <2>1, <2>9
    <3>2. ~ (m.op = "in" /\ m.values = {})
      <4>1. SUFFICES ASSUME m.op = "in", m.values = {} PROVE FALSE
        OBVIOUS
      <4>2. IsEmptyList(m)
        BY <4>1 DEF IsEmptyList
      <4>3. T[p] = "false"
        BY <2>2, <4>1, <4>2
      <4> QED
        BY <1>4, <4>3
    <3>3. ~ IsEmptyList(m)
      BY <3>1, <3>2 DEF IsEmptyList, Supported
    <3>4. p \in Under[p]
      BY UnderDef
    <3> QED
      BY <1>4, <3>1, <3>2, <3>3, <3>4 DEF Bound
  <2> QED
    BY <2>6, <2>7, <2>8, <2>9
<1>5. \A p \in Predicates : Nodes[p].children \subseteq S => p \in S
  BY <1>4
<1> HIDE DEF S
<1>6. \A p \in Predicates : p \in S
  BY <1>5, PredicateInduction
<1> QED
  BY <1>2, <1>6 DEF S, T

LEMMA AllUnder ==
    ASSUME NEW P \in SUBSET Predicates, NEW p \in P, NEW l \in Under[p]
    PROVE  l \in UNION {Under[q] : q \in P}
  OBVIOUS

\* A group that is decided by its constants has this value.
LEMMA NoWriteIsTrue ==
    ASSUME NEW P \in SUBSET Predicates, Group("and", {Constant[p] : p \in P}) = "false", NEW r
    PROVE  \E p \in P : TruthOf(r)[p] # "true"
<1>1. "false" \in {Constant[p] : p \in P}
  <2> DEFINE consts == {Constant[p] : p \in P}
  <2> HIDE DEF consts
  <2>1. "false" \in consts
    <3>1. Group("and", consts) = "false"
      BY DEF consts
    <3> QED
      BY <3>1 DEF Group
  <2> QED
    BY <2>1 DEF consts
<1>2. PICK p \in P : Constant[p] = "false"
  BY <1>1
<1>3. TruthOf(r)[p] = "false"
  BY <1>2, ConstantIsTheValue
<1> QED
  BY <1>3

\* What is checked is a statement or a model with a table or a snapshot.
AuditInv ==
    \/ audit.kind = "none"
    \/ \E q \in Queries, t \in Tables :
          audit = [kind |-> "select", of |-> q, table |-> t, code |-> SelectFinding(Access(q), t)]
    \/ \E w \in Writes, t \in Tables :
          audit = [kind |-> "write", of |-> w, table |-> t, code |-> WriteFinding(w, t)]
    \/ \E m \in AppModels, catalog \in Catalogs :
          audit = [kind |-> "model", of |-> m, catalog |-> catalog, codes |-> ModelCodes(m, catalog)]

LEMMA WriteIsBounded ==
    ASSUME NEW w \in Writes, NEW t \in Tables, WriteFinding(w, t) = "none"
    PROVE  LET changed == {r \in AllRows(t) : /\ \A p \in w.predicates : TruthOf(r)[p] = "true"
                                              /\ \A c \in DeletedIsNull(w) : r[c] = NullValue}
           IN  \/ changed = {}
               \/ \E i \in t.indexes :
                     /\ Usable(i) /\ i.columns # <<>>
                     /\ \/ i.columns[1] \in DeletedIsNull(w)
                        \/ \A r \in changed : \E p \in UNION {Under[q] : q \in w.predicates} :
                              /\ Nodes[p].op \in Supported /\ Nodes[p].column = i.columns[1]
                              /\ ~IsEmptyList(Nodes[p]) /\ TruthOf(r)[p] = "true"
<1> DEFINE P == w.predicates
           changed == {r \in AllRows(t) : /\ \A p \in P : TruthOf(r)[p] = "true"
                                          /\ \A c \in DeletedIsNull(w) : r[c] = NullValue}
           Covered(i) == \A r \in changed : \E p \in UNION {Under[q] : q \in P} :
                            /\ Nodes[p].op \in Supported /\ Nodes[p].column = i.columns[1]
                            /\ ~IsEmptyList(Nodes[p]) /\ TruthOf(r)[p] = "true"
<1>1. P \in SUBSET Predicates
  BY IndexChecksAssumption
<1>2. Group("and", {Constant[p] : p \in P}) = "false" \/ BoundingIndexes(w, t) # {}
  BY DEF WriteFinding
<1>3. CASE Group("and", {Constant[p] : p \in P}) = "false"
  <2>1. \A r : \E p \in P : TruthOf(r)[p] # "true"
    BY <1>1, <1>3, NoWriteIsTrue
  <2>2. changed = {}
    BY <2>1
  <2> QED
    BY <2>2
<1>4. CASE BoundingIndexes(w, t) # {}
  <2>1. PICK i \in t.indexes : /\ Usable(i) /\ i.columns # <<>>
                               /\ i.columns[1] \in DeletedIsNull(w) \/ P \cap BoundPredicates(i.columns[1]) # {}
    BY <1>4 DEF BoundingIndexes
  <2>2. ASSUME NEW p \in P \cap BoundPredicates(i.columns[1])
        PROVE  Covered(i)
    <3>1. SUFFICES ASSUME NEW r \in changed
                   PROVE  \E l \in UNION {Under[q] : q \in P} : Bound(l, i.columns[1]) /\ TruthOf(r)[l] = "true"
      BY DEF Bound
    <3>2. TruthOf(r)[p] = "true"
      BY <3>1
    <3>3. PICK l \in Under[p] : Bound(l, i.columns[1]) /\ TruthOf(r)[l] = "true"
      BY <2>2, <3>2, BoundsAreTrue
    <3>4. l \in UNION {Under[q] : q \in P}
      BY <1>1, <2>2, <3>3, AllUnder
    <3> QED
      BY <3>3, <3>4
  <2> HIDE DEF Covered
  <2>3. i.columns[1] \in DeletedIsNull(w) \/ Covered(i)
    BY <2>1, <2>2
  <2> QED
    BY <2>1, <2>3 DEF Covered
<1> QED
  BY <1>2, <1>3, <1>4

LEMMA InvBoundsWrites == ASSUME AuditInv PROVE WritesAreBounded
<1>1. SUFFICES ASSUME audit.kind = "write", audit.code = "none"
               PROVE  WritesAreBounded
  BY Zenon DEF WritesAreBounded
<1>2. PICK w \in Writes, t \in Tables :
         audit = [kind |-> "write", of |-> w, table |-> t, code |-> WriteFinding(w, t)]
  BY <1>1 DEF AuditInv
<1>3. audit.of = w /\ audit.table = t /\ WriteFinding(w, t) = "none"
  BY <1>1, <1>2
<1> QED
  BY <1>3, WriteIsBounded, Zenon DEF WritesAreBounded

---------------------------------------------------------------------------
(* SELECT.                                                                   *)

\* What a column of the wanted order adds to the order that is left.
Extended(free, column, equal) ==
    IF column \in equal \cup Range(free) THEN free ELSE Append(free, column)

\* FreeOrder goes through the wanted order from its first column.
LEMMA FreeOrderSteps ==
    ASSUME NEW access, NEW V, access.order \in Seq(V)
    PROVE  \E G \in [0 .. Len(access.order) -> Seq(V)] :
              /\ G[0] = <<>> /\ FreeOrder(access) = G[Len(access.order)]
              /\ \A k \in 1 .. Len(access.order) : G[k] = Extended(G[k - 1], access.order[k], access.equal)
<1> DEFINE order == access.order
           n == Len(order)
           Step(g) == [s \in SUBSET DOMAIN order |->
                          IF s = {} THEN <<>> ELSE Extended(g[s \ {Max(s)}], order[Max(s)], access.equal)]
           Folding(g) == g = Step(g)
           H == [i \in 1 .. n |-> [v \in Seq(V) |-> Extended(v, order[i], access.equal)]]
<1>1. n \in Nat /\ DOMAIN order = 1 .. n /\ \A i \in 1 .. n : order[i] \in V
  OBVIOUS
<1>2. ASSUME NEW free \in Seq(V), NEW column \in V
      PROVE  Extended(free, column, access.equal) \in Seq(V)
  BY DEF Extended
<1>3. H \in [1 .. n -> [Seq(V) -> Seq(V)]] /\ <<>> \in Seq(V)
  <2>1. \A i \in 1 .. n : \A free \in Seq(V) : Extended(free, order[i], access.equal) \in Seq(V)
    BY <1>1, <1>2
  <2>2. <<>> \in Seq(V)
    OBVIOUS
  <2> DEFINE W == Seq(V)
  <2> HIDE DEF W, n, order
  <2>3. H \in [1 .. n -> [W -> W]]
    BY <2>1 DEF W
  <2> QED
    BY <2>2, <2>3 DEF W
<1>4. PICK F \in [SUBSET (1 .. n) -> Seq(V)] : Folds(F, n, <<>>, H)
  <2> HIDE DEF H, n
  <2> QED
    BY <1>1, <1>3, FoldExists
<1>5. \A s \in SUBSET (1 .. n) : s # {} => Max(s) \in 1 .. n /\ s \ {Max(s)} \in SUBSET (1 .. n)
  BY <1>1, MaxUpTo
<1>6. \A s \in SUBSET (1 .. n) :
         F[s] = IF s = {} THEN <<>> ELSE Extended(F[s \ {Max(s)}], order[Max(s)], access.equal)
  <2>1. \A i \in 1 .. n : \A v \in Seq(V) : H[i][v] = Extended(v, order[i], access.equal)
    OBVIOUS
  <2> HIDE DEF H, order, n
  <2> QED
    BY <1>4, <1>5, <2>1 DEF Folds
<1>7. Folding(F)
  <2>1. DOMAIN order = 1 .. n /\ F = [s \in SUBSET (1 .. n) |-> F[s]]
    BY <1>1, <1>4
  <2> HIDE DEF order, n
  <2> QED
    BY <1>6, <2>1
<1> DEFINE g == CHOOSE it : Folding(it)
<1>8. Folding(g)
  <2> HIDE DEF Folding
  <2> QED
    BY <1>7
<1>9. FreeOrder(access) = g[1 .. n]
  <2>1. FreeOrder(access) = g[DOMAIN access.order]
    BY Zenon DEF FreeOrder, FoldLeft, MapThenFoldSet, Extended
  <2> HIDE DEF g
  <2> QED
    BY <1>1, <2>1
<1> HIDE DEF g, H
<1>10. \A s \in SUBSET (1 .. n) :
         g[s] = IF s = {} THEN <<>> ELSE Extended(g[s \ {Max(s)}], order[Max(s)], access.equal)
  BY <1>1, <1>8
<1> HIDE DEF Folding, Step
<1> DEFINE G == [k \in 0 .. n |-> g[1 .. k]]
<1>11. G[0] = <<>> /\ FreeOrder(access) = G[n]
  <2>1. {} \in SUBSET (1 .. n) /\ 1 .. 0 = {} /\ G[0] = g[1 .. 0] /\ G[n] = g[1 .. n]
    BY <1>1
  <2> QED
    BY <1>9, <1>10, <2>1
<1>12. ASSUME NEW k \in 1 .. n
       PROVE  G[k] = Extended(G[k - 1], order[k], access.equal)
  <2>1. 1 .. k \in SUBSET (1 .. n) /\ 1 .. k # {} /\ Max(1 .. k) = k /\ (1 .. k) \ {k} = 1 .. k - 1
    BY <1>1, MaxOfPrefix
  <2>2. g[1 .. k] = Extended(g[(1 .. k) \ {Max(1 .. k)}], order[Max(1 .. k)], access.equal)
    BY <1>10, <2>1
  <2>3. G[k] = g[1 .. k] /\ G[k - 1] = g[1 .. k - 1]
    BY <1>1
  <2> HIDE DEF G, order
  <2> QED
    BY <2>1, <2>2, <2>3
<1> HIDE DEF G
<1>13. \A k \in 0 .. n : G[k] \in Seq(V)
  <2> DEFINE S == {k \in 0 .. n : G[k] \in Seq(V)}
  <2>1. 0 \in S
    <3>1. 0 \in 0 .. n /\ G[0] \in Seq(V)
      <4> HIDE DEF n
      <4> QED
        BY <1>1, <1>3, <1>11
    <3> QED
      BY <3>1
  <2>2. ASSUME NEW k \in 0 .. n - 1, k \in S
        PROVE  k + 1 \in S
    <3>1. k + 1 \in 1 .. n /\ (k + 1) - 1 = k /\ k + 1 \in 0 .. n
      BY <1>1
    <3>2. G[k] \in Seq(V) /\ order[k + 1] \in V /\ G[k + 1] = Extended(G[k], order[k + 1], access.equal)
      BY <1>1, <1>12, <2>2, <3>1
    <3>3. G[k + 1] \in Seq(V)
      BY <1>2, <3>2
    <3> QED
      BY <3>1, <3>3
  <2> HIDE DEF S, n
  <2>3. \A k \in 0 .. n : k \in S
    BY <1>1, <2>1, <2>2, UpTo
  <2> QED
    BY <2>3 DEF S
<1>14. G \in [0 .. n -> Seq(V)]
  BY <1>13 DEF G
<1> QED
  BY <1>11, <1>12, <1>14

\* Of the first k columns of an order, those without one value are in the order
\* that is left, each after columns that come before it.
OrderKept(free, order, equal, k) ==
    /\ \A p \in DOMAIN free : \E l \in 1 .. k : order[l] = free[p]
    /\ \A m \in 1 .. k : order[m] \notin equal =>
          \E p \in DOMAIN free : /\ free[p] = order[m]
                                 /\ \A j \in 1 .. p - 1 : \E l \in 1 .. m - 1 : order[l] = free[j]

LEMMA ExtendedKeeps ==
    ASSUME NEW V, NEW free \in Seq(V), NEW order, NEW equal, NEW k \in Nat \ {0}, order[k] \in V,
           OrderKept(free, order, equal, k - 1)
    PROVE  OrderKept(Extended(free, order[k], equal), order, equal, k)
<1> DEFINE longer == Extended(free, order[k], equal)
           n == Len(free)
<1>1. n \in Nat /\ DOMAIN free = 1 .. n
  OBVIOUS
<1>2. \A l \in 1 .. k - 1 : l \in 1 .. k
  OBVIOUS
<1>3. (\A m \in 1 .. k : m = k \/ m \in 1 .. k - 1) /\ k \in 1 .. k
  OBVIOUS
<1>4. \A p \in 1 .. n : \E l \in 1 .. k - 1 : order[l] = free[p]
  BY <1>1 DEF OrderKept
<1>5. \A m \in 1 .. k - 1 : order[m] \notin equal =>
         \E p \in 1 .. n : free[p] = order[m] /\ \A j \in 1 .. p - 1 : \E l \in 1 .. m - 1 : order[l] = free[j]
  BY <1>1 DEF OrderKept
<1>6. CASE order[k] \in equal \cup Range(free)
  <2>1. longer = free
    BY <1>6 DEF Extended
  <2>2. ASSUME order[k] \notin equal
        PROVE  \E p \in 1 .. n : free[p] = order[k] /\ \A j \in 1 .. p - 1 : \E l \in 1 .. k - 1 : order[l] = free[j]
    <3>1. PICK p \in 1 .. n : free[p] = order[k]
      BY <1>1, <1>6, <2>2 DEF Range
    <3>2. \A j \in 1 .. p - 1 : j \in 1 .. n
      BY <1>1
    <3> HIDE DEF n
    <3> QED
      BY <1>4, <3>1, <3>2
  <2>3. \A m \in 1 .. k : order[m] \notin equal =>
           \E p \in 1 .. n : free[p] = order[m] /\ \A j \in 1 .. p - 1 : \E l \in 1 .. m - 1 : order[l] = free[j]
    <3> HIDE DEF n, longer
    <3> QED
      BY <1>3, <1>5, <2>2
  <2>4. \A p \in 1 .. n : \E l \in 1 .. k : order[l] = free[p]
    BY <1>2, <1>4
  <2>5. OrderKept(free, order, equal, k)
    <3> HIDE DEF n
    <3> QED
      BY <1>1, <2>3, <2>4 DEF OrderKept
  <2> QED
    BY <2>1, <2>5
<1>7. CASE order[k] \notin equal \cup Range(free)
  <2>1. longer = Append(free, order[k])
    BY <1>7 DEF Extended
  <2>2. /\ DOMAIN longer = 1 .. n + 1 /\ longer[n + 1] = order[k]
        /\ \A j \in 1 .. n : longer[j] = free[j]
    BY <2>1
  <2> HIDE DEF longer, n
  <2>3. \A p \in 1 .. n + 1 : p \in 1 .. n \/ p = n + 1
    BY <1>1
  <2>4. \A p \in 1 .. n : p \in 1 .. n + 1 /\ \A j \in 1 .. p - 1 : j \in 1 .. n
    BY <1>1
  <2>5. n + 1 \in 1 .. n + 1 /\ \A j \in 1 .. (n + 1) - 1 : j \in 1 .. n
    BY <1>1
  <2>6. \A p \in 1 .. n + 1 : \E l \in 1 .. k : order[l] = longer[p]
    BY <1>2, <1>3, <1>4, <2>2, <2>3
  <2>7. ASSUME NEW m \in 1 .. k - 1, order[m] \notin equal
        PROVE  \E p \in 1 .. n + 1 : /\ longer[p] = order[m]
                                     /\ \A j \in 1 .. p - 1 : \E l \in 1 .. m - 1 : order[l] = longer[j]
    <3>1. PICK p \in 1 .. n : free[p] = order[m] /\ \A j \in 1 .. p - 1 : \E l \in 1 .. m - 1 : order[l] = free[j]
      BY <1>5, <2>7
    <3>2. \A j \in 1 .. p - 1 : longer[j] = free[j]
      BY <2>2, <2>4
    <3>3. longer[p] = order[m] /\ p \in 1 .. n + 1
      BY <2>2, <2>4, <3>1
    <3> QED
      BY <3>1, <3>2, <3>3
  <2>8. \A j \in 1 .. (n + 1) - 1 : \E l \in 1 .. k - 1 : order[l] = longer[j]
    BY <1>4, <2>2, <2>5
  <2>9. \A m \in 1 .. k : order[m] \notin equal =>
           \E p \in 1 .. n + 1 : /\ longer[p] = order[m]
                                 /\ \A j \in 1 .. p - 1 : \E l \in 1 .. m - 1 : order[l] = longer[j]
    BY <1>3, <2>2, <2>5, <2>7, <2>8
  <2>10. OrderKept(longer, order, equal, k)
    <3> DEFINE D == 1 .. n + 1
    <3>1. DOMAIN longer = D /\ \A p \in D : \E l \in 1 .. k : order[l] = longer[p]
      BY <2>2, <2>6
    <3>2. \A m \in 1 .. k : order[m] \notin equal =>
             \E p \in D : /\ longer[p] = order[m]
                         /\ \A j \in 1 .. p - 1 : \E l \in 1 .. m - 1 : order[l] = longer[j]
      BY <2>9
    <3> HIDE DEF D
    <3> QED
      BY <3>1, <3>2, Zenon DEF OrderKept
  <2> QED
    BY <2>10 DEF longer
<1> QED
  BY <1>6, <1>7

\* The columns of the wanted order without one value, in the order that is left.
LEMMA FreeOrderKeeps ==
    ASSUME NEW access, NEW V, access.order \in Seq(V)
    PROVE  /\ FreeOrder(access) \in Seq(V)
           /\ OrderKept(FreeOrder(access), access.order, access.equal, Len(access.order))
<1> DEFINE order == access.order
           n == Len(order)
<1>1. n \in Nat /\ \A i \in 1 .. n : order[i] \in V
  OBVIOUS
<1>2. PICK G \in [0 .. n -> Seq(V)] :
         /\ G[0] = <<>> /\ FreeOrder(access) = G[n]
         /\ \A k \in 1 .. n : G[k] = Extended(G[k - 1], order[k], access.equal)
  BY FreeOrderSteps
<1> DEFINE S == {k \in 0 .. n : OrderKept(G[k], order, access.equal, k)}
<1>3. 0 \in S
  <2>1. OrderKept(<<>>, order, access.equal, 0)
    <3>1. DOMAIN <<>> = {} /\ 1 .. 0 = {}
      OBVIOUS
    <3> HIDE DEF order
    <3> QED
      BY <3>1 DEF OrderKept
  <2>2. OrderKept(G[0], order, access.equal, 0) /\ 0 \in 0 .. n
    <3> HIDE DEF n, order
    <3> QED
      BY <1>1, <1>2, <2>1
  <2> QED
    BY <2>2
<1>4. ASSUME NEW k \in 0 .. n - 1, k \in S
      PROVE  k + 1 \in S
  <2> HIDE DEF n
  <2>1. k + 1 \in 1 .. n /\ (k + 1) - 1 = k /\ k + 1 \in 0 .. n /\ k + 1 \in Nat \ {0} /\ k \in 0 .. n
    BY <1>1
  <2>2. G[k] \in Seq(V) /\ order[k + 1] \in V /\ G[k + 1] = Extended(G[k], order[k + 1], access.equal)
    <3> HIDE DEF order
    <3>1. G[k + 1] = Extended(G[(k + 1) - 1], order[k + 1], access.equal)
      BY <1>2, <2>1
    <3> DEFINE W == Seq(V)
    <3>2. G \in [0 .. n -> W]
      BY <1>2
    <3> HIDE DEF W
    <3>3. G[k] \in W
      BY <2>1, <3>2
    <3> QED
      BY <1>1, <2>1, <3>1, <3>3 DEF W
  <2>3. OrderKept(G[k], order, access.equal, (k + 1) - 1)
    BY <1>4, <2>1
  <2>4. OrderKept(Extended(G[k], order[k + 1], access.equal), order, access.equal, k + 1)
    <3> HIDE DEF order
    <3> QED
      BY <2>1, <2>2, <2>3, ExtendedKeeps
  <2> QED
    BY <2>1, <2>2, <2>4
<1> HIDE DEF S
<1>5. \A k \in 0 .. n : k \in S
  BY <1>1, <1>3, <1>4, UpTo
<1>6. n \in S /\ n \in 0 .. n
  BY <1>1, <1>5
<1>7. G[n] \in Seq(V)
  <2> DEFINE W == Seq(V)
  <2>1. G \in [0 .. n -> W]
    BY <1>2
  <2> HIDE DEF W, n
  <2>2. G[n] \in W
    BY <1>6, <2>1
  <2> QED
    BY <2>2 DEF W
<1>8. OrderKept(G[n], order, access.equal, n)
  BY <1>6 DEF S
<1> QED
  BY <1>2, <1>7, <1>8

\* An index that begins with the columns of one value, and goes on with the order.
LeadsWith(columns, access) ==
    LET n == Cardinality(access.equal)  free == FreeOrder(access)
    IN  /\ Len(columns) >= n + Len(free)
        /\ {columns[i] : i \in 1..n} = access.equal
        /\ \A i \in DOMAIN free : columns[n + i] = free[i]

\* Rows that agree on the columns of one value.
Agree(r, s, columns, n) == \A i \in 1 .. n : r[columns[i]] = s[columns[i]]

\* A row between two that agree on the first columns agrees with them.
LEMMA BetweenAgrees ==
    ASSUME NEW columns, NEW n \in Nat, n <= Len(columns), columns \in Seq({columns[i] : i \in DOMAIN columns}),
           NEW r, NEW s, NEW t,
           \A i \in 1 .. n : r[columns[i]] \in Int /\ s[columns[i]] \in Int /\ t[columns[i]] \in Int,
           Agree(r, s, columns, n), Before(r, t, columns), Before(t, s, columns)
    PROVE  Agree(t, r, columns, n)
<1>1. Len(columns) \in Nat /\ DOMAIN columns = 1 .. Len(columns)
  OBVIOUS
<1> DEFINE a(i) == r[columns[i]]
           b(i) == s[columns[i]]
           d(i) == t[columns[i]]
<1>2. PICK x \in 1 .. Len(columns) : a(x) < d(x) /\ \A m \in 1 .. x - 1 : a(m) = d(m)
  BY <1>1 DEF Before
<1>3. PICK y \in 1 .. Len(columns) : d(y) < b(y) /\ \A m \in 1 .. y - 1 : d(m) = b(m)
  BY <1>1 DEF Before
<1>4. \A i \in 1 .. n : a(i) = b(i) /\ a(i) \in Int /\ b(i) \in Int /\ d(i) \in Int
  BY DEF Agree
<1> HIDE DEF a, b, d
<1>5. x \in Nat /\ y \in Nat /\ x >= 1 /\ y >= 1
  BY <1>1
<1>6. x > n \/ y > n
  <2>1. SUFFICES ASSUME x <= n, y <= n
                 PROVE  FALSE
    BY <1>5
  <2>2. x \in 1 .. n /\ y \in 1 .. n
    BY <1>5, <2>1
  <2>3. CASE x < y
    <3>1. x \in 1 .. y - 1
      BY <1>5, <2>3
    <3> QED
      BY <1>2, <1>3, <1>4, <2>2, <3>1
  <2>4. CASE x = y
    BY <1>2, <1>3, <1>4, <2>2, <2>4
  <2>5. CASE y < x
    <3>1. y \in 1 .. x - 1
      BY <1>5, <2>5
    <3> QED
      BY <1>2, <1>3, <1>4, <2>2, <3>1
  <2> QED
    BY <1>5, <2>3, <2>4, <2>5
<1>7. \A i \in 1 .. n : d(i) = a(i)
  <2>1. CASE x > n
    <3>1. \A i \in 1 .. n : i \in 1 .. x - 1
      BY <1>5, <2>1
    <3> QED
      BY <1>2, <3>1
  <2>2. CASE y > n
    <3>1. \A i \in 1 .. n : i \in 1 .. y - 1
      BY <1>5, <2>2
    <3> QED
      BY <1>3, <1>4, <3>1
  <2> QED
    BY <1>6, <2>1, <2>2
<1> QED
  BY <1>7 DEF Agree, a, d

\* Rows found have the same values in the columns of one value.
LEMMA FoundAgree ==
    ASSUME NEW rows, NEW access, NEW deleted, NEW value
    PROVE  \A r, s \in Found(rows, access, deleted, value) : \A c \in access.equal : r[c] = s[c]
  BY DEF Found

LEMMA FoundLike ==
    ASSUME NEW rows, NEW access, NEW deleted, NEW value, NEW r \in Found(rows, access, deleted, value),
           NEW t \in rows, \A c \in access.equal : t[c] = r[c]
    PROVE  t \in Found(rows, access, deleted, value)
  BY DEF Found

\* Rows that are alike in the columns of one value have the wanted order in the index.
LEMMA OrderIsTheIndexs ==
    ASSUME NEW access, NEW V, access.order \in Seq(V), Cardinality(access.equal) \in Nat,
           NEW columns, columns \in Seq({columns[i] : i \in DOMAIN columns}), LeadsWith(columns, access),
           NEW r, NEW s, \A c \in access.equal : r[c] = s[c] /\ r[c] \in Int,
           Before(r, s, access.order)
    PROVE  Before(r, s, columns)
<1> DEFINE n == Cardinality(access.equal)
           free == FreeOrder(access)
           order == access.order
<1>1. /\ Len(free) \in Nat /\ DOMAIN free = 1 .. Len(free) /\ Len(order) \in Nat /\ DOMAIN order = 1 .. Len(order)
      /\ Len(columns) \in Nat /\ DOMAIN columns = 1 .. Len(columns)
      /\ OrderKept(free, order, access.equal, Len(order))
  <2>1. free \in Seq(V) /\ OrderKept(free, order, access.equal, Len(order))
    BY FreeOrderKeeps
  <2> HIDE DEF free
  <2> QED
    BY <2>1
<1>2. /\ Len(columns) >= n + Len(free) /\ {columns[i] : i \in 1 .. n} = access.equal
      /\ \A i \in 1 .. Len(free) : columns[n + i] = free[i]
  BY <1>1 DEF LeadsWith
<1>3. n \in Nat
  OBVIOUS
<1> HIDE DEF n, free, order
<1>4. PICK m \in 1 .. Len(order) : r[order[m]] < s[order[m]] /\ \A l \in 1 .. m - 1 : r[order[l]] = s[order[l]]
  BY <1>1 DEF Before, order
<1>5. order[m] \notin access.equal
  BY <1>4
<1>6. PICK p \in 1 .. Len(free) : free[p] = order[m] /\ \A j \in 1 .. p - 1 : \E l \in 1 .. m - 1 : order[l] = free[j]
  BY <1>1, <1>5 DEF OrderKept
<1>7. n + p \in DOMAIN columns /\ r[columns[n + p]] < s[columns[n + p]]
  <2>1. n + p \in 1 .. Len(columns)
    <3>1. n \in Nat /\ Len(free) \in Nat /\ Len(columns) \in Nat /\ p \in 1 .. Len(free)
          /\ Len(columns) >= n + Len(free)
      BY <1>1, <1>2, <1>3
    <3> QED
      BY <3>1
  <2>2. columns[n + p] = order[m]
    BY <1>2, <1>6
  <2> QED
    BY <1>1, <1>4, <2>1, <2>2
<1>8. ASSUME NEW i \in 1 .. (n + p) - 1
      PROVE  r[columns[i]] = s[columns[i]]
  <2>1. CASE i <= n
    <3>1. i \in 1 .. n
      BY <1>3, <2>1
    <3>2. columns[i] \in access.equal
      BY <1>2, <3>1
    <3> QED
      BY <3>2
  <2>2. CASE i > n
    <3> DEFINE j == i - n
    <3>1. j \in 1 .. p - 1 /\ j \in 1 .. Len(free) /\ n + j = i
      BY <1>1, <1>3, <2>2
    <3>2. columns[i] = free[j]
      BY <1>2, <3>1
    <3>3. PICK l \in 1 .. m - 1 : order[l] = free[j]
      BY <1>6, <3>1
    <3> QED
      BY <1>4, <3>2, <3>3
  <2> QED
    BY <1>3, <2>1, <2>2
<1> QED
  BY <1>7, <1>8 DEF Before

LEMMA PrefixServes ==
    ASSUME NEW access, NEW V, access.order \in Seq(V), Cardinality(access.equal) \in Nat,
           NEW index, IsSequence(index.columns), LeadsWith(index.columns, access),
           NEW C, access.equal \subseteq C, NEW rows \in SUBSET [C -> Domain], NEW deleted, NEW value
    PROVE  RangeInOrder(index, access, rows, Found(rows, access, deleted, value))
<1> DEFINE columns == index.columns
           found == Found(rows, access, deleted, value)
           n == Cardinality(access.equal)
<1>1. columns \in Seq({columns[i] : i \in DOMAIN columns})
  BY DEF IsSequence
<1>2. found \subseteq rows /\ \A r, s \in found : \A c \in access.equal : r[c] = s[c]
  BY FoundAgree DEF Found
<1>3. \A r \in rows : \A c \in access.equal : r[c] \in Int
  <2>1. Domain \subseteq Int
    BY IndexChecksAssumption
  <2> QED
    BY <2>1
<1>4. n \in Nat /\ Len(columns) \in Nat /\ n <= Len(columns) /\ {columns[i] : i \in 1 .. n} = access.equal
  <2>1. Len(columns) >= n + Len(FreeOrder(access)) /\ {columns[i] : i \in 1 .. n} = access.equal
    BY DEF LeadsWith
  <2>2. Len(FreeOrder(access)) \in Nat
    <3>1. FreeOrder(access) \in Seq(V)
      BY FreeOrderKeeps
    <3> QED
      BY <3>1
  <2>3. Len(columns) \in Nat
    BY <1>1
  <2>4. n \in Nat
    OBVIOUS
  <2> HIDE DEF n, columns
  <2> QED
    BY <2>1, <2>2, <2>3, <2>4
<1> HIDE DEF found, n
<1>5. ASSUME NEW r \in found, NEW s \in found, Before(r, s, access.order)
      PROVE  Before(r, s, columns)
  <2>1. \A c \in access.equal : r[c] = s[c] /\ r[c] \in Int
    BY <1>2, <1>3
  <2> QED
    BY <1>1, <1>5, <2>1, OrderIsTheIndexs
<1>6. ASSUME NEW r \in found, NEW s \in found, NEW t \in rows \ found,
             Before(r, t, columns), Before(t, s, columns)
      PROVE  FALSE
  <2> HIDE DEF columns
  <2>1. \A i \in 1 .. n : columns[i] \in access.equal
    BY <1>4
  <2>2. \A i \in 1 .. n : r[columns[i]] \in Int /\ s[columns[i]] \in Int /\ t[columns[i]] \in Int
    BY <1>2, <1>3, <2>1
  <2>3. Agree(r, s, columns, n)
    BY <1>2, <2>1 DEF Agree
  <2>4. Agree(t, r, columns, n)
    BY <1>1, <1>4, <1>6, <2>2, <2>3, BetweenAgrees
  <2>5. \A c \in access.equal : t[c] = r[c]
    BY <1>4, <2>4 DEF Agree
  <2>6. t \in found
    BY <2>5, FoundLike DEF found
  <2> QED
    BY <1>6, <2>6
<1> QED
  BY <1>5, <1>6 DEF RangeInOrder, found

---------------------------------------------------------------------------
\* A unique index over columns of one value: at most one row.
LEMMA OneFound ==
    ASSUME NEW table, NEW i \in table.indexes, Unique(i), NEW access, NEW value,
           {i.columns[n] : n \in DOMAIN i.columns} \subseteq access.equal, NEW deleted,
           \A c \in access.equal \ deleted : value[c] # NullValue,
           \A n \in DOMAIN i.columns : i.columns[n] \notin deleted,
           NEW rows, Allowed(rows, table)
    PROVE  Cardinality(Found(rows, access, deleted, value)) <= 1
<1> DEFINE found == Found(rows, access, deleted, value)
<1>1. ASSUME NEW r \in found, NEW s \in found, r # s
      PROVE  FALSE
  <2>1. r \in rows /\ s \in rows
    BY DEF Found
  <2>2. PICK n \in DOMAIN i.columns : r[i.columns[n]] # s[i.columns[n]] \/ r[i.columns[n]] = NullValue
    BY <1>1, <2>1 DEF Allowed
  <2>3. i.columns[n] \in access.equal /\ i.columns[n] \notin deleted
    OBVIOUS
  <2>4. r[i.columns[n]] = value[i.columns[n]] /\ s[i.columns[n]] = value[i.columns[n]]
    BY <2>3 DEF Found
  <2> QED
    BY <2>2, <2>3, <2>4
<1> HIDE DEF found
<1>2. found = {} \/ \E r : found = {r}
  <2>1. CASE found # {}
    <3>1. PICK r \in found : TRUE
      BY <2>1
    <3>2. found = {r}
      BY <1>1, <3>1
    <3> QED
      BY <3>2
  <2> QED
    BY <2>1
<1>3. Cardinality({}) = 0 /\ \A r : Cardinality({r}) = 1
  BY FS_EmptySet, FS_Singleton
<1>4. Cardinality(found) <= 1
  <2>1. CASE found = {}
    BY <1>3, <2>1
  <2>2. CASE \E r : found = {r}
    <3>1. Cardinality(found) = 1
      BY <1>3, <2>2
    <3> QED
      BY <3>1
  <2> QED
    BY <1>2, <2>1, <2>2
<1> QED
  BY <1>4 DEF found

\* The access of a query has finitely many columns of one value, and an order.
LEMMA AccessType ==
    ASSUME NEW q \in Queries, Access(q).wanted
    PROVE  /\ Cardinality(Access(q).equal) \in Nat
           /\ \E V : Access(q).order \in Seq(V)
<1> DEFINE access == Access(q)
<1>1. access = [equal |-> DeletedIsNull(q) \cup (IF q.topn = "junction" THEN {TargetKey}
                                                 ELSE EqualityColumns(q.predicates)),
                order |-> IF q.topn = "" THEN [i \in DOMAIN q.order |-> q.order[i].column] ELSE <<SourceKey>>,
                force |-> IF q.topn = "" THEN q.force ELSE "", wanted |-> TRUE]
  BY DEF Access, NoAccess
<1> HIDE DEF access
<1>2. IsFiniteSet(DeletedIsNull(q))
  <2>1. DeletedIsNull(q) \subseteq {SoftDelete}
    BY DEF DeletedIsNull
  <2> QED
    BY <2>1, FS_Singleton, FS_Subset
<1>3. IsFiniteSet(EqualityColumns(q.predicates))
  <2> DEFINE columns == {Nodes[p].column : p \in Predicates}
  <2>1. IsFiniteSet(Predicates)
    BY PredicateNumbers, FS_Interval DEF Predicates
  <2>2. IsFiniteSet(columns)
    <3> DEFINE f == [p \in Predicates |-> Nodes[p].column]
    <3>1. f \in Surjection(Predicates, columns)
      BY DEF Surjection
    <3> QED
      BY <2>1, <3>1, FS_Surjection
  <2>3. EqualityColumns(q.predicates) \subseteq columns
    <3>1. q.predicates \subseteq Predicates
      BY IndexChecksAssumption
    <3>2. \A p \in Predicates : Under[p] \subseteq Predicates
      BY UnderDef
    <3>3. UNION {Under[p] : p \in q.predicates} \subseteq Predicates
      BY <3>1, <3>2
    <3>4. NodesOf(q.predicates) \subseteq {Nodes[p] : p \in Predicates}
      BY <3>3 DEF NodesOf
    <3> QED
      BY <3>4 DEF EqualityColumns
  <2> HIDE DEF columns
  <2> QED
    BY <2>2, <2>3, FS_Subset
<1>4. IsFiniteSet(access.equal)
  <2>1. IsFiniteSet({TargetKey})
    BY FS_Singleton
  <2>2. access.equal = DeletedIsNull(q) \cup {TargetKey} \/ access.equal = DeletedIsNull(q) \cup EqualityColumns(q.predicates)
    BY <1>1
  <2> HIDE DEF access
  <2> QED
    BY <1>2, <1>3, <2>1, <2>2, FS_Union
<1>5. \E V : access.order \in Seq(V)
  <2>1. CASE q.topn = ""
    <3>1. q.order \in Seq({q.order[i] : i \in DOMAIN q.order})
      BY IndexChecksAssumption DEF IsSequence
    <3> DEFINE V == {q.order[i].column : i \in DOMAIN q.order}
    <3>2. [i \in DOMAIN q.order |-> q.order[i].column] \in Seq(V)
      <4>1. Len(q.order) \in Nat /\ DOMAIN q.order = 1 .. Len(q.order)
        BY <3>1
      <4> QED
        BY <4>1
    <3>3. access.order = [i \in DOMAIN q.order |-> q.order[i].column]
      BY <1>1, <2>1
    <3> HIDE DEF access, V
    <3> QED
      BY <3>2, <3>3
  <2>2. CASE q.topn # ""
    <3>1. access.order = <<SourceKey>>
      BY <1>1, <2>2
    <3>2. <<SourceKey>> \in Seq({SourceKey})
      OBVIOUS
    <3> HIDE DEF access
    <3> QED
      BY <3>1, <3>2
  <2> QED
    BY <2>1, <2>2
<1>6. Cardinality(access.equal) \in Nat
  BY <1>4, FS_CardinalityType
<1> QED
  BY <1>5, <1>6 DEF access

\* A SELECT without a finding is served by an index.
LEMMA SelectIsServed ==
    ASSUME NEW q \in Queries, NEW t \in Tables, Access(q).wanted, SelectFinding(Access(q), t) = "none"
    PROVE  LET access == Access(q)
               values == [access.equal -> Domain \ {NullValue}]
           IN  \E i \in t.indexes :
                  /\ Usable(i) /\ access.force \in {"", i.name}
                  /\ \/ i.unique /\ SoftDelete \in {i.columns[n] : n \in DOMAIN i.columns}
                     \/ \A rows \in RowSets(t), value \in values :
                           LET found == Found(rows, access, DeletedIsNull(q), value)
                           IN  Cardinality(found) <= 1 \/ RangeInOrder(i, access, rows, found)
<1> DEFINE access == Access(q)
           deleted == DeletedIsNull(q)
<1>1. Cardinality(access.equal) \in Nat /\ \E V : access.order \in Seq(V)
  BY AccessType
<1>2. access.wanted /\ SelectFinding(access, t) = "none"
  OBVIOUS
<1>3. deleted \subseteq {SoftDelete}
  BY DEF DeletedIsNull
<1> HIDE DEF access, deleted
<1>4. ServingIndexes(access, t) # {} /\ Needed(access) \subseteq t.columns
  BY <1>2 DEF SelectFinding
<1>5. PICK i \in t.indexes : /\ access.force \in {"", i.name} /\ Usable(i)
                             /\ Serves(i, access)
  BY <1>4 DEF ServingIndexes
<1>6. IsSequence(i.columns)
  BY IndexChecksAssumption
<1>7. access.equal \subseteq t.columns
  BY <1>4 DEF Needed
<1>8. \A rows \in RowSets(t) : rows \in SUBSET [t.columns -> Domain] /\ Allowed(rows, t)
  <2>1. \A rows \in RowSets(t) : Allowed(rows, t) /\ \E r, s, u \in AllRows(t) : rows = {r, s, u}
    BY DEF RowSets
  <2> QED
    BY <2>1 DEF AllRows
<1>9. CASE LeadsWith(i.columns, access)
  <2>1. PICK V : access.order \in Seq(V)
    BY <1>1
  <2>2. \A rows \in RowSets(t) : \A value : RangeInOrder(i, access, rows, Found(rows, access, deleted, value))
    BY <1>1, <1>6, <1>7, <1>8, <1>9, <2>1, PrefixServes
  <2> QED
    BY <1>5, <2>2 DEF access, deleted
<1>10. CASE Unique(i) /\ {i.columns[n] : n \in DOMAIN i.columns} \subseteq access.equal
  <2>1. i.unique
    BY <1>10 DEF Unique
  <2>2. CASE SoftDelete \in {i.columns[n] : n \in DOMAIN i.columns}
    BY <1>5, <2>1, <2>2 DEF access
  <2>3. CASE SoftDelete \notin {i.columns[n] : n \in DOMAIN i.columns}
    <3>1. \A n \in DOMAIN i.columns : i.columns[n] \notin deleted
      BY <1>3, <2>3
    <3>2. ASSUME NEW rows \in RowSets(t), NEW value \in [access.equal -> Domain \ {NullValue}]
          PROVE  Cardinality(Found(rows, access, deleted, value)) <= 1
      <4>1. \A c \in access.equal \ deleted : value[c] # NullValue
        BY <3>2
      <4> QED
        BY <1>8, <1>10, <3>1, <3>2, <4>1, OneFound
    <3> QED
      BY <1>5, <3>2 DEF access, deleted
  <2> QED
    BY <2>2, <2>3
<1>11. LeadsWith(i.columns, access) \/ (Unique(i) /\ {i.columns[n] : n \in DOMAIN i.columns} \subseteq access.equal)
  BY <1>5 DEF Serves, LeadsWith
<1> QED
  BY <1>9, <1>10, <1>11

LEMMA InvServesSelects == ASSUME AuditInv PROVE OrderedAccessesServed
<1>1. SUFFICES ASSUME audit.kind = "select", audit.code = "none", Access(audit.of).wanted
               PROVE  OrderedAccessesServed
  BY Zenon DEF OrderedAccessesServed
<1>2. PICK q \in Queries, t \in Tables :
         audit = [kind |-> "select", of |-> q, table |-> t, code |-> SelectFinding(Access(q), t)]
  BY <1>1 DEF AuditInv
<1>3. audit.of = q /\ audit.table = t /\ SelectFinding(Access(q), t) = "none" /\ Access(q).wanted
  BY <1>1, <1>2
<1> QED
  BY <1>3, SelectIsServed, Zenon DEF OrderedAccessesServed

---------------------------------------------------------------------------
(* Models and their relations.                                               *)

\* Sequences of one length, one of them without repetition: their elements.
LEMMA SameElements ==
    ASSUME NEW n \in Nat, NEW f, DOMAIN f = 1 .. n, IsInjective(f),
           NEW g, DOMAIN g = 1 .. n, Range(f) \subseteq Range(g)
    PROVE  Range(f) = Range(g)
<1> DEFINE A == Range(f)
           B == Range(g)
<1>1. IsFiniteSet(1 .. n) /\ Cardinality(1 .. n) = n
  BY FS_Interval
<1>2. [i \in 1 .. n |-> f[i]] \in Surjection(1 .. n, A) /\ [i \in 1 .. n |-> g[i]] \in Surjection(1 .. n, B)
  BY DEF Surjection, Range
<1>3. [i \in 1 .. n |-> f[i]] \in Injection(1 .. n, A)
  BY <1>2 DEF IsInjective, Injection, Surjection
<1> HIDE DEF A, B
<1>4. IsFiniteSet(A) /\ IsFiniteSet(B) /\ Cardinality(B) <= n
  BY <1>1, <1>2, FS_Surjection
<1>5. Cardinality(A) = n
  BY <1>1, <1>2, <1>3, FS_Surjection
<1>6. Cardinality(A) \in Nat /\ Cardinality(B) \in Nat /\ Cardinality(A) <= Cardinality(B)
  BY <1>4, FS_Subset, FS_CardinalityType DEF A, B
<1>7. Cardinality(A) = Cardinality(B)
  BY <1>4, <1>5, <1>6
<1> QED
  BY <1>4, <1>7, FS_Subset DEF A, B

LEMMA NoCodes ==
    ASSUME NEW cases, Codes(cases) = {}
    PROVE  \A d \in cases : ~ d[2]
  BY DEF Codes

\* A unique index over these columns, or some of them, leaves one row to a value.
LEMMA UniqueNamesOne ==
    ASSUME NEW t, NEW columns, NEW i \in t.indexes, Unique(i), Range(i.columns) \subseteq columns
    PROVE  NameOneRow(t, columns)
<1>1. SUFFICES ASSUME NEW r \in StoredRows(t), NEW s \in StoredRows(t), r # s, Allowed({r, s}, t),
                      \A c \in columns : r[c] # NullValue
               PROVE  \E c \in columns : r[c] # s[c]
  BY Zenon DEF NameOneRow
<1>2. PICK n \in DOMAIN i.columns : r[i.columns[n]] # s[i.columns[n]] \/ r[i.columns[n]] = NullValue
  BY <1>1 DEF Allowed
<1>3. i.columns[n] \in columns
  BY DEF Range
<1> QED
  BY <1>1, <1>2, <1>3

LEMMA KeyNamesOne ==
    ASSUME NEW t, NEW columns, UniqueKey(t, columns)
    PROVE  NameOneRow(t, columns)
  BY UniqueNamesOne DEF UniqueKey

\* The rows of a key are one range of an index that begins with its columns.
LEMMA PrefixIsOneRange ==
    ASSUME NEW t, NEW columns, NEW i \in t.indexes, Usable(i), IsSequence(i.columns),
           NEW n \in Nat, n <= Len(i.columns), columns = {i.columns[j] : j \in 1 .. n},
           columns \subseteq DOMAIN t.columns
    PROVE  KeyIsOneRange(t, columns)
<1>1. ASSUME NEW r \in StoredRows(t), NEW s \in StoredRows(t), NEW u \in StoredRows(t),
             \A c \in columns : r[c] = s[c], \E c \in columns : r[c] # u[c],
             Before(r, u, i.columns), Before(u, s, i.columns)
      PROVE  FALSE
  <2>1. i.columns \in Seq({i.columns[j] : j \in DOMAIN i.columns})
    BY DEF IsSequence
  <2>2. \A row \in StoredRows(t) : \A c \in DOMAIN t.columns : row[c] \in Int
    <3>1. ColumnValues \subseteq Int
      BY SchemaChecksAssumption
    <3> QED
      BY <3>1 DEF StoredRows
  <2>3. \A j \in 1 .. n : i.columns[j] \in columns /\ i.columns[j] \in DOMAIN t.columns
    OBVIOUS
  <2>4. Agree(r, s, i.columns, n)
    BY <1>1, <2>3 DEF Agree
  <2>5. \A j \in 1 .. n : r[i.columns[j]] \in Int /\ s[i.columns[j]] \in Int /\ u[i.columns[j]] \in Int
    BY <2>2, <2>3
  <2>6. Agree(u, r, i.columns, n)
    BY <1>1, <2>1, <2>4, <2>5, BetweenAgrees
  <2> QED
    BY <1>1, <2>6 DEF Agree
<1> QED
  BY <1>1 DEF KeyIsOneRange

LEMMA FirstColumns ==
    ASSUME NEW columns, IsSequence(columns), NEW n \in Nat, n <= Len(columns)
    PROVE  LET first == SubSeq(columns, 1, n)
           IN  /\ DOMAIN first = 1 .. n /\ Len(first) = n
               /\ Range(first) = {columns[j] : j \in 1 .. n}
<1>1. columns \in Seq({columns[i] : i \in DOMAIN columns})
  BY DEF IsSequence
<1>2. DOMAIN SubSeq(columns, 1, n) = 1 .. n /\ Len(SubSeq(columns, 1, n)) = n
  BY <1>1
<1>3. \A j \in 1 .. n : SubSeq(columns, 1, n)[j] = columns[j]
  BY <1>1
<1> QED
  BY <1>2, <1>3 DEF Range

LEMMA IndexPrefixIsOneRange ==
    ASSUME NEW t, TableType(t), NEW columns, IsSequence(columns), IsInjective(columns),
           Range(columns) \subseteq DOMAIN t.columns, IndexPrefix(t, columns)
    PROVE  KeyIsOneRange(t, Range(columns))
<1> DEFINE n == Len(columns)
<1>1. n \in Nat /\ DOMAIN columns = 1 .. n
  BY DEF IsSequence
<1>2. PICK i \in t.indexes : /\ Usable(i) /\ Len(i.columns) >= n
                             /\ Range(columns) \subseteq Range(SubSeq(i.columns, 1, n))
  BY DEF IndexPrefix
<1>3. IsSequence(i.columns) /\ Len(i.columns) \in Nat
  BY DEF TableType, IsSequence
<1> HIDE DEF n
<1>4. /\ DOMAIN SubSeq(i.columns, 1, n) = 1 .. n
      /\ Range(SubSeq(i.columns, 1, n)) = {i.columns[j] : j \in 1 .. n}
  BY <1>1, <1>2, <1>3, FirstColumns
<1>5. Range(columns) = {i.columns[j] : j \in 1 .. n}
  BY <1>1, <1>2, <1>4, SameElements
<1> QED
  BY <1>1, <1>2, <1>3, <1>5, PrefixIsOneRange

LEMMA SourceIndexedIsOneRange ==
    ASSUME NEW t, TableType(t), NEW source, IsSequence(source),
           Range(source) \subseteq DOMAIN t.columns, SourceIndexed(t, source)
    PROVE  KeyIsOneRange(t, Range(source))
<1> DEFINE n == Len(source)
<1>1. n \in Nat /\ DOMAIN source = 1 .. n
  BY DEF IsSequence
<1>2. PICK i \in t.indexes : Usable(i) /\ Len(i.columns) >= n /\ SameSet(SubSeq(i.columns, 1, n), source)
  BY DEF SourceIndexed
<1>3. IsSequence(i.columns) /\ Len(i.columns) \in Nat
  BY DEF TableType, IsSequence
<1> HIDE DEF n
<1>4. /\ DOMAIN SubSeq(i.columns, 1, n) = 1 .. n
      /\ Range(SubSeq(i.columns, 1, n)) = {i.columns[j] : j \in 1 .. n}
  BY <1>1, <1>2, <1>3, FirstColumns
<1>5. IsInjective(SubSeq(i.columns, 1, n)) /\ Range(SubSeq(i.columns, 1, n)) \subseteq Range(source)
  BY <1>2 DEF SameSet
<1>6. Range(source) = {i.columns[j] : j \in 1 .. n}
  BY <1>1, <1>4, <1>5, SameElements
<1> QED
  BY <1>1, <1>2, <1>3, <1>6, PrefixIsOneRange

\* What the code of each check says of the field and its column.
LEMMA ColumnAccepted ==
    ASSUME NEW f, NEW t, ColumnCodes(f, t) = {}
    PROVE  /\ f.column \in DOMAIN t.columns
           /\ Compatible(f, t.columns[f.column].type)
           /\ ~ OwnRepresentation(f) /\ t.columns[f.column].nullable => f.null
           /\ ~ OwnRepresentation(f) /\ f.null => t.columns[f.column].nullable
           /\ f.auto = (t.columns[f.column].auto = "random")
           /\ ~ t.columns[f.column].generated
<1> DEFINE c == t.columns[f.column]
           cases == {<<"CMP004", ~Compatible(f, c.type)>>,
                     <<"CMP005", ~OwnRepresentation(f) /\ c.nullable /\ ~f.null>>,
                     <<"CMP006", ~OwnRepresentation(f) /\ ~c.nullable /\ f.null>>,
                     <<"CMP008", f.auto # (c.auto = "random")>>,
                     <<"CMP009", c.generated>>}
<1>1. f.column \in DOMAIN t.columns
  BY DEF ColumnCodes
<1>2. Codes(cases) = {}
  BY <1>1, Zenon DEF ColumnCodes
<1>3. \A d \in cases : ~ d[2]
  <2> HIDE DEF cases
  <2> QED
    BY <1>2, NoCodes
<1>4. /\ ~ ~ Compatible(f, c.type) /\ ~ (~OwnRepresentation(f) /\ c.nullable /\ ~f.null)
      /\ ~ (~OwnRepresentation(f) /\ ~c.nullable /\ f.null)
      /\ ~ (f.auto # (c.auto = "random")) /\ ~ c.generated
  <2> HIDE DEF c
  <2>1. /\ <<"CMP004", ~Compatible(f, c.type)>> \in cases
        /\ <<"CMP005", ~OwnRepresentation(f) /\ c.nullable /\ ~f.null>> \in cases
        /\ <<"CMP006", ~OwnRepresentation(f) /\ ~c.nullable /\ f.null>> \in cases
        /\ <<"CMP008", f.auto # (c.auto = "random")>> \in cases
        /\ <<"CMP009", c.generated>> \in cases
    OBVIOUS
  <2> HIDE DEF cases
  <2>2. ~ (<<"CMP004", ~Compatible(f, c.type)>>)[2] /\ ~ (<<"CMP009", c.generated>>)[2]
    BY <1>3, <2>1
  <2>3. ~ (<<"CMP005", ~OwnRepresentation(f) /\ c.nullable /\ ~f.null>>)[2]
    BY <1>3, <2>1
  <2>4. ~ (<<"CMP006", ~OwnRepresentation(f) /\ ~c.nullable /\ f.null>>)[2]
    BY <1>3, <2>1
  <2>5. ~ (<<"CMP008", f.auto # (c.auto = "random")>>)[2]
    BY <1>3, <2>1
  <2> QED
    BY <2>2, <2>3, <2>4, <2>5, Zenon
<1> QED
  BY <1>1, <1>4, Zenon

LEMMA CaseIs == \A code, fails : Codes({<<code, fails>>}) = {} => ~ fails
<1> SUFFICES ASSUME NEW code, NEW fails, Codes({<<code, fails>>}) = {} PROVE ~ fails
  OBVIOUS
<1>1. ~ (<<code, fails>>)[2]
  BY NoCodes
<1> QED
  BY <1>1

LEMMA NothingInBoth == \A A, B : A \cup B = {} => A = {} /\ B = {}
  OBVIOUS

\* A model whose table has no finding.
LEMMA ModelAccepted ==
    ASSUME NEW m \in AppModels, NEW catalog \in Catalogs, ModelCodes(m, catalog) = {}
    PROVE  /\ m.table \in DOMAIN catalog
           /\ \A i \in DOMAIN m.fields : ColumnCodes(m.fields[i], catalog[m.table]) = {}
           /\ m.key # <<>> => m.key = PrimaryKey(catalog[m.table])
           /\ \A key \in m.uniques : UniqueKey(catalog[m.table], key)
           /\ Unfilled(catalog[m.table], Range(ColumnsOf(m.fields))) = {}
           /\ \A r \in m.relations : TargetCodes(r, catalog) = {} /\ JunctionCodes(r, catalog) = {}
<1> DEFINE t == catalog[m.table]
<1>1. m.table \in DOMAIN catalog
  BY DEF ModelCodes
<1> DEFINE ofFields == UNION {ColumnCodes(m.fields[i], t) : i \in DOMAIN m.fields}
           ofRelations == UNION {TargetCodes(r, catalog) \cup JunctionCodes(r, catalog) : r \in m.relations}
<1>2. /\ ofFields = {} /\ ofRelations = {}
      /\ PrimaryKeyCodes(m, t) = {} /\ CandidateKeyCodes(m.uniques, t) = {} /\ RequiredCodes(m, t) = {}
  <2>1. ofFields \cup PrimaryKeyCodes(m, t) \cup CandidateKeyCodes(m.uniques, t) \cup RequiredCodes(m, t)
        \cup ofRelations = {}
    BY <1>1, Zenon DEF ModelCodes
  <2>2. \A A, B : A \cup B = {} => A = {} /\ B = {}
    BY NothingInBoth
  <2> HIDE DEF ofFields, ofRelations, t
  <2>3. ofFields \cup PrimaryKeyCodes(m, t) \cup CandidateKeyCodes(m.uniques, t) = {}
        /\ RequiredCodes(m, t) = {} /\ ofRelations = {}
    BY <2>1, <2>2, Zenon
  <2> QED
    BY <2>2, <2>3, Zenon
<1> HIDE DEF t
<1>3. \A i \in DOMAIN m.fields : ColumnCodes(m.fields[i], t) = {}
  BY <1>2
<1>4. \A r \in m.relations : TargetCodes(r, catalog) = {} /\ JunctionCodes(r, catalog) = {}
  BY <1>2
<1>5. ~ (m.key # <<>> /\ m.key # PrimaryKey(t))
  BY <1>2, CaseIs, Zenon DEF PrimaryKeyCodes
<1>6. ~ \E key \in m.uniques : ~ UniqueKey(t, key)
  BY <1>2, CaseIs, Zenon DEF CandidateKeyCodes
<1>7. ~ (Unfilled(t, Range(ColumnsOf(m.fields))) # {})
  BY <1>2, CaseIs, Zenon DEF RequiredCodes
<1> QED
  BY <1>1, <1>3, <1>4, <1>5, <1>6, <1>7, Zenon DEF t

\* Every value of the model can be inserted.
LEMMA InsertsAreAccepted ==
    ASSUME NEW m, Range(m.fields) \subseteq FieldType, NEW t, TableType(t),
           \A i \in DOMAIN m.fields : ColumnCodes(m.fields[i], t) = {},
           Unfilled(t, Range(ColumnsOf(m.fields))) = {}
    PROVE  InsertsSucceed(m, t)
<1> DEFINE D == {m.fields[i].column : i \in Written(m)}
           Row(null) == [c \in D |-> IF \E i \in null : m.fields[i].column = c THEN NullValue ELSE 1]
<1>1. \A i \in DOMAIN m.fields :
         /\ m.fields[i].column \in DOMAIN t.columns
         /\ ~ OwnRepresentation(m.fields[i]) /\ m.fields[i].null => t.columns[m.fields[i].column].nullable
         /\ m.fields[i].auto = (t.columns[m.fields[i].column].auto = "random")
         /\ ~ t.columns[m.fields[i].column].generated
  BY ColumnAccepted
<1>2. \A i \in Written(m) : i \in DOMAIN m.fields /\ ~ m.fields[i].auto
  BY DEF Written
<1>3. D \subseteq DOMAIN t.columns
  BY <1>1, <1>2
<1>4. \A c \in D : ~ t.columns[c].generated /\ t.columns[c].auto # "random"
  BY <1>1, <1>2
<1>5. Unfilled(t, D) = {}
  <2>1. SUFFICES ASSUME NEW c \in DOMAIN t.columns \ D, NeedsValue(t.columns[c])
                 PROVE  FALSE
    BY DEF Unfilled
  <2>2. c \in Range(ColumnsOf(m.fields))
    BY <2>1 DEF Unfilled
  <2>3. PICK i \in DOMAIN m.fields : m.fields[i].column = c
    BY <2>2 DEF Range, ColumnsOf
  <2>4. i \notin Written(m)
    BY <2>1, <2>3
  <2>5. m.fields[i].auto
    BY <2>3, <2>4 DEF Written
  <2>6. t.columns[c].auto = "random"
    BY <1>1, <2>3, <2>5
  <2> QED
    BY <2>1, <2>6 DEF NeedsValue
<1>6. ASSUME NEW null \in SUBSET {i \in Written(m) : m.fields[i].null /\ ~OwnRepresentation(m.fields[i])},
             NEW c \in D, Row(null)[c] = NullValue
      PROVE  t.columns[c].nullable
  <2>1. NullValue # 1
    BY SchemaChecksAssumption
  <2>2. PICK i \in null : m.fields[i].column = c
    BY <1>6, <2>1
  <2> QED
    BY <1>1, <1>2, <2>2
<1>7. ASSUME NEW null \in SUBSET {i \in Written(m) : m.fields[i].null /\ ~OwnRepresentation(m.fields[i])}
      PROVE  Executes(t, Row(null))
  <2>1. DOMAIN Row(null) = D
    OBVIOUS
  <2>2. \A c \in D : Row(null)[c] = NullValue => t.columns[c].nullable
    BY <1>6
  <2> HIDE DEF Row, D
  <2> QED
    BY <1>3, <1>4, <1>5, <2>1, <2>2 DEF Executes
<1> QED
  BY <1>7, Zenon DEF InsertsSucceed

\* Every row a table can hold can be read into the model.
LEMMA RowsAreDecoded ==
    ASSUME NEW m, Range(m.fields) \subseteq FieldType, NEW t,
           \A i \in DOMAIN m.fields : ColumnCodes(m.fields[i], t) = {}
    PROVE  RowsDecode(m, t)
<1>1. \A i \in DOMAIN m.fields :
         LET f == m.fields[i]
         IN  /\ f.column \in DOMAIN t.columns
             /\ Compatible(f, t.columns[f.column].type)
             /\ ~ OwnRepresentation(f) /\ t.columns[f.column].nullable => f.null
  BY ColumnAccepted
<1>2. ASSUME NEW f \in FieldType, NEW type \in KnownTypes, ~ OwnRepresentation(f), Compatible(f, type)
      PROVE  Convertible(f.kind, type)
  <2>1. f.kind \in Native
    BY <1>2 DEF FieldType, OwnRepresentation
  <2>2. type \in Families[f.kind]
    BY <1>2 DEF Compatible
  <2>3. CASE f.kind = "bool"
    BY <2>2, <2>3 DEF Families, Convertible
  <2>4. CASE f.kind = "int"
    BY <2>2, <2>4 DEF Families, Convertible
  <2>5. CASE f.kind = "float"
    BY <2>2, <2>5 DEF Families, Convertible
  <2>6. CASE f.kind \in {"string", "bytes"}
    BY <2>6 DEF Convertible
  <2>7. CASE f.kind = "time"
    BY <2>2, <2>7 DEF Families, Convertible
  <2> QED
    BY <2>1, <2>3, <2>4, <2>5, <2>6, <2>7 DEF Native
<1>3. \A i \in DOMAIN m.fields : m.fields[i] \in FieldType
  BY DEF Range
<1> QED
  BY <1>1, <1>2, <1>3 DEF RowsDecode

LEMMA KeysArePresent ==
    ASSUME NEW fields, NEW columns, NEW t, DOMAIN columns = DOMAIN fields, KeyCodes(fields, columns, t) = {}
    PROVE  Present(columns, t)
<1>1. ASSUME NEW i \in DOMAIN fields
      PROVE  columns[i] \in DOMAIN t.columns
  <2>1. SUFFICES ASSUME columns[i] \notin DOMAIN t.columns
                 PROVE  "CMP003" \in KeyCodes(fields, columns, t)
    OBVIOUS
  <2> QED
    BY <2>1 DEF KeyCodes
<1> QED
  BY <1>1 DEF Present, Range

LEMMA TargetAccepted ==
    ASSUME NEW r, RelationType(r), NEW catalog, \A name \in DOMAIN catalog : TableType(catalog[name]),
           TargetCodes(r, catalog) = {}
    PROVE  /\ \A unique \in r.uniques : NameOneRow(catalog[r.target], unique)
           /\ r.kind = "many" => KeyIsOneRange(catalog[r.target], Range(ColumnsOf(r.fields)))
           /\ r.kind # "many" => NameOneRow(catalog[r.target], Range(ColumnsOf(r.fields)))
<1> DEFINE t == catalog[r.target]
           columns == ColumnsOf(r.fields)
<1>1. r.target \in DOMAIN catalog
  BY DEF TargetCodes
<1>2. /\ CandidateKeyCodes(r.uniques, t) = {} /\ KeyCodes(r.fields, columns, t) = {}
      /\ (IF ~Present(columns, t) THEN {}
          ELSE IF r.kind = "many" THEN Codes({<<"CMP014", ~IndexPrefix(t, columns)>>})
          ELSE Codes({<<"CMP011", ~UniqueKey(t, Range(columns))>>})) = {}
  <2>1. CandidateKeyCodes(r.uniques, t) \cup KeyCodes(r.fields, columns, t)
        \cup (IF ~Present(columns, t) THEN {}
              ELSE IF r.kind = "many" THEN Codes({<<"CMP014", ~IndexPrefix(t, columns)>>})
              ELSE Codes({<<"CMP011", ~UniqueKey(t, Range(columns))>>})) = {}
    BY <1>1, Zenon DEF TargetCodes
  <2>2. \A A, B, C : A \cup B \cup C = {} => A = {} /\ B = {} /\ C = {}
    OBVIOUS
  <2> QED
    BY <2>1, <2>2, Zenon
<1>3. DOMAIN columns = DOMAIN r.fields /\ \A i \in DOMAIN r.fields : columns[i] = r.fields[i].column
  BY DEF ColumnsOf
<1>4. IsSequence(columns) /\ IsInjective(columns)
  <2>1. IsSequence(r.fields) /\ \A i, j \in DOMAIN r.fields : r.fields[i].column = r.fields[j].column => i = j
    BY DEF RelationType
  <2>2. Len(r.fields) \in Nat /\ DOMAIN r.fields = 1 .. Len(r.fields)
    BY <2>1 DEF IsSequence
  <2>3. IsInjective(columns)
    BY <1>3, <2>1 DEF IsInjective
  <2>4. columns \in Seq({columns[i] : i \in DOMAIN columns})
    BY <2>2 DEF ColumnsOf
  <2> QED
    BY <2>3, <2>4 DEF IsSequence
<1> HIDE DEF columns, t
<1>5. Present(columns, t)
  BY <1>2, <1>3, KeysArePresent
<1>6. TableType(t)
  BY <1>1 DEF t
<1>7. \A unique \in r.uniques : NameOneRow(t, unique)
  <2>1. ~ \E key \in r.uniques : ~ UniqueKey(t, key)
    BY <1>2, CaseIs, Zenon DEF CandidateKeyCodes
  <2> QED
    BY <2>1, KeyNamesOne
<1>8. r.kind = "many" => KeyIsOneRange(t, Range(columns))
  <2>1. SUFFICES ASSUME r.kind = "many" PROVE KeyIsOneRange(t, Range(columns))
    OBVIOUS
  <2>2. Codes({<<"CMP014", ~IndexPrefix(t, columns)>>}) = {}
    BY <1>2, <1>5, <2>1, Zenon
  <2>3. IndexPrefix(t, columns)
    BY <2>2, CaseIs, Zenon
  <2>4. Range(columns) \subseteq DOMAIN t.columns
    BY <1>5 DEF Present
  <2> QED
    BY <1>4, <1>6, <2>3, <2>4, IndexPrefixIsOneRange
<1>9. r.kind # "many" => NameOneRow(t, Range(columns))
  <2>1. SUFFICES ASSUME r.kind # "many" PROVE NameOneRow(t, Range(columns))
    OBVIOUS
  <2>2. Codes({<<"CMP011", ~UniqueKey(t, Range(columns))>>}) = {}
    BY <1>2, <1>5, <2>1, Zenon
  <2>3. UniqueKey(t, Range(columns))
    BY <2>2, CaseIs, Zenon
  <2> QED
    BY <2>3, KeyNamesOne
<1> QED
  BY <1>7, <1>8, <1>9 DEF t, columns

LEMMA RangeOfBoth ==
    ASSUME NEW s, IsSequence(s), NEW u, IsSequence(u)
    PROVE  Range(s \o u) = Range(s) \cup Range(u)
<1>1. /\ Len(s) \in Nat /\ DOMAIN s = 1 .. Len(s) /\ Len(u) \in Nat /\ DOMAIN u = 1 .. Len(u)
  BY DEF IsSequence
<1> DEFINE both == s \o u
           n == Len(s)
           k == Len(u)
<1>2. DOMAIN both = 1 .. n + k /\ \A i \in 1 .. n + k : both[i] = IF i <= n THEN s[i] ELSE u[i - n]
  <2> DEFINE V == {s[i] : i \in DOMAIN s} \cup {u[i] : i \in DOMAIN u}
  <2>1. s \in Seq(V) /\ u \in Seq(V)
    BY DEF IsSequence
  <2> HIDE DEF V
  <2> QED
    BY <2>1
<1> HIDE DEF both, n, k
<1>3. n \in Nat /\ k \in Nat /\ DOMAIN s = 1 .. n /\ DOMAIN u = 1 .. k
  BY <1>1 DEF n, k
<1>4. ASSUME NEW i \in 1 .. n + k
      PROVE  both[i] \in Range(s) \cup Range(u)
  <2>1. CASE i <= n
    <3>1. i \in 1 .. n
      BY <1>3, <2>1
    <3> QED
      BY <1>2, <1>3, <2>1, <3>1 DEF Range
  <2>2. CASE ~ (i <= n)
    <3>1. i - n \in 1 .. k
      BY <1>3, <2>2
    <3> QED
      BY <1>2, <1>3, <2>2, <3>1 DEF Range
  <2> QED
    BY <2>1, <2>2
<1>5. ASSUME NEW i \in 1 .. n
      PROVE  s[i] \in Range(both)
  <2>1. i \in 1 .. n + k /\ i <= n
    BY <1>3
  <2>2. both[i] = s[i]
    BY <1>2, <2>1
  <2> QED
    BY <1>2, <2>1, <2>2 DEF Range
<1>6. ASSUME NEW i \in 1 .. k
      PROVE  u[i] \in Range(both)
  <2>1. n + i \in 1 .. n + k /\ ~ (n + i <= n) /\ (n + i) - n = i
    BY <1>3
  <2>2. both[n + i] = u[i]
    BY <1>2, <2>1
  <2> QED
    BY <1>2, <2>1, <2>2 DEF Range
<1>7. Range(both) \subseteq Range(s) \cup Range(u)
  BY <1>2, <1>4 DEF Range
<1>8. Range(s) \subseteq Range(both) /\ Range(u) \subseteq Range(both)
  BY <1>3, <1>5, <1>6 DEF Range
<1> QED
  BY <1>7, <1>8 DEF both

\* The columns of a pure junction's pair can be given values.
PairIsStored(r, j) ==
    \A c \in Range(Pair(r)) \cap DOMAIN j.columns : ~ j.columns[c].generated /\ j.columns[c].auto # "random"

LEMMA NothingDeleted == DOMAIN <<>> = {}
  OBVIOUS

LEMMA JunctionAccepted ==
    ASSUME NEW r, RelationType(r), r.kind = "through", NEW catalog,
           \A name \in DOMAIN catalog : TableType(catalog[name]),
           JunctionCodes(r, catalog) = {},
           r.edge = "" /\ r.junction \in DOMAIN catalog => PairIsStored(r, catalog[r.junction])
    PROVE  LET j == catalog[r.junction]
           IN  /\ KeyIsOneRange(j, Range(r.sourceColumns))
               /\ r.edge = "" => /\ NameOneRow(j, Range(Pair(r)))
                                 /\ Executes(j, [c \in Range(Pair(r)) |-> 1])
               /\ Present(ColumnsOf(r.deleted), j)
<1> DEFINE j == catalog[r.junction]
<1>1. r.junction \in DOMAIN catalog
  BY Zenon DEF JunctionCodes
<1>2. /\ KeyCodes(r.source, r.sourceColumns, j) = {} /\ KeyCodes(r.fields, r.targetColumns, j) = {}
      /\ Present(Pair(r), j) => PairCodes(r, j) = {}
  <2>1. KeyCodes(r.source, r.sourceColumns, j) \cup KeyCodes(r.fields, r.targetColumns, j)
        \cup (IF Present(Pair(r), j) THEN PairCodes(r, j) ELSE {}) = {}
    BY <1>1, Zenon DEF JunctionCodes
  <2>2. \A A, B, C : A \cup B \cup C = {} => A = {} /\ B = {} /\ C = {}
    OBVIOUS
  <2> QED
    BY <2>1, <2>2, Zenon
<1>3. /\ IsSequence(r.sourceColumns) /\ IsSequence(r.targetColumns)
      /\ DOMAIN r.source = DOMAIN r.sourceColumns /\ DOMAIN r.fields = DOMAIN r.targetColumns
      /\ r.edge = "" => r.deleted = <<>>
  BY DEF RelationType
<1>4. TableType(j)
  BY <1>1
<1>5. r.edge = "" => PairIsStored(r, j)
  BY <1>1
<1> HIDE DEF j
<1>6. Range(Pair(r)) = Range(r.sourceColumns) \cup Range(r.targetColumns)
  BY <1>3, RangeOfBoth DEF Pair
<1>7. Present(r.sourceColumns, j) /\ Present(r.targetColumns, j)
  BY <1>2, <1>3, KeysArePresent
<1>8. Range(Pair(r)) \subseteq DOMAIN j.columns /\ Present(Pair(r), j)
  BY <1>6, <1>7 DEF Present
<1> DEFINE cases == {<<"CMP012", r.edge = "" /\ ~PairUnique(j, Pair(r))>>,
                     <<"CMP014", ~SourceIndexed(j, r.sourceColumns)>>,
                     <<"CMP013", r.edge = "" /\ Unfilled(j, Range(Pair(r))) # {}>>}
<1>9. Codes(cases) = {} /\ (r.edge # "" => KeyCodes(r.deleted, ColumnsOf(r.deleted), j) = {})
  <2>1. Codes(cases) \cup (IF r.edge = "" THEN {} ELSE KeyCodes(r.deleted, ColumnsOf(r.deleted), j)) = {}
    BY <1>2, <1>8, Zenon DEF PairCodes
  <2> HIDE DEF cases
  <2> QED
    BY <2>1
<1>10. /\ ~ (r.edge = "" /\ ~PairUnique(j, Pair(r))) /\ ~ ~SourceIndexed(j, r.sourceColumns)
       /\ ~ (r.edge = "" /\ Unfilled(j, Range(Pair(r))) # {})
  <2>1. \A d \in cases : ~ d[2]
    <3> HIDE DEF cases
    <3> QED
      BY <1>9, NoCodes
  <2>2. /\ <<"CMP012", r.edge = "" /\ ~PairUnique(j, Pair(r))>> \in cases
        /\ <<"CMP014", ~SourceIndexed(j, r.sourceColumns)>> \in cases
        /\ <<"CMP013", r.edge = "" /\ Unfilled(j, Range(Pair(r))) # {}>> \in cases
    OBVIOUS
  <2> HIDE DEF cases
  <2>3. ~ (<<"CMP012", r.edge = "" /\ ~PairUnique(j, Pair(r))>>)[2]
    BY <2>1, <2>2
  <2>4. ~ (<<"CMP014", ~SourceIndexed(j, r.sourceColumns)>>)[2]
    BY <2>1, <2>2
  <2>5. ~ (<<"CMP013", r.edge = "" /\ Unfilled(j, Range(Pair(r))) # {}>>)[2]
    BY <2>1, <2>2
  <2> QED
    BY <2>3, <2>4, <2>5, Zenon
<1>11. KeyIsOneRange(j, Range(r.sourceColumns))
  <2>1. Range(r.sourceColumns) \subseteq DOMAIN j.columns
    BY <1>6, <1>8
  <2> QED
    BY <1>3, <1>4, <1>10, <2>1, SourceIndexedIsOneRange
<1>12. ASSUME r.edge = ""
       PROVE  NameOneRow(j, Range(Pair(r)))
  <2>1. PICK i \in j.indexes : Unique(i) /\ SameSet(i.columns, Pair(r))
    BY <1>10, <1>12 DEF PairUnique
  <2> QED
    BY <2>1, UniqueNamesOne DEF SameSet
<1>13. ASSUME r.edge = ""
       PROVE  Executes(j, [c \in Range(Pair(r)) |-> 1])
  <2>1. Unfilled(j, Range(Pair(r))) = {}
    BY <1>10, <1>13
  <2>2. \A c \in Range(Pair(r)) : ~ j.columns[c].generated /\ j.columns[c].auto # "random"
    BY <1>5, <1>8, <1>13 DEF PairIsStored
  <2>3. NullValue # 1
    BY SchemaChecksAssumption
  <2> QED
    BY <1>8, <2>1, <2>2, <2>3 DEF Executes
<1>14. Present(ColumnsOf(r.deleted), j)
  <2>1. DOMAIN ColumnsOf(r.deleted) = DOMAIN r.deleted
    BY DEF ColumnsOf
  <2>2. CASE r.edge = ""
    <3>1. r.deleted = <<>>
      BY <1>3, <2>2, Zenon
    <3>2. DOMAIN r.deleted = {}
      BY <3>1, NothingDeleted, Zenon
    <3> QED
      BY <2>1, <3>2 DEF Present, Range
  <2>3. CASE r.edge # ""
    BY <1>9, <2>1, <2>3, KeysArePresent
  <2> QED
    BY <2>2, <2>3
<1> QED
  BY <1>11, <1>12, <1>13, <1>14 DEF j

\* A model and a snapshot without findings work together.
LEMMA ModelWorks ==
    ASSUME NEW m \in AppModels, NEW catalog \in Catalogs, ModelCodes(m, catalog) = {}
    PROVE  LET t == catalog[m.table]
           IN  /\ InsertsSucceed(m, t) /\ RowsDecode(m, t)
               /\ m.key # <<>> => NameOneRow(t, Range(m.key))
               /\ \A unique \in m.uniques : NameOneRow(t, unique)
               /\ \A r \in m.relations : RelationWorks(r, catalog)
<1> DEFINE t == catalog[m.table]
<1>1. /\ Range(m.fields) \subseteq FieldType /\ \A r \in m.relations : RelationType(r)
      /\ \A name \in DOMAIN catalog : TableType(catalog[name])
  BY SchemaChecksAssumption
<1>2. /\ m.table \in DOMAIN catalog
      /\ \A i \in DOMAIN m.fields : ColumnCodes(m.fields[i], t) = {}
      /\ m.key # <<>> => m.key = PrimaryKey(t)
      /\ \A key \in m.uniques : UniqueKey(t, key)
      /\ Unfilled(t, Range(ColumnsOf(m.fields))) = {}
      /\ \A r \in m.relations : TargetCodes(r, catalog) = {} /\ JunctionCodes(r, catalog) = {}
  BY ModelAccepted
<1>3. TableType(t)
  BY <1>1, <1>2
<1> HIDE DEF t
<1>4. InsertsSucceed(m, t) /\ RowsDecode(m, t)
  BY <1>1, <1>2, <1>3, InsertsAreAccepted, RowsAreDecoded
<1>5. ASSUME m.key # <<>>
      PROVE  NameOneRow(t, Range(m.key))
  <2> DEFINE primary == CHOOSE i \in t.indexes : i.name = "PRIMARY"
  <2>1. \E i \in t.indexes : i.name = "PRIMARY"
    BY <1>2, <1>5 DEF PrimaryKey
  <2>2. primary \in t.indexes /\ primary.name = "PRIMARY"
    BY <2>1
  <2>3. m.key = primary.columns
    BY <1>2, <1>5, <2>1 DEF PrimaryKey
  <2> HIDE DEF primary
  <2>4. Unique(primary)
    BY <1>3, <2>2 DEF TableType
  <2> QED
    BY <2>2, <2>3, <2>4, UniqueNamesOne
<1>6. \A unique \in m.uniques : NameOneRow(t, unique)
  BY <1>2, KeyNamesOne
<1>7. ASSUME NEW r \in m.relations
      PROVE  RelationWorks(r, catalog)
  <2>1. RelationType(r) /\ TargetCodes(r, catalog) = {} /\ JunctionCodes(r, catalog) = {}
    BY <1>1, <1>2
  <2>2. /\ \A unique \in r.uniques : NameOneRow(catalog[r.target], unique)
        /\ r.kind = "many" => KeyIsOneRange(catalog[r.target], Range(ColumnsOf(r.fields)))
        /\ r.kind # "many" => NameOneRow(catalog[r.target], Range(ColumnsOf(r.fields)))
    BY <1>1, <2>1, TargetAccepted
  <2>3. ASSUME r.kind = "through"
        PROVE  LET j == catalog[r.junction]
               IN  /\ KeyIsOneRange(j, Range(r.sourceColumns))
                   /\ r.edge = "" => /\ NameOneRow(j, Range(Pair(r)))
                                     /\ Executes(j, [c \in Range(Pair(r)) |-> 1])
                   /\ Present(ColumnsOf(r.deleted), j)
    <3>1. r.edge = "" /\ r.junction \in DOMAIN catalog => PairIsStored(r, catalog[r.junction])
      BY <2>3, PairsAreStored, Zenon DEF PairIsStored, Pair
    <3> QED
      BY <1>1, <2>1, <2>3, <3>1, JunctionAccepted
  <2> QED
    BY <2>2, <2>3, Zenon DEF RelationWorks
<1> QED
  BY <1>4, <1>5, <1>6, <1>7 DEF t

LEMMA InvAcceptsModels == ASSUME AuditInv PROVE AcceptedModelsWork
<1>1. SUFFICES ASSUME audit.kind = "model", audit.codes = {}
               PROVE  AcceptedModelsWork
  BY Zenon DEF AcceptedModelsWork
<1>2. PICK m \in AppModels, catalog \in Catalogs :
         audit = [kind |-> "model", of |-> m, catalog |-> catalog, codes |-> ModelCodes(m, catalog)]
  BY <1>1 DEF AuditInv
<1>3. audit.of = m /\ audit.catalog = catalog /\ ModelCodes(m, catalog) = {}
  BY <1>1, <1>2
<1> QED
  BY <1>3, ModelWorks, Zenon DEF AcceptedModelsWork

LEMMA InvAccepts == ASSUME AuditInv PROVE AcceptedIsServed
  BY InvServesSelects, InvBoundsWrites, InvAcceptsModels DEF AcceptedIsServed, AcceptedIndexesServe

---------------------------------------------------------------------------
(* The tasks together: the checks are apart from the rest of the library.    *)

LEMMA AuditInvariant == Spec => []AuditInv
<1>1. Init => AuditInv
  BY DEF Init, IndexChecksInit, NoAudit, AuditInv
<1>2. AuditInv /\ [Next]_vars => AuditInv'
  <2> SUFFICES ASSUME AuditInv, [Next]_vars
               PROVE  AuditInv'
    OBVIOUS
  <2>1. CASE UNCHANGED audit
    BY <2>1 DEF AuditInv
  <2>2. CASE Audit
    <3>1. ASSUME NEW q \in Queries, NEW table \in Tables, CheckSelect(q, table)
          PROVE  AuditInv'
      BY <3>1 DEF CheckSelect, AuditInv
    <3>2. ASSUME NEW w \in Writes, NEW table \in Tables, CheckWrite(w, table)
          PROVE  AuditInv'
      BY <3>2 DEF CheckWrite, AuditInv
    <3>3. ASSUME NEW m \in AppModels, NEW catalog \in Catalogs, CheckModel(m, catalog)
          PROVE  AuditInv'
      BY <3>3 DEF CheckModel, AuditInv
    <3> QED
      BY <2>2, <3>1, <3>2, <3>3, Zenon DEF Audit
  <2> QED
    BY <2>1, <2>2 DEF Next, Measure, vars
<1> QED
  BY <1>1, <1>2, PTL DEF Spec

\* A SELECT the index checks accept reads one range of an index in its order, or
\* at most one row; a conditional write they accept changes rows a condition
\* bounds; and a model the schema checks accept works with the snapshot.
THEOREM ChecksAccept == Spec => []AcceptedIsServed
<1>1. AuditInv => AcceptedIsServed
  BY InvAccepts
<1> QED
  BY <1>1, AuditInvariant, PTL

\* The offline checks leave the comparisons, the preparations and the capture
\* alone: what holds of these holds of all the tasks together.
THEOREM ChecksLeaveTheRest == Spec => MeasureSpec
<1>1. Init => MeasureInit
  BY DEF Init
<1>2. [Next]_vars => [MeasureNext]_measureVars
  BY DEF Next, Measure, Audit, vars
<1> QED
  BY <1>1, <1>2, PTL DEF Spec, MeasureSpec
=============================================================================
