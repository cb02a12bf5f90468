------------------------ MODULE MigrateLedgerProofs ------------------------
(***************************************************************************)
(* Theorems about MigrateRunner and the ledger it implements, for every    *)
(* value of the constants: invocations know the version table they change, *)
(* and their interleavings do to the database what single attempts do.     *)
(***************************************************************************)
EXTENDS MigrateRefinesLedger, MigrateRunnerProofs

---------------------------------------------------------------------------
(* Registration order.                                                     *)

Earlier(h, v, w) == h[v] < h[w] \/ (h[v] = h[w] /\ v < w)
Rank(h, v)       == Cardinality({w \in DOMAIN h : w = v \/ Earlier(h, w, v)})

LEMMA OrderShape ==
    ASSUME NEW h, IsHistory(h), NEW s \in RegistrationOrder(h)
    PROVE  /\ s \in Seq(DOMAIN h) /\ s \in Seq(Versions) /\ Len(s) = Cardinality(DOMAIN h)
           /\ Len(s) \in Nat /\ DOMAIN s = 1 .. Len(s) /\ IsFiniteSet(DOMAIN h)
           /\ \A i, j \in 1 .. Len(s) : s[i] = s[j] => i = j
           /\ \A v \in DOMAIN h : \E i \in 1 .. Len(s) : s[i] = v
           /\ \A i, j \in 1 .. Len(s) : i < j => Earlier(h, s[i], s[j])
<1>1. IsFiniteSet(DOMAIN h)
  BY VersionsAssumption, FS_Subset DEF IsHistory
<1>2. s \in Bijection(1 .. Cardinality(DOMAIN h), DOMAIN h)
  BY DEF RegistrationOrder
<1>3. s \in Seq(DOMAIN h) /\ s \in Seq(Versions)
  BY <1>1, <1>2, BijectionIsSeq, RegistrationOrderType
<1>4. Cardinality(DOMAIN h) \in Nat
  BY <1>1, FS_CardinalityType
<1>5. s \in [1 .. Cardinality(DOMAIN h) -> DOMAIN h]
  BY <1>2 DEF Bijection, Injection
<1>6. Len(s) = Cardinality(DOMAIN h) /\ DOMAIN s = 1 .. Len(s)
  BY <1>3, <1>4, <1>5, LenProperties
<1>7. /\ \A i, j \in 1 .. Len(s) : s[i] = s[j] => i = j
      /\ \A v \in DOMAIN h : \E i \in 1 .. Len(s) : s[i] = v
  BY <1>2, <1>6 DEF Bijection, Injection, Surjection, IsInjective
<1>8. \A i, j \in 1 .. Len(s) : i < j => Earlier(h, s[i], s[j])
  BY <1>6 DEF RegistrationOrder, Earlier
<1> QED
  BY <1>1, <1>3, <1>4, <1>6, <1>7, <1>8

\* A sequence is the registration order when it lists every version once, sorted.
LEMMA IsOrder ==
    ASSUME NEW h, IsHistory(h), NEW s \in Seq(DOMAIN h),
           \A i, j \in 1 .. Len(s) : s[i] = s[j] => i = j,
           \A v \in DOMAIN h : \E i \in 1 .. Len(s) : s[i] = v,
           \A i, j \in 1 .. Len(s) : i < j => Earlier(h, s[i], s[j])
    PROVE  s \in RegistrationOrder(h)
<1>1. Len(s) \in Nat /\ s \in [1 .. Len(s) -> DOMAIN h] /\ DOMAIN s = 1 .. Len(s)
  BY LenProperties
<1>2. s \in Bijection(1 .. Len(s), DOMAIN h)
  BY <1>1 DEF Bijection, Injection, Surjection, IsInjective
<1>3. Cardinality(DOMAIN h) = Len(s)
  <2>1. ExistsBijection(1 .. Len(s), DOMAIN h)
    BY <1>2 DEF ExistsBijection
  <2> QED
    BY <1>1, <2>1, FS_CountingElements
<1>4. ASSUME NEW i \in DOMAIN s, NEW j \in DOMAIN s, i < j
      PROVE  h[s[i]] < h[s[j]] \/ (h[s[i]] = h[s[j]] /\ s[i] < s[j])
  <2>1. i \in 1 .. Len(s) /\ j \in 1 .. Len(s)
    BY <1>1
  <2>2. Earlier(h, s[i], s[j])
    BY <1>4, <2>1
  <2> QED
    BY <2>2 DEF Earlier
<1>5. s \in Bijection(1 .. Cardinality(DOMAIN h), DOMAIN h)
  BY <1>2, <1>3
<1> QED
  BY <1>4, <1>5 DEF RegistrationOrder

\* The position of a version is the number of versions up to it.
LEMMA PositionIsRank ==
    ASSUME NEW h, IsHistory(h), NEW s \in RegistrationOrder(h), NEW i \in 1 .. Len(s)
    PROVE  Rank(h, s[i]) = i
<1> DEFINE below == {w \in DOMAIN h : w = s[i] \/ Earlier(h, w, s[i])}
           f == [k \in 1 .. i |-> s[k]]
<1>1. /\ s \in Seq(DOMAIN h) /\ Len(s) \in Nat
      /\ \A k, j \in 1 .. Len(s) : s[k] = s[j] => k = j
      /\ \A v \in DOMAIN h : \E k \in 1 .. Len(s) : s[k] = v
      /\ \A k, j \in 1 .. Len(s) : k < j => Earlier(h, s[k], s[j])
  BY OrderShape
<1>2. \A k \in 1 .. Len(s) : s[k] \in DOMAIN h /\ s[k] \in Int /\ h[s[k]] \in Int
  <2> SUFFICES ASSUME NEW k \in 1 .. Len(s)
               PROVE  s[k] \in DOMAIN h /\ s[k] \in Int /\ h[s[k]] \in Int
    OBVIOUS
  <2>1. s[k] \in DOMAIN h
    BY <1>1, ElementOfSeq
  <2> QED
    BY <2>1, VersionsAssumption, TimesAssumption DEF IsHistory
<1>3. \A k \in 1 .. i : k \in 1 .. Len(s) /\ f[k] = s[k] /\ f[k] \in below
  <2> SUFFICES ASSUME NEW k \in 1 .. i PROVE k \in 1 .. Len(s) /\ s[k] \in below
    OBVIOUS
  <2>1. k \in 1 .. Len(s) /\ (k = i \/ k < i)
    BY <1>1
  <2>2. k < i => Earlier(h, s[k], s[i])
    BY <1>1, <2>1
  <2> QED
    BY <1>2, <2>1, <2>2
<1>4. \A w \in below : \E k \in 1 .. i : f[k] = w
  <2> SUFFICES ASSUME NEW w \in below PROVE \E k \in 1 .. i : f[k] = w
    OBVIOUS
  <2>1. PICK k \in 1 .. Len(s) : s[k] = w
    BY <1>1
  <2>2. ~(i < k)
    <3> SUFFICES ASSUME i < k PROVE FALSE
      OBVIOUS
    <3>1. Earlier(h, s[i], w)
      BY <1>1, <2>1
    <3> QED
      BY <1>2, <2>1, <3>1 DEF Earlier
  <2>3. k \in 1 .. i
    BY <1>1, <2>2
  <2> QED
    BY <1>3, <2>1, <2>3
<1>5. ASSUME NEW k \in 1 .. i, NEW j \in 1 .. i, f[k] = f[j] PROVE k = j
  <2>1. s[k] = s[j] /\ k \in 1 .. Len(s) /\ j \in 1 .. Len(s)
    BY <1>3, <1>5
  <2> QED
    BY <1>1, <2>1
<1>6. f \in Bijection(1 .. i, below)
  <2>1. f \in [1 .. i -> below]
    BY <1>3
  <2> HIDE DEF f, below
  <2>2. DOMAIN f = 1 .. i
    BY <2>1
  <2> QED
    BY <2>1, <2>2, <1>4, <1>5 DEF Bijection, Injection, Surjection, IsInjective
<1> HIDE DEF f, below
<1>7. ExistsBijection(1 .. i, below)
  BY <1>6 DEF ExistsBijection
<1>8. Cardinality(below) = i
  BY <1>1, <1>7, FS_CountingElements
<1> QED
  BY <1>8 DEF below, Rank

\* There is one registration order.
LEMMA OneOrder ==
    ASSUME NEW h, IsHistory(h), NEW s \in RegistrationOrder(h), NEW t \in RegistrationOrder(h)
    PROVE  s = t
<1>1. /\ s \in Seq(DOMAIN h) /\ t \in Seq(DOMAIN h) /\ Len(s) = Len(t) /\ Len(s) \in Nat
      /\ \A v \in DOMAIN h : \E k \in 1 .. Len(t) : t[k] = v
  BY OrderShape
<1>2. ASSUME NEW i \in 1 .. Len(s) PROVE s[i] = t[i]
  <2>1. PICK k \in 1 .. Len(t) : t[k] = s[i]
    BY <1>1, ElementOfSeq
  <2>2. Rank(h, t[k]) = k /\ Rank(h, s[i]) = i
    BY PositionIsRank
  <2> QED
    BY <2>1, <2>2
<1> QED
  BY <1>1, <1>2, SeqEqual

\* Its last element is the latest registration.
LEMMA LastIsLatest ==
    ASSUME NEW h, IsHistory(h), NEW s \in RegistrationOrder(h), Len(s) > 0
    PROVE  s[Len(s)] \in DOMAIN h /\ \A w \in DOMAIN h : h[w] <= h[s[Len(s)]]
<1>1. /\ s \in Seq(DOMAIN h) /\ Len(s) \in Nat
      /\ \A v \in DOMAIN h : \E k \in 1 .. Len(s) : s[k] = v
      /\ \A k, j \in 1 .. Len(s) : k < j => Earlier(h, s[k], s[j])
  BY OrderShape
<1>2. \A k \in 1 .. Len(s) : s[k] \in DOMAIN h /\ h[s[k]] \in Int
  BY <1>1, ElementOfSeq, TimesAssumption DEF IsHistory
<1>3. ASSUME NEW w \in DOMAIN h PROVE h[w] <= h[s[Len(s)]]
  <2>1. PICK k \in 1 .. Len(s) : s[k] = w
    BY <1>1
  <2>0. Len(s) \in 1 .. Len(s)
    BY <1>1
  <2>2. CASE k < Len(s)
    <3>1. Earlier(h, s[k], s[Len(s)])
      BY <1>1, <2>0, <2>2
    <3> QED
      BY <1>2, <2>0, <2>1, <3>1 DEF Earlier
  <2>3. CASE k = Len(s)
    BY <1>2, <2>1, <2>3
  <2> QED
    BY <1>1, <2>2, <2>3
<1> QED
  BY <1>1, <1>2, <1>3

\* A later registration is appended.
LEMMA AppendOrder ==
    ASSUME NEW h, IsHistory(h), NEW s \in RegistrationOrder(h),
           NEW v \in Versions \ DOMAIN h, NEW now \in Times, \A w \in DOMAIN h : h[w] < now
    PROVE  Append(s, v) \in
              RegistrationOrder([w \in DOMAIN h \cup {v} |-> IF w \in DOMAIN h THEN h[w] ELSE now])
<1> DEFINE g == [w \in DOMAIN h \cup {v} |-> IF w \in DOMAIN h THEN h[w] ELSE now]
           t == Append(s, v)
<1>1. /\ s \in Seq(DOMAIN h) /\ Len(s) \in Nat
      /\ \A k, j \in 1 .. Len(s) : s[k] = s[j] => k = j
      /\ \A w \in DOMAIN h : \E k \in 1 .. Len(s) : s[k] = w
      /\ \A k, j \in 1 .. Len(s) : k < j => Earlier(h, s[k], s[j])
  BY OrderShape
<1>2. IsHistory(g) /\ DOMAIN g = DOMAIN h \cup {v}
  BY DEF IsHistory
<1>3. t \in Seq(DOMAIN g) /\ Len(t) = Len(s) + 1
  BY <1>1, <1>2, AppendProperties, SeqMonotonic
<1>4. \A k \in 1 .. Len(s) : t[k] = s[k] /\ s[k] \in DOMAIN h /\ g[t[k]] = h[s[k]]
  BY <1>1, AppendProperties, ElementOfSeq
<1>5. t[Len(t)] = v /\ g[v] = now
  BY <1>1, <1>3, AppendProperties
<1> HIDE DEF g, t
<1>6. \A k \in 1 .. Len(t) : k = Len(t) \/ k \in 1 .. Len(s)
  BY <1>1, <1>3
<1>7. ASSUME NEW k \in 1 .. Len(t), NEW j \in 1 .. Len(t), t[k] = t[j] PROVE k = j
  <2>1. CASE k \in 1 .. Len(s) /\ j \in 1 .. Len(s)
    <3>1. s[k] = s[j]
      BY <1>4, <1>7, <2>1
    <3> QED
      BY <1>1, <2>1, <3>1
  <2>2. CASE k \in 1 .. Len(s) /\ j = Len(t)
    BY <1>4, <1>5, <1>7, <2>2
  <2>3. CASE k = Len(t) /\ j \in 1 .. Len(s)
    BY <1>4, <1>5, <1>7, <2>3
  <2> QED
    BY <1>6, <2>1, <2>2, <2>3
<1>8. ASSUME NEW w \in DOMAIN g PROVE \E k \in 1 .. Len(t) : t[k] = w
  <2>1. Len(t) \in 1 .. Len(t) /\ \A k \in 1 .. Len(s) : k \in 1 .. Len(t)
    BY <1>1, <1>3
  <2>2. CASE w = v
    BY <1>5, <2>1, <2>2
  <2>3. CASE w \in DOMAIN h
    <3>1. PICK k \in 1 .. Len(s) : s[k] = w
      BY <1>1, <2>3
    <3> QED
      BY <1>4, <2>1, <3>1
  <2> QED
    BY <1>2, <2>2, <2>3
<1>9. ASSUME NEW k \in 1 .. Len(t), NEW j \in 1 .. Len(t), k < j PROVE Earlier(g, t[k], t[j])
  <2>1. k \in 1 .. Len(s)
    BY <1>1, <1>3, <1>9
  <2>2. CASE j = Len(t)
    BY <1>4, <1>5, <2>1, <2>2 DEF Earlier
  <2>3. CASE j \in 1 .. Len(s)
    BY <1>1, <1>4, <1>9, <2>1, <2>3 DEF Earlier
  <2> QED
    BY <1>6, <2>2, <2>3
<1>10. t \in RegistrationOrder(g)
  BY <1>2, <1>3, <1>7, <1>8, <1>9, IsOrder
<1> QED
  BY <1>10 DEF g, t

\* Without its last element it is the order of what is left.
LEMMA FrontOrder ==
    ASSUME NEW h, IsHistory(h), NEW s \in RegistrationOrder(h), Len(s) > 0
    PROVE  SubSeq(s, 1, Len(s) - 1) \in
              RegistrationOrder(Restrict(h, DOMAIN h \ {s[Len(s)]}))
<1> DEFINE g == Restrict(h, DOMAIN h \ {s[Len(s)]})
           t == SubSeq(s, 1, Len(s) - 1)
<1>1. /\ s \in Seq(DOMAIN h) /\ Len(s) \in Nat
      /\ \A k, j \in 1 .. Len(s) : s[k] = s[j] => k = j
      /\ \A w \in DOMAIN h : \E k \in 1 .. Len(s) : s[k] = w
      /\ \A k, j \in 1 .. Len(s) : k < j => Earlier(h, s[k], s[j])
  BY OrderShape
<1>2. IsHistory(g) /\ DOMAIN g = DOMAIN h \ {s[Len(s)]} /\ \A w \in DOMAIN g : g[w] = h[w]
  BY DEF IsHistory, Restrict
<1>3. \A k \in 1 .. Len(s) - 1 : k \in 1 .. Len(s) /\ s[k] \in DOMAIN g
  <2>1. \A k \in 1 .. Len(s) - 1 : k \in 1 .. Len(s) /\ k # Len(s) /\ Len(s) \in 1 .. Len(s)
    BY <1>1
  <2> QED
    BY <1>1, <1>2, <2>1, ElementOfSeq
<1>4. /\ t \in Seq(DOMAIN g) /\ Len(t) = Len(s) - 1
      /\ \A k \in 1 .. Len(t) : t[k] = s[k] /\ k \in 1 .. Len(s) /\ s[k] \in DOMAIN g
  <2> DEFINE n == Len(s) - 1
  <2>1. t = [k \in 1 .. n |-> s[k]] /\ n \in Nat
    BY <1>1
  <2>2. t \in [1 .. n -> DOMAIN g]
    BY <1>3, <2>1
  <2> HIDE DEF g, t, n
  <2>3. t \in Seq(DOMAIN g) /\ Len(t) = n
    BY <2>1, <2>2
  <2> USE DEF n
  <2> QED
    BY <1>3, <2>1, <2>3
<1> HIDE DEF g, t
<1>5. ASSUME NEW w \in DOMAIN g PROVE \E k \in 1 .. Len(t) : t[k] = w
  <2>1. w \in DOMAIN h /\ w # s[Len(s)]
    BY <1>2
  <2>2. PICK k \in 1 .. Len(s) : s[k] = w
    BY <1>1, <2>1
  <2>3. k # Len(s)
    BY <2>1, <2>2
  <2>4. Len(t) = Len(s) - 1
    BY <1>4
  <2>5. k \in 1 .. Len(t)
    BY <1>1, <2>3, <2>4
  <2> QED
    BY <1>4, <2>2, <2>5
<1>6. ASSUME NEW k \in 1 .. Len(t), NEW j \in 1 .. Len(t), t[k] = t[j] PROVE k = j
  <2>1. s[k] = s[j] /\ k \in 1 .. Len(s) /\ j \in 1 .. Len(s)
    BY <1>4, <1>6
  <2> QED
    BY <1>1, <2>1
<1>7. ASSUME NEW k \in 1 .. Len(t), NEW j \in 1 .. Len(t), k < j PROVE Earlier(g, t[k], t[j])
  <2>1. Earlier(h, s[k], s[j])
    BY <1>1, <1>4, <1>7
  <2> QED
    BY <1>2, <1>4, <2>1 DEF Earlier
<1>8. t \in RegistrationOrder(g)
  BY <1>2, <1>4, <1>5, <1>6, <1>7, IsOrder
<1> QED
  BY <1>8 DEF g, t


---------------------------------------------------------------------------
(* A step of one invocation and the others.                                *)

\* f and g agree for every invocation but r.
Same(f, g, r) == \A q \in Runners \ {r} : g[q] = f[q]

\* What belongs to the other invocations stays, and none gets or loses the lock.
OthersStay(r) ==
    /\ Same(pc, pc', r) /\ Same(job, job', r) /\ Same(loaded, loaded', r)
    /\ Same(snap, snap', r) /\ Same(plan, plan', r) /\ Same(cursor, cursor', r)
    /\ Same(reply, reply', r) /\ Same(sent, sent', r) /\ Same(result, result', r)
    /\ Same(err, err', r) /\ Same(log, log', r)
    /\ Same(sess, sess', r) /\ Same(orphan, orphan', r)
    /\ \A q \in Runners \ {r} : lockOwner' = q <=> lockOwner = q

\* A step of invocation r.
StepOf(r) == Start(r) \/ Proceed(r) \/ Crash(r) \/ SessionDies(r) \/ Reap(r) \/ Land(r)

LEMMA ApplyCases ==
    ASSUME NEW r, InspectApply(r)
    PROVE  \E applied \in RegistrationOrder(history),
              versions \in Candidates(Direction(r), loaded[r], history) :
              /\ result' = [result EXCEPT ![r].stack = applied]
              /\ \/ /\ err' = Add(err, r, "plan") /\ Goto(r, "release")
                    /\ UNCHANGED <<plan, cursor>>
                 \/ /\ ~PlanFails(Direction(r), job[r].steps, loaded[r], Current, versions)
                    /\ plan' = [plan EXCEPT ![r] =
                           PlanSteps(Direction(r), job[r].steps, loaded[r], versions)]
                    /\ cursor' = [cursor EXCEPT ![r] = At(FirstPhase(r), 1, 1)]
                    /\ \/ /\ job[r].op \notin {"up", "down"}
                          /\ Goto(r, "release") /\ UNCHANGED err
                       \/ /\ job[r].op \in {"up", "down"} /\ plan'[r] = <<>>
                          /\ Goto(r, "output") /\ UNCHANGED err
                       \/ /\ job[r].op \in {"up", "down"} /\ plan'[r] # <<>>
                          /\ Goto(r, "emit") /\ UNCHANGED err
                       \/ /\ job[r].op \in {"up", "down"}
                          /\ Goto(r, "flush") /\ err' = Add(err, r, "check")
BY DEF InspectApply

LEMMA Frame ==
    ASSUME Shape, NEW r \in Runners, StepOf(r)
    PROVE  OthersStay(r)
<1>t. /\ DOMAIN pc = Runners /\ DOMAIN job = Runners /\ DOMAIN loaded = Runners
      /\ DOMAIN snap = Runners /\ DOMAIN plan = Runners /\ DOMAIN cursor = Runners
      /\ DOMAIN reply = Runners /\ DOMAIN sent = Runners /\ DOMAIN result = Runners
      /\ DOMAIN err = Runners /\ DOMAIN log = Runners
      /\ DOMAIN sess = Runners /\ DOMAIN orphan = Runners
  BY DEF Shape, TypeOK, RunnerTypeOK, ServerTypeOK, AreDirectories
<1>a. ASSUME InspectApply(r)
      PROVE  \E applied \in RegistrationOrder(history),
                versions \in Candidates(Direction(r), loaded[r], history) :
                /\ result' = [result EXCEPT ![r].stack = applied]
                /\ \/ plan' = plan
                   \/ plan' = [plan EXCEPT ![r] =
                         PlanSteps(Direction(r), job[r].steps, loaded[r], versions)]
                /\ \/ cursor' = cursor
                   \/ cursor' = [cursor EXCEPT ![r] = At(FirstPhase(r), 1, 1)]
                /\ err' = err \/ err' = Add(err, r, "plan") \/ err' = Add(err, r, "check")
  BY <1>a, ApplyCases
<1>b. ASSUME InspectApply(r) PROVE \E l \in {"release", "output", "emit", "flush"} : Goto(r, l)
  BY <1>b, ApplyCases
<1> USE RunnersAssumption, <1>t DEF OthersStay, Same, Goto, Abort, Add, fsVars, dbVars, srvVars, jobVars, runVars
<1>1. CASE Start(r)
  BY <1>1 DEF Start
<1>2. CASE Load(r)
  BY <1>2 DEF Load
<1>3. CASE Connect(r)
  BY <1>3 DEF Connect
<1>4. CASE AcquireLock(r)
  BY <1>4 DEF AcquireLock
<1>5. CASE LockTimesOut(r)
  BY <1>5 DEF LockTimesOut
<1>6. CASE LockFails(r)
  BY <1>6 DEF LockFails
<1>7. CASE InspectFails(r)
  BY <1>7 DEF InspectFails
<1>8. CASE InspectApply(r)
  <2>1. /\ UNCHANGED <<job, loaded, reply, sent, log, sess, lockOwner, orphan>>
        /\ Same(snap, snap', r)
    BY <1>8 DEF InspectApply
  <2>2. Same(result, result', r)
    BY <1>8, <1>a
  <2>3. Same(plan, plan', r)
    <3> DEFINE Steps(versions) == PlanSteps(Direction(r), job[r].steps, loaded[r], versions)
    <3>1. PICK versions : plan' = plan \/ plan' = [plan EXCEPT ![r] = Steps(versions)]
      BY <1>8, <1>a
    <3> HIDE DEF Steps
    <3> QED
      BY <3>1
  <2>4. Same(cursor, cursor', r) /\ Same(err, err', r)
    BY <1>8, <1>a
  <2>5. Same(pc, pc', r)
    BY <1>8, <1>b
  <2> QED
    BY <2>1, <2>2, <2>3, <2>4, <2>5
<1>9. CASE InspectBaseline(r)
  BY <1>9 DEF InspectBaseline
<1>10. CASE InspectInit(r)
  BY <1>10 DEF InspectInit
<1>11. CASE InspectRead(r)
  BY <1>11 DEF InspectRead
<1>12. CASE CreateInitial(r)
  BY <1>12 DEF CreateInitial
<1>13. CASE EmitStarted(r)
  BY <1>13 DEF EmitStarted
<1>14. CASE ExecSucceeds(r)
  BY <1>14 DEF ExecSucceeds, MarkSent, Confirm
<1>15. CASE ExecFails(r)
  BY <1>15 DEF ExecFails, MarkSent
<1>16. CASE ExecLost(r)
  BY <1>16 DEF ExecLost, MarkSent
<1>17. CASE EmitOutcome(r)
  <2>1. Advance(r) \/ (Abort(r) /\ UNCHANGED cursor)
    BY <1>17 DEF EmitOutcome
  <2>2. Same(pc, pc', r)
    <3>1. \E l \in {"emit", "output", "capture", "flush", "release"} : Goto(r, l)
      BY <2>1 DEF Advance
    <3> QED
      BY <3>1
  <2>3. Same(cursor, cursor', r)
    BY <2>1 DEF Advance
  <2>4. Same(log, log', r)
    <3>1. UNCHANGED log \/ log' = Add(log, r, Event(r, reply[r]))
      BY <1>17 DEF EmitOutcome
    <3> QED
      BY <3>1
  <2>5. Same(err, err', r)
    <3>1. PICK failed \in SUBSET {"operation", "log"} : err' = [err EXCEPT ![r] = @ \cup failed]
      BY <1>17 DEF EmitOutcome
    <3> QED
      BY <3>1
  <2> QED
    BY <1>17, <2>2, <2>3, <2>4, <2>5 DEF EmitOutcome
<1>18. CASE Flush(r)
  BY <1>18 DEF Flush
<1>19. CASE Capture(r)
  BY <1>19 DEF Capture
<1>20. CASE Output(r)
  BY <1>20 DEF Output
<1>21. CASE Release(r)
  BY <1>21 DEF Release
<1>22. CASE Crash(r)
  BY <1>22 DEF Crash
<1>23. CASE SessionDies(r)
  BY <1>23 DEF SessionDies
<1>24. CASE Reap(r)
  BY <1>24 DEF Reap
<1>25. CASE Land(r)
  BY <1>25 DEF Land
<1> QED
  BY <1>1, <1>2, <1>3, <1>4, <1>5, <1>6, <1>7, <1>8, <1>9, <1>10, <1>11, <1>12, <1>13, <1>14,
     <1>15, <1>16, <1>17, <1>18, <1>19, <1>20, <1>21, <1>22, <1>23, <1>24, <1>25 DEF StepOf,
     Proceed

\* Only an operation that succeeds or lands changes the database.
LEMMA DatabaseStays ==
    ASSUME NEW r \in Runners, StepOf(r)
    PROVE  ExecSucceeds(r) \/ Land(r) \/ UNCHANGED dbVars
BY DEF StepOf, Proceed, Start, Load, Connect, AcquireLock, LockTimesOut, LockFails,
   InspectFails, InspectApply, InspectBaseline, InspectInit, InspectRead, CreateInitial,
   EmitStarted, ExecFails, ExecLost, EmitOutcome, Flush, Capture, Output, Release, Crash,
   SessionDies, Reap

\* Every step is one of an invocation, one of the people, or none.
LEMMA StepCases ==
    ASSUME [Next]_vars
    PROVE  (\E r \in Runners : StepOf(r)) \/ Edit \/ UNCHANGED vars
BY DEF Next, StepOf

---------------------------------------------------------------------------
(* Sessions and the lock.                                                  *)

\* Nothing more is sent for the invocation.
Ended(r) ==
    \/ pc[r] \in {"flush", "release", "done", "crashed"}
    \/ pc[r] = "ack" /\ reply[r] = "unknown"

\* A broken session is never used again; the lock has a session behind it.
SessionOf(r) ==
    /\ sess[r] = "open" => pc[r] \in Working \cup {"lock"}
    /\ sess[r] = "broken" => Ended(r)
    /\ lockOwner = r => /\ sess[r] \in {"open", "broken"}
                        /\ pc[r] \in Working \cup {"done", "crashed"}

SessionInv == \A r \in Runners : SessionOf(r)

LEMMA SessionOfStep ==
    ASSUME Shape, SessionInv, NEW r \in Runners, StepOf(r)
    PROVE  SessionOf(r)'
<1>t. pc \in [Runners -> PCs] /\ sess \in [Runners -> Sessions] /\ reply \in [Runners -> Replies]
  BY DEF Shape, TypeOK, RunnerTypeOK, ServerTypeOK
<1>s. SessionOf(r)
  BY DEF SessionInv
<1> USE RunnersAssumption, <1>t, <1>s DEF SessionOf, Ended, Working, Alive, Goto, Abort, PCs, Active, Sessions,
      fsVars, dbVars, srvVars, jobVars, runVars
<1>1. CASE Start(r)
  BY <1>1 DEF Start
<1>2. CASE Load(r)
  BY <1>2 DEF Load
<1>3. CASE Connect(r)
  BY <1>3 DEF Connect
<1>4. CASE AcquireLock(r)
  BY <1>4 DEF AcquireLock
<1>5. CASE LockTimesOut(r)
  BY <1>5 DEF LockTimesOut
<1>6. CASE LockFails(r)
  BY <1>6 DEF LockFails
<1>7. CASE InspectFails(r)
  BY <1>7 DEF InspectFails
<1>8. CASE InspectApply(r)
  <2>1. \E l \in {"release", "output", "emit", "flush"} : Goto(r, l)
    BY <1>8, ApplyCases
  <2> QED
    BY <1>8, <2>1 DEF InspectApply
<1>9. CASE InspectBaseline(r)
  BY <1>9 DEF InspectBaseline
<1>10. CASE InspectInit(r)
  BY <1>10 DEF InspectInit
<1>11. CASE InspectRead(r)
  BY <1>11 DEF InspectRead
<1>12. CASE CreateInitial(r)
  BY <1>12 DEF CreateInitial
<1>13. CASE EmitStarted(r)
  BY <1>13 DEF EmitStarted
<1>14. CASE ExecSucceeds(r)
  BY <1>14 DEF ExecSucceeds
<1>15. CASE ExecFails(r)
  BY <1>15 DEF ExecFails
<1>16. CASE ExecLost(r)
  BY <1>16 DEF ExecLost
<1>17. CASE EmitOutcome(r)
  <2>1. reply[r] # "succeeded" => Abort(r)
    BY <1>17 DEF EmitOutcome
  <2>2. \E l \in {"emit", "output", "capture", "flush", "release"} : Goto(r, l)
    <3>1. Advance(r) \/ Abort(r)
      BY <1>17 DEF EmitOutcome
    <3> QED
      BY <3>1 DEF Advance
  <2>3. pc[r] = "ack" /\ UNCHANGED srvVars
    BY <1>17 DEF EmitOutcome
  <2> QED
    BY <2>1, <2>2, <2>3
<1>18. CASE Flush(r)
  BY <1>18 DEF Flush
<1>19. CASE Capture(r)
  BY <1>19 DEF Capture
<1>20. CASE Output(r)
  BY <1>20 DEF Output
<1>21. CASE Release(r)
  BY <1>21 DEF Release
<1>22. CASE Crash(r)
  BY <1>22 DEF Crash
<1>23. CASE SessionDies(r)
  BY <1>23 DEF SessionDies
<1>24. CASE Reap(r)
  BY <1>24 DEF Reap
<1>25. CASE Land(r)
  BY <1>25 DEF Land
<1> QED
  BY <1>1, <1>2, <1>3, <1>4, <1>5, <1>6, <1>7, <1>8, <1>9, <1>10, <1>11, <1>12, <1>13, <1>14,
     <1>15, <1>16, <1>17, <1>18, <1>19, <1>20, <1>21, <1>22, <1>23, <1>24, <1>25 DEF StepOf,
     Proceed

LEMMA SessionStep == Shape /\ SessionInv /\ [Next]_vars => SessionInv'
<1> SUFFICES ASSUME Shape, SessionInv, [Next]_vars PROVE SessionInv'
  OBVIOUS
<1>1. ASSUME NEW r \in Runners, StepOf(r) PROVE SessionInv'
  <2>1. \A q \in Runners \ {r} : SessionOf(q)'
    BY <1>1, Frame DEF OthersStay, Same, SessionInv, SessionOf, Ended
  <2>2. SessionOf(r)'
    BY <1>1, SessionOfStep
  <2> QED
    BY <2>1, <2>2 DEF SessionInv
<1>2. CASE Edit \/ UNCHANGED vars
  BY <1>2 DEF Edit, vars, srvVars, runVars, SessionInv, SessionOf, Ended
<1> QED
  BY <1>1, <1>2, StepCases

LEMMA SessionInit == Init => SessionInv
BY RunnersAssumption DEF Init, SessionInv, SessionOf

---------------------------------------------------------------------------
(* Where an invocation is, and what it has left on its way.                *)

\* The cursor names an operation.
Placed(r) ==
    /\ job[r].op \in {"up", "down", "baseline"}
    /\ cursor[r].step \in 1 .. Len(plan[r])
    /\ cursor[r].phase = "sql" => /\ job[r].op \in {"up", "down"}
                                  /\ cursor[r].stmt \in 1 .. Len(Statements(r))

\* What is on its way is the operation of the cursor; a record only with the lock.
OrphanOf(r) ==
    orphan[r] # {} =>
        /\ orphan[r] = {Sent(r)} /\ Ended(r) /\ Placed(r)
        /\ sess[r] \in {"broken", "dead"}
        /\ cursor[r].phase = "record" => sess[r] = "broken" /\ lockOwner = r

\* SQL and records come after the version table; the snapshot after a record.
PhaseOf(r) ==
    /\ pc[r] \in {"emit", "exec", "ack", "capture", "output"} /\ cursor[r].phase # "history"
          => managed
    /\ pc[r] = "ack" /\ reply[r] = "succeeded" => managed
    /\ pc[r] \in {"capture", "output"} /\ job[r].op \in {"up", "down"} /\ plan[r] # <<>>
          => cursor[r].phase = "record" /\ cursor[r].step \in 1 .. Len(plan[r])
    /\ pc[r] = "capture" => job[r].op \in {"up", "down"} /\ plan[r] # <<>>
    /\ cursor[r].phase = "history" => cursor[r].step \in {0, 1} /\ cursor[r].stmt \in {0, 1}
    /\ pc[r] \in {"start", "load", "connect", "lock", "inspect", "create"} \/ "inspect" \in err[r]
          => plan[r] = <<>> /\ cursor[r] = NoCursor
    /\ "inspect" \in err[r] => pc[r] \in {"release", "done", "crashed"}

PlaceInv == LockHeldByWorker /\ SessionInv /\ \A r \in Runners : OrphanOf(r) /\ PhaseOf(r)

LEMMA OrphanOfStep ==
    ASSUME Shape, PlaceInv, NEW r \in Runners, StepOf(r)
    PROVE  OrphanOf(r)'
<1>t. /\ pc \in [Runners -> PCs] /\ sess \in [Runners -> Sessions]
      /\ reply \in [Runners -> Replies] /\ DOMAIN orphan = Runners /\ DOMAIN cursor = Runners
      /\ DOMAIN plan = Runners /\ DOMAIN job = Runners
  BY DEF Shape, TypeOK, RunnerTypeOK, ServerTypeOK
<1>s. OrphanOf(r) /\ SessionOf(r)
  BY DEF PlaceInv, SessionInv
\* A step that sends nothing and leaves the cursor's operation alone.
<1> DEFINE Calm ==
       /\ orphan'[r] = orphan[r]
       /\ orphan[r] # {} => /\ UNCHANGED <<job, plan>> /\ cursor'[r] = cursor[r]
                            /\ sess'[r] = sess[r] /\ lockOwner' = lockOwner
                            /\ pc'[r] \in {"flush", "release", "done", "crashed"}
<1>c. Calm => OrphanOf(r)'
  <2> SUFFICES ASSUME Calm, orphan[r] # {} PROVE OrphanOf(r)'
    BY DEF OrphanOf
  <2>1. Sent(r)' = Sent(r) /\ Placed(r)' = Placed(r)
    BY DEF Sent, Placed, Version, Statements
  <2> QED
    BY <1>s, <2>1 DEF OrphanOf, Ended
<1>n. ASSUME pc[r] = "exec", Alive(r), UNCHANGED <<jobVars, plan, cursor, lockOwner>>,
             orphan' = orphan \/ orphan' = Add(orphan, r, Sent(r)),
             sess'[r] = "broken", Ended(r)'
      PROVE  OrphanOf(r)'
  <2>1. lockOwner = r
    BY <1>n DEF PlaceInv, LockHeldByWorker, Working
  <2>2. orphan[r] = {}
    BY <1>n, <1>s DEF OrphanOf, Ended
  <2>3. Placed(r)
    BY <1>n DEF Shape, CursorInv, AtOperation, Placed, Statements
  <2>4. Sent(r)' = Sent(r) /\ Placed(r)' = Placed(r)
    BY <1>n DEF Sent, Placed, Version, Statements, jobVars
  <2>5. orphan'[r] = {} \/ orphan'[r] = {Sent(r)}
    BY <1>n, <2>2, <1>t DEF Add
  <2> QED
    BY <1>n, <2>1, <2>3, <2>4, <2>5 DEF OrphanOf
<1> HIDE DEF Calm
<1> USE <1>t
<1>1. CASE Start(r)
  BY <1>1, <1>s, <1>c DEF Start, Calm, OrphanOf, SessionOf, Ended, Alive, Goto, Abort, Active,
     fsVars, dbVars, srvVars, jobVars, runVars
<1>2. CASE Load(r)
  BY <1>2, <1>s, <1>c DEF Load, Calm, OrphanOf, SessionOf, Ended, Alive, Goto, Abort, Active,
     fsVars, dbVars, srvVars, jobVars, runVars
<1>3. CASE Connect(r)
  BY <1>3, <1>s, <1>c DEF Connect, Calm, OrphanOf, SessionOf, Ended, Alive, Goto, Abort, Active,
     fsVars, dbVars, srvVars, jobVars, runVars
<1>4. CASE AcquireLock(r)
  BY <1>4, <1>s, <1>c DEF AcquireLock, Calm, OrphanOf, SessionOf, Ended, Alive, Goto, Abort,
     Active, fsVars, dbVars, srvVars, jobVars, runVars
<1>5. CASE LockTimesOut(r)
  BY <1>5, <1>s, <1>c DEF LockTimesOut, Calm, OrphanOf, SessionOf, Ended, Alive, Goto, Abort,
     Active, fsVars, dbVars, srvVars, jobVars, runVars
<1>6. CASE LockFails(r)
  BY <1>6, <1>s, <1>c DEF LockFails, Calm, OrphanOf, SessionOf, Ended, Alive, Goto, Abort,
     Active, fsVars, dbVars, srvVars, jobVars, runVars
<1>7. CASE InspectFails(r)
  BY <1>7, <1>s, <1>c DEF InspectFails, Calm, OrphanOf, SessionOf, Ended, Alive, Goto, Abort,
     Active, fsVars, dbVars, srvVars, jobVars, runVars
<1>8. CASE InspectApply(r)
  <2>1. orphan[r] = {}
    BY <1>8, <1>s DEF InspectApply, OrphanOf, Ended
  <2> QED
    BY <1>8, <2>1, <1>c DEF InspectApply, Calm, srvVars
<1>9. CASE InspectBaseline(r)
  <2>1. orphan[r] = {}
    BY <1>9, <1>s DEF InspectBaseline, OrphanOf, Ended
  <2> QED
    BY <1>9, <2>1, <1>c DEF InspectBaseline, Calm, srvVars
<1>10. CASE InspectInit(r)
  BY <1>10, <1>s, <1>c DEF InspectInit, Calm, OrphanOf, SessionOf, Ended, Alive, Goto, Abort,
     Active, fsVars, dbVars, srvVars, jobVars, runVars
<1>11. CASE InspectRead(r)
  BY <1>11, <1>s, <1>c DEF InspectRead, Calm, OrphanOf, SessionOf, Ended, Alive, Goto, Abort,
     Active, fsVars, dbVars, srvVars, jobVars, runVars
<1>12. CASE CreateInitial(r)
  BY <1>12, <1>s, <1>c DEF CreateInitial, Calm, OrphanOf, SessionOf, Ended, Alive, Goto, Abort,
     Active, fsVars, dbVars, srvVars, jobVars, runVars
<1>13. CASE EmitStarted(r)
  BY <1>13, <1>s, <1>c DEF EmitStarted, Calm, OrphanOf, SessionOf, Ended, Alive, Goto, Abort,
     Active, fsVars, dbVars, srvVars, jobVars, runVars
<1>14. CASE ExecSucceeds(r)
  <2>1. orphan[r] = {}
    BY <1>14, <1>s DEF ExecSucceeds, OrphanOf, Ended
  <2> QED
    BY <1>14, <2>1, <1>c DEF ExecSucceeds, Calm, srvVars
<1>15. CASE ExecFails(r)
  BY <1>15, <1>s, <1>c DEF ExecFails, Calm, OrphanOf, SessionOf, Ended, Alive, Goto, Abort,
     Active, fsVars, dbVars, srvVars, jobVars, runVars
<1>16. CASE ExecLost(r)
  <2>1. CASE ~Alive(r)
    <3>1. orphan[r] = {}
      BY <1>16, <1>s DEF ExecLost, OrphanOf, Ended
    <3> QED
      BY <1>16, <2>1, <3>1, <1>c DEF ExecLost, Calm
  <2>2. CASE Alive(r)
    <3>1. Ended(r)'
      BY <1>16 DEF ExecLost, Goto, Ended
    <3> QED
      BY <1>16, <2>2, <3>1, <1>n DEF ExecLost, Alive
  <2> QED
    BY <2>1, <2>2
<1>17. CASE EmitOutcome(r)
  <2>1. orphan[r] # {} => reply[r] = "unknown"
    BY <1>17, <1>s DEF EmitOutcome, OrphanOf, Ended
  <2>2. orphan[r] # {} => Abort(r) /\ UNCHANGED cursor
    BY <1>17, <2>1 DEF EmitOutcome
  <2> QED
    BY <1>17, <2>2, <1>c DEF EmitOutcome, Calm, Abort, Goto, srvVars, jobVars
<1>18. CASE Flush(r)
  BY <1>18, <1>s, <1>c DEF Flush, Calm, OrphanOf, SessionOf, Ended, Alive, Goto, Abort, Active,
     fsVars, dbVars, srvVars, jobVars, runVars
<1>19. CASE Capture(r)
  BY <1>19, <1>s, <1>c DEF Capture, Calm, OrphanOf, SessionOf, Ended, Alive, Goto, Abort,
     Active, fsVars, dbVars, srvVars, jobVars, runVars
<1>20. CASE Output(r)
  BY <1>20, <1>s, <1>c DEF Output, Calm, OrphanOf, SessionOf, Ended, Alive, Goto, Abort, Active,
     fsVars, dbVars, srvVars, jobVars, runVars
<1>21. CASE Release(r)
  BY <1>21, <1>s, <1>c DEF Release, Calm, OrphanOf, SessionOf, Ended, Alive, Goto, Abort,
     Active, fsVars, dbVars, srvVars, jobVars, runVars
<1>22. CASE Crash(r)
  <2>1. CASE orphan' = orphan
    <3>1. orphan[r] # {} => sess'[r] = sess[r]
      BY <1>22, <1>s DEF Crash, OrphanOf
    <3> QED
      BY <1>22, <2>1, <3>1, <1>c DEF Crash, Calm, Goto, runVars, jobVars
  <2>2. CASE pc[r] = "exec" /\ Alive(r) /\ orphan' = Add(orphan, r, Sent(r))
    <3>1. Ended(r)' /\ sess'[r] = "broken"
      BY <1>22, <2>2 DEF Crash, Goto, Ended, Alive
    <3> QED
      BY <1>22, <2>2, <3>1, <1>n DEF Crash, runVars
  <2> QED
    BY <1>22, <2>1, <2>2 DEF Crash
<1>23. CASE SessionDies(r)
  <2>1. orphan[r] = {}
    BY <1>23, <1>s DEF SessionDies, OrphanOf
  <2> QED
    BY <1>23, <2>1, <1>c DEF SessionDies, Calm
<1>24. CASE Reap(r)
  <2>1. Sent(r)' = Sent(r) /\ Placed(r)' = Placed(r) /\ Ended(r)' = Ended(r)
    BY <1>24 DEF Reap, Sent, Placed, Version, Statements, Ended, runVars, jobVars
  <2>2. orphan'[r] = {o \in orphan[r] : o.phase \in {"history", "sql"}} /\ sess'[r] = "dead"
    BY <1>24 DEF Reap
  <2>3. cursor[r].phase = "record" => Sent(r).phase \notin {"history", "sql"}
    BY DEF Sent
  <2>4. UNCHANGED cursor
    BY <1>24 DEF Reap, runVars
  <2> QED
    BY <2>1, <2>2, <2>3, <2>4, <1>s DEF OrphanOf
<1>25. CASE Land(r)
  BY <1>25 DEF Land, OrphanOf
<1> QED
  BY <1>1, <1>2, <1>3, <1>4, <1>5, <1>6, <1>7, <1>8, <1>9, <1>10, <1>11, <1>12, <1>13, <1>14,
     <1>15, <1>16, <1>17, <1>18, <1>19, <1>20, <1>21, <1>22, <1>23, <1>24, <1>25 DEF StepOf,
     Proceed

\* The version table does not go away.
LEMMA ManagedStays ==
    ASSUME NEW r \in Runners, StepOf(r)
    PROVE  managed => managed'
<1>1. CASE ExecSucceeds(r)
  BY <1>1 DEF ExecSucceeds, Commit
<1>2. CASE Land(r)
  BY <1>2 DEF Land, Commit, dbVars
<1> QED
  BY <1>1, <1>2, DatabaseStays DEF dbVars

LEMMA PhaseOfStep ==
    ASSUME Shape, PlaceInv, NEW r \in Runners, StepOf(r)
    PROVE  PhaseOf(r)'
<1>t. /\ pc \in [Runners -> PCs] /\ reply \in [Runners -> Replies]
      /\ DOMAIN cursor = Runners /\ DOMAIN plan = Runners /\ DOMAIN job = Runners
      /\ err \in [Runners -> SUBSET Failures] /\ cursor[r] \in Cursor /\ plan[r] \in Seq(Step)
      /\ Len(plan[r]) \in Nat
  BY LenProperties DEF Shape, TypeOK, RunnerTypeOK
<1>s. PhaseOf(r)
  BY DEF PlaceInv
<1>m. managed => managed'
  BY ManagedStays
<1> USE <1>t DEF Goto, Abort
<1>1. CASE Start(r)
  BY <1>1, <1>s, <1>m DEF Start, PhaseOf, Add, fsVars, dbVars, srvVars, jobVars, runVars
<1>2. CASE Load(r)
  BY <1>2, <1>s, <1>m DEF Load, PhaseOf, Add, fsVars, dbVars, srvVars, jobVars, runVars
<1>3. CASE Connect(r)
  BY <1>3, <1>s, <1>m DEF Connect, PhaseOf, Add, fsVars, dbVars, srvVars, jobVars, runVars
<1>4. CASE AcquireLock(r)
  BY <1>4, <1>s, <1>m DEF AcquireLock, PhaseOf, Add, fsVars, dbVars, srvVars, jobVars, runVars
<1>5. CASE LockTimesOut(r)
  BY <1>5, <1>s, <1>m DEF LockTimesOut, PhaseOf, Add, fsVars, dbVars, srvVars, jobVars, runVars
<1>6. CASE LockFails(r)
  BY <1>6, <1>s, <1>m DEF LockFails, PhaseOf, Add, fsVars, dbVars, srvVars, jobVars, runVars
<1>7. CASE InspectFails(r)
  BY <1>7, <1>s, <1>m DEF InspectFails, PhaseOf, Add, fsVars, dbVars, srvVars, jobVars, runVars
<1>8. CASE InspectApply(r)
  <2>1. PICK l \in {"release", "output", "emit", "flush"} : Goto(r, l)
    BY <1>8, ApplyCases
  <2>2. pc[r] = "inspect" /\ "inspect" \notin err[r] /\ UNCHANGED <<managed, job, reply>>
    BY <1>8, <1>s DEF InspectApply, PhaseOf, dbVars, jobVars
  <2>3. "inspect" \notin err'[r]
    <3>1. err' = err \/ err' = Add(err, r, "plan") \/ err' = Add(err, r, "check")
      BY <1>8, ApplyCases
    <3> QED
      BY <2>2, <3>1 DEF Add
  <2>4. cursor' = cursor \/ cursor' = [cursor EXCEPT ![r] = At(FirstPhase(r), 1, 1)]
    BY <1>8, ApplyCases
  <2>5. /\ cursor'[r].phase = "history" => cursor'[r].step \in {0, 1} /\ cursor'[r].stmt \in {0, 1}
        /\ cursor'[r].phase # "history" => managed
    BY <2>2, <2>4, <1>s DEF PhaseOf, At, FirstPhase, NoCursor
  <2>6. pc'[r] = "output" => plan'[r] = <<>>
    <3>1. plan'[r] = <<>> \/ \E k \in {"release", "emit", "flush"} : Goto(r, k)
      BY <1>8, ApplyCases
    <3> QED
      BY <2>1, <3>1
  <2>7. pc'[r] = l
    BY <2>1
  <2> QED
    BY <2>1, <2>2, <2>3, <2>5, <2>6, <2>7 DEF PhaseOf
<1>9. CASE InspectBaseline(r)
  <2>2. pc[r] = "inspect" /\ "inspect" \notin err[r] /\ UNCHANGED <<managed, job, reply>>
    BY <1>9, <1>s DEF InspectBaseline, PhaseOf, dbVars, jobVars
  <2>3. "inspect" \notin err'[r] /\ pc'[r] \in {"emit", "release"}
    BY <1>9, <2>2 DEF InspectBaseline, Add
  <2>4. cursor' = cursor \/ cursor' = [cursor EXCEPT ![r] = At(FirstPhase(r), 1, 1)]
    BY <1>9 DEF InspectBaseline
  <2>5. /\ cursor'[r].phase = "history" => cursor'[r].step \in {0, 1} /\ cursor'[r].stmt \in {0, 1}
        /\ cursor'[r].phase # "history" => managed
    BY <2>2, <2>4, <1>s DEF PhaseOf, At, FirstPhase, NoCursor
  <2> QED
    BY <2>2, <2>3, <2>5 DEF PhaseOf
<1>10. CASE InspectInit(r)
  BY <1>10, <1>s, <1>m DEF InspectInit, PhaseOf, Add, fsVars, dbVars, srvVars, jobVars, runVars
<1>11. CASE InspectRead(r)
  BY <1>11, <1>s, <1>m DEF InspectRead, PhaseOf, NoCursor, Add, fsVars, dbVars, srvVars,
     jobVars, runVars
<1>12. CASE CreateInitial(r)
  BY <1>12, <1>s, <1>m DEF CreateInitial, PhaseOf, NoCursor, Add, fsVars, dbVars, srvVars,
     jobVars, runVars
<1>13. CASE EmitStarted(r)
  BY <1>13, <1>s, <1>m DEF EmitStarted, PhaseOf, Add, fsVars, dbVars, srvVars, jobVars, runVars
<1>14. CASE ExecSucceeds(r)
  <2>1. managed'
    <3>1. Accepts(Sent(r)) /\ Commit(Sent(r)) /\ pc[r] = "exec"
      BY <1>14 DEF ExecSucceeds
    <3>2. CASE cursor[r].phase = "history"
      BY <3>1, <3>2 DEF Sent, Commit
    <3>3. CASE cursor[r].phase # "history"
      BY <3>1, <3>3, <1>s, <1>m DEF PhaseOf
    <3> QED
      BY <3>2, <3>3
  <2>2. pc[r] = "exec" /\ pc'[r] = "ack" /\ UNCHANGED <<job, plan, cursor, err>>
    BY <1>14 DEF ExecSucceeds, jobVars
  <2> QED
    BY <2>1, <2>2, <1>s DEF PhaseOf
<1>15. CASE ExecFails(r)
  BY <1>15, <1>s, <1>m DEF ExecFails, PhaseOf, dbVars, jobVars
<1>16. CASE ExecLost(r)
  BY <1>16, <1>s, <1>m DEF ExecLost, PhaseOf, dbVars, jobVars
<1>17. CASE EmitOutcome(r)
  <2>1. pc[r] = "ack" /\ UNCHANGED <<job, plan, managed>>
    BY <1>17 DEF EmitOutcome, dbVars, jobVars
  <2>2. "inspect" \notin err'[r]
    <3>1. PICK failed \in SUBSET {"operation", "log"} : err' = [err EXCEPT ![r] = err[r] \cup failed]
      BY <1>17 DEF EmitOutcome
    <3> QED
      BY <2>1, <3>1, <1>s DEF PhaseOf
  <2>3. CASE Abort(r) /\ UNCHANGED cursor
    BY <2>1, <2>2, <2>3, <1>s DEF PhaseOf
  <2>4. CASE Advance(r) /\ reply[r] = "succeeded"
    <3>1. managed /\ cursor[r].step \in 1 .. Len(plan[r]) /\ job[r].op \in {"up", "down", "baseline"}
      BY <2>1, <2>4, <1>s DEF PhaseOf, Shape, CursorInv, AtOperation
    <3>2. CASE cursor[r].phase = "record"
      BY <2>1, <2>2, <2>4, <3>1, <3>2, <1>s DEF PhaseOf, Advance
    <3>3. CASE cursor[r].phase # "record"
      <4>1. pc'[r] = "emit" /\ cursor'[r].phase # "history"
        BY <2>1, <2>4, <3>3 DEF Advance, AfterSQL, At, Cursor
      <4> QED
        BY <2>1, <2>2, <3>1, <4>1, <1>s DEF PhaseOf
    <3> QED
      BY <3>2, <3>3
  <2> QED
    BY <1>17, <2>3, <2>4 DEF EmitOutcome
<1>18. CASE Flush(r)
  BY <1>18, <1>s, <1>m DEF Flush, PhaseOf, Add, fsVars, dbVars, srvVars, jobVars, runVars
<1>19. CASE Capture(r)
  BY <1>19, <1>s, <1>m DEF Capture, PhaseOf, Add, fsVars, dbVars, srvVars, jobVars, runVars
<1>20. CASE Output(r)
  <2>1. pc[r] = "output" /\ UNCHANGED <<job, plan, managed>>
    BY <1>20 DEF Output, dbVars, jobVars
  <2>2. "inspect" \notin err'[r]
    BY <1>20, <1>s DEF Output, PhaseOf, Add
  <2>3. CASE cursor' = cursor /\ pc'[r] \in {"release", "flush"}
    BY <2>1, <2>2, <2>3, <1>s DEF PhaseOf
  <2>4. CASE /\ job[r].op \in {"up", "down"} /\ cursor[r].step < Len(plan[r])
             /\ cursor' = [cursor EXCEPT ![r] = At("sql", cursor[r].step + 1, 1)]
             /\ pc'[r] = "emit"
    <3>1. plan[r] # <<>>
      BY <2>4, EmptySeq DEF Cursor
    <3>2. managed
      BY <2>1, <2>4, <3>1, <1>s DEF PhaseOf
    <3> QED
      BY <2>1, <2>2, <2>4, <3>2 DEF PhaseOf, At
  <2> QED
    BY <1>20, <2>3, <2>4 DEF Output
<1>21. CASE Release(r)
  BY <1>21, <1>s, <1>m DEF Release, PhaseOf, Add, fsVars, dbVars, srvVars, jobVars, runVars
<1>22. CASE Crash(r)
  BY <1>22, <1>s, <1>m DEF Crash, PhaseOf, Add, fsVars, dbVars, srvVars, jobVars, runVars
<1>23. CASE SessionDies(r)
  BY <1>23, <1>s, <1>m DEF SessionDies, PhaseOf, Add, fsVars, dbVars, srvVars, jobVars, runVars
<1>24. CASE Reap(r)
  BY <1>24, <1>s, <1>m DEF Reap, PhaseOf, Add, fsVars, dbVars, srvVars, jobVars, runVars
<1>25. CASE Land(r)
  BY <1>25, <1>s, <1>m DEF Land, PhaseOf, runVars, jobVars
<1> QED
  BY <1>1, <1>2, <1>3, <1>4, <1>5, <1>6, <1>7, <1>8, <1>9, <1>10, <1>11, <1>12, <1>13, <1>14,
     <1>15, <1>16, <1>17, <1>18, <1>19, <1>20, <1>21, <1>22, <1>23, <1>24, <1>25 DEF StepOf,
     Proceed

LEMMA PlaceStep ==
    Shape /\ PlaceInv /\ LockHeldByWorker' /\ [Next]_vars => PlaceInv'
<1> SUFFICES ASSUME Shape, PlaceInv, LockHeldByWorker', [Next]_vars PROVE PlaceInv'
  OBVIOUS
<1>0. SessionInv'
  BY SessionStep DEF PlaceInv
<1>1. ASSUME NEW r \in Runners, StepOf(r) PROVE PlaceInv'
  <2>1. ASSUME NEW q \in Runners \ {r} PROVE OrphanOf(q)' /\ PhaseOf(q)'
    <3>1. OrphanOf(q) /\ PhaseOf(q) /\ (managed => managed')
      BY <1>1, ManagedStays DEF PlaceInv
    <3>2. OthersStay(r)
      BY <1>1, Frame
    <3>3. /\ pc'[q] = pc[q] /\ job'[q] = job[q] /\ plan'[q] = plan[q] /\ cursor'[q] = cursor[q]
          /\ reply'[q] = reply[q] /\ err'[q] = err[q] /\ sess'[q] = sess[q]
          /\ orphan'[q] = orphan[q] /\ (lockOwner' = q <=> lockOwner = q)
      BY <3>2 DEF OthersStay, Same
    <3>4. Sent(q)' = Sent(q) /\ Placed(q)' = Placed(q) /\ Ended(q)' = Ended(q)
      BY <3>3 DEF Sent, Placed, Ended, Version, Statements
    <3> QED
      BY <3>1, <3>3, <3>4 DEF OrphanOf, PhaseOf
  <2>2. OrphanOf(r)' /\ PhaseOf(r)'
    BY <1>1, OrphanOfStep, PhaseOfStep
  <2> QED
    BY <1>0, <2>1, <2>2 DEF PlaceInv
<1>2. CASE Edit \/ UNCHANGED vars
  <2>1. UNCHANGED <<dbVars, srvVars, pc, runVars>>
    BY <1>2 DEF Edit, vars
  <2>2. ASSUME NEW q \in Runners PROVE OrphanOf(q)' /\ PhaseOf(q)'
    <3>1. Sent(q)' = Sent(q) /\ Placed(q)' = Placed(q) /\ Ended(q)' = Ended(q)
      BY <2>1 DEF Sent, Placed, Ended, Version, Statements, runVars, jobVars
    <3>2. UNCHANGED <<pc, job, plan, cursor, reply, err, sess, orphan, lockOwner, managed>>
      BY <2>1 DEF runVars, jobVars, dbVars, srvVars
    <3>3. OrphanOf(q) /\ PhaseOf(q)
      BY DEF PlaceInv
    <3> QED
      BY <3>1, <3>2, <3>3 DEF OrphanOf, PhaseOf
  <2> QED
    BY <1>0, <2>2 DEF PlaceInv
<1> QED
  BY <1>1, <1>2, StepCases

LEMMA PlaceInit == Init => PlaceInv
<1> SUFFICES ASSUME Init PROVE PlaceInv
  OBVIOUS
<1>1. LockHeldByWorker /\ SessionInv
  BY SessionInit DEF Init, LockHeldByWorker, Working
<1>2. ASSUME NEW r \in Runners PROVE OrphanOf(r) /\ PhaseOf(r)
  BY DEF Init, OrphanOf, PhaseOf, NoCursor
<1> QED
  BY <1>1, <1>2 DEF PlaceInv

---------------------------------------------------------------------------
(* What buildPlan makes of the files and the records.                      *)

\* A plan has the SQL of the selected versions, in the order of the candidates.
IsPlan(p, d, fs, s) ==
    /\ Len(p) \in Nat /\ Len(p) <= Len(s)
    /\ \A i \in 1 .. Len(p) : /\ p[i].version = s[i]
                              /\ s[i] \in DOMAIN fs
                              /\ p[i].statements = SQLOf(d, fs[s[i]])

LEMMA PlanOf ==
    ASSUME NEW fs, NEW d, NEW k \in Nat, NEW sn, NEW s \in Seq(Versions),
           ~PlanFails(d, k, fs, sn, s)
    PROVE  IsPlan(PlanSteps(d, k, fs, s), d, fs, s)
<1> DEFINE n == Count(k, s)
           e(i) == [version |-> s[i], statements |-> SQLOf(d, fs[s[i]])]
<1>1. n \in Nat /\ n <= Len(s) /\ Len(s) \in Nat
  BY LenProperties DEF Count, PlanFails
<1>2. \A i \in 1 .. n : s[i] \in DOMAIN fs
  BY DEF Selected, PlanFails
<1>3. PlanSteps(d, k, fs, s) = [i \in 1 .. n |-> e(i)]
  BY DEF PlanSteps
<1>4. \A i \in 1 .. n : e(i).version = s[i] /\ e(i).statements = SQLOf(d, fs[s[i]])
  OBVIOUS
<1> HIDE DEF n, e
<1>5. Len(PlanSteps(d, k, fs, s)) = n
  BY <1>1, <1>3
<1>6. \A i \in 1 .. n : PlanSteps(d, k, fs, s)[i] = e(i)
  BY <1>3
<1> QED
  BY <1>1, <1>2, <1>4, <1>5, <1>6 DEF IsPlan

\* Up selects files that are not recorded, each once.
LEMMA UpCandidates ==
    ASSUME NEW fs, IsDirectory(fs), NEW h, NEW s \in Candidates("up", fs, h)
    PROVE  /\ s \in Seq(Versions) /\ Len(s) \in Nat
           /\ \A i \in 1 .. Len(s) : s[i] \in DOMAIN fs /\ s[i] \notin DOMAIN h
           /\ \A i, j \in 1 .. Len(s) : s[i] = s[j] => i = j
<1> DEFINE P == Pending(fs, h)
<1>1. P \subseteq Versions /\ IsFiniteSet(P) /\ \A v \in P : v \in DOMAIN fs /\ v \notin DOMAIN h
  BY VersionsAssumption, FS_Subset DEF IsDirectory, Pending
<1>2. s \in Bijection(1 .. Cardinality(P), P)
  BY DEF Candidates, Ascending
<1> HIDE DEF P
<1>3. s \in Seq(P) /\ s \in Seq(Versions)
  BY <1>1, <1>2, BijectionIsSeq, SeqMonotonic
<1>4. DOMAIN s = 1 .. Len(s) /\ Len(s) \in Nat /\ \A i \in 1 .. Len(s) : s[i] \in P
  BY <1>3, LenProperties, ElementOfSeq
<1>5. \A i, j \in DOMAIN s : s[i] = s[j] => i = j
  BY <1>2 DEF Bijection, Injection, IsInjective
<1>6. ASSUME NEW i \in 1 .. Len(s), NEW j \in 1 .. Len(s), s[i] = s[j] PROVE i = j
  BY <1>4, <1>5, <1>6
<1> QED
  BY <1>1, <1>3, <1>4, <1>6

\* Down selects the records from the latest registration back.
LEMMA DownCandidates ==
    ASSUME NEW fs, NEW h, IsHistory(h), NEW s \in Candidates("down", fs, h),
           NEW t \in RegistrationOrder(h)
    PROVE  /\ s \in Seq(Versions) /\ Len(s) = Len(t) /\ Len(t) \in Nat
           /\ \A i \in 1 .. Len(t) : Len(t) + 1 - i \in 1 .. Len(t) /\ s[i] = t[Len(t) + 1 - i]
           /\ \A i, j \in 1 .. Len(s) : s[i] = s[j] => i = j
<1>1. PICK u \in RegistrationOrder(h) : s = Backwards(u)
  BY DEF Candidates
<1>2. u = t
  BY OneOrder
<1>3. t \in Seq(Versions) /\ Len(t) \in Nat /\ \A i, j \in 1 .. Len(t) : t[i] = t[j] => i = j
  BY OrderShape
<1> DEFINE n == Len(t)
           e(i) == t[n + 1 - i]
<1>4. s = [i \in 1 .. n |-> e(i)]
  BY <1>1, <1>2 DEF Backwards
<1>5. \A i \in 1 .. n : n + 1 - i \in 1 .. n /\ e(i) \in Versions
  BY <1>3, ElementOfSeq
<1>6. n \in Nat
  BY <1>3
<1>7. \A i \in 1 .. n : e(i) = t[n + 1 - i]
  OBVIOUS
<1> HIDE DEF e
<1>8. s \in Seq(Versions) /\ Len(s) = n
  BY <1>4, <1>5, <1>6
<1>9. \A i \in 1 .. n : s[i] = t[n + 1 - i]
  BY <1>4, <1>7
<1>10. ASSUME NEW i \in 1 .. n, NEW j \in 1 .. n, s[i] = s[j] PROVE i = j
  <2>1. t[n + 1 - i] = t[n + 1 - j]
    BY <1>9, <1>10
  <2>2. n + 1 - i = n + 1 - j
    BY <1>3, <1>5, <2>1
  <2> QED
    BY <1>6, <2>2
<1> QED
  BY <1>3, <1>5, <1>8, <1>9, <1>10

---------------------------------------------------------------------------
(* The files.                                                              *)

\* The operation is chosen at the start; a plan has the SQL of the files that were
\* read, each file once.
FilesOf(r) ==
    /\ pc[r] # "start" => job[r].op \in Operations
    /\ \A v \in DOMAIN loaded[r] : loaded[r][v] \in Contents[v]
    /\ job[r].op \in {"up", "down"} => \A i \in 1 .. Len(plan[r]) :
          /\ plan[r][i].version \in DOMAIN loaded[r]
          /\ plan[r][i].statements = SQLOf(job[r].op, loaded[r][plan[r][i].version])
          /\ \A j \in 1 .. Len(plan[r]) : plan[r][i].version = plan[r][j].version => i = j

FilesInv ==
    /\ \A v \in DOMAIN files : files[v] \in Contents[v]
    /\ \A r \in Runners : FilesOf(r)

LEMMA JobStays ==
    ASSUME NEW r \in Runners, StepOf(r)
    PROVE  \/ UNCHANGED <<job, loaded, plan>>
           \/ Start(r) \/ Load(r) \/ InspectInit(r) \/ InspectApply(r) \/ InspectBaseline(r)
BY DEF StepOf, Proceed, Connect, AcquireLock, LockTimesOut, LockFails,
   InspectFails, InspectRead, CreateInitial, EmitStarted, ExecSucceeds,
   ExecFails, ExecLost, EmitOutcome, Flush, Capture, Output, Release, Crash,
   SessionDies, Reap, Land, runVars, jobVars

\* The plan that Apply computes.
LEMMA FilesApply ==
    ASSUME Shape, PlaceInv, FilesInv, NEW r \in Runners, InspectApply(r)
    PROVE  FilesOf(r)'
<1>1. UNCHANGED <<job, loaded>> /\ pc[r] = "inspect" /\ DOMAIN plan = Runners /\ FilesOf(r)
  BY DEF InspectApply, jobVars, Shape, TypeOK, RunnerTypeOK, FilesInv
<1>2. IsDirectory(loaded[r]) /\ IsHistory(history) /\ job[r].steps \in Nat
  BY DEF Shape, TypeOK, RunnerTypeOK, DatabaseTypeOK, AreDirectories, Job
<1>3. CASE UNCHANGED plan
  BY <1>1, <1>3 DEF FilesOf
<1>4. CASE ~UNCHANGED plan
  <2>0. PICK d \in {"up", "down"} : d = Direction(r)
    BY DEF Direction
  <2>1. PICK s \in Candidates(d, loaded[r], history) :
           /\ ~PlanFails(d, job[r].steps, loaded[r], Current, s)
           /\ plan' = [plan EXCEPT ![r] = PlanSteps(d, job[r].steps, loaded[r], s)]
    BY <1>4, <2>0, ApplyCases
  <2>2. s \in Seq(Versions) /\ Len(s) \in Nat /\ \A i, j \in 1 .. Len(s) : s[i] = s[j] => i = j
    <3>1. PICK t : t \in RegistrationOrder(history)
      BY ApplyCases
    <3>2. CASE d = "up"
      BY <1>2, <2>1, <3>2, UpCandidates
    <3>3. CASE d = "down"
      BY <1>2, <2>1, <3>1, <3>3, DownCandidates
    <3> QED
      BY <3>2, <3>3
  <2>3. PICK p : p = PlanSteps(d, job[r].steps, loaded[r], s) /\ plan'[r] = p
    BY <1>1, <2>1
  <2>4. IsPlan(p, d, loaded[r], s)
    BY <1>2, <2>1, <2>2, <2>3, PlanOf
  <2>5. job[r].op \in {"up", "down"} => d = job[r].op
    BY <2>0 DEF Direction
  <2>6. ASSUME NEW i \in 1 .. Len(p), NEW j \in 1 .. Len(p), p[i].version = p[j].version
        PROVE  i = j
    <3>1. s[i] = s[j] /\ i \in 1 .. Len(s) /\ j \in 1 .. Len(s)
      BY <2>2, <2>4, <2>6 DEF IsPlan
    <3> QED
      BY <2>2, <3>1
  <2> QED
    BY <1>1, <2>3, <2>4, <2>5, <2>6 DEF FilesOf, IsPlan
<1> QED
  BY <1>3, <1>4

LEMMA FilesOfStep ==
    ASSUME Shape, PlaceInv, FilesInv, NEW r \in Runners, StepOf(r)
    PROVE  FilesOf(r)'
<1>t. DOMAIN job = Runners /\ DOMAIN loaded = Runners /\ DOMAIN plan = Runners
  BY DEF Shape, TypeOK, RunnerTypeOK, AreDirectories
<1>s. FilesOf(r) /\ PhaseOf(r)
  BY DEF FilesInv, PlaceInv
<1>o. pc'[r] # "start" => job'[r].op \in Operations
  <2>1. CASE Start(r)
    BY <2>1, <1>t DEF Start
  <2>2. CASE ~Start(r)
    <3>1. job' = job
      BY <2>2, JobStays DEF Load, InspectInit, InspectApply, InspectBaseline, jobVars
    <3>2. pc'[r] # "start" => pc[r] # "start"
      BY <2>2 DEF StepOf, Proceed, Load, Connect, AcquireLock, LockTimesOut, LockFails,
         InspectFails, InspectApply, InspectBaseline, InspectInit, InspectRead, CreateInitial,
         EmitStarted, ExecSucceeds, ExecFails, ExecLost, EmitOutcome, Flush, Capture, Output,
         Release, Crash, Active, SessionDies, Reap, Land
    <3> QED
      BY <3>1, <3>2, <1>s DEF FilesOf
  <2> QED
    BY <2>1, <2>2
<1>1. CASE UNCHANGED <<job, loaded, plan>>
  BY <1>1, <1>s, <1>o DEF FilesOf
<1>2. CASE Start(r)
  BY <1>2, <1>s, <1>o, <1>t, EmptySeq DEF Start, FilesOf, PhaseOf
<1>3. CASE Load(r)
  BY <1>3, <1>s, <1>o, <1>t, EmptySeq DEF Load, FilesOf, PhaseOf, FilesInv
<1>4. CASE InspectInit(r)
  BY <1>4, <1>s, <1>o, <1>t, EmptySeq DEF InspectInit, FilesOf, PhaseOf, FilesInv
<1>5. CASE InspectBaseline(r)
  BY <1>5, <1>s, <1>o, <1>t DEF InspectBaseline, FilesOf, jobVars
<1>6. CASE InspectApply(r)
  BY <1>6, FilesApply
<1> QED
  BY <1>1, <1>2, <1>3, <1>4, <1>5, <1>6, JobStays

\* What Init writes is a file of the initial version.
LEMMA CreatedFile ==
    ASSUME Shape, FilesInv, NEW r \in Runners, CreateInitial(r)
    PROVE  \A v \in DOMAIN files' : files'[v] \in Contents[v]
<1>1. CASE UNCHANGED files
  BY <1>1 DEF FilesInv
<1>2. CASE ~UNCHANGED files
  <2> DEFINE O == snap[r].objs
             b(s) == [up |-> [i \in DOMAIN s |-> [op |-> "create", obj |-> s[i], guarded |-> FALSE]],
                      down |-> <<>>]
  <2>1. PICK s \in Bijection(1 .. Cardinality(O), O) : files' = [w \in {InitialVersion} |-> b(s)]
    BY <1>2 DEF CreateInitial
  <2>2. O \in SUBSET Objects
    BY DEF Shape, TypeOK, RunnerTypeOK, Snapshot
  <2>3. b(s) \in InitialBodies
    BY <2>2 DEF InitialBodies
  <2> HIDE DEF b
  <2> QED
    BY <2>1, <2>3, FilesAssumption DEF Contents
<1> QED
  BY <1>1, <1>2

LEMMA FilesStep == Shape /\ PlaceInv /\ FilesInv /\ [Next]_vars => FilesInv'
<1> SUFFICES ASSUME Shape, PlaceInv, FilesInv, [Next]_vars PROVE FilesInv'
  OBVIOUS
<1>1. ASSUME NEW r \in Runners, StepOf(r) PROVE FilesInv'
  <2>1. ASSUME NEW q \in Runners \ {r} PROVE FilesOf(q)'
    <3>1. /\ job'[q] = job[q] /\ loaded'[q] = loaded[q] /\ plan'[q] = plan[q]
          /\ pc'[q] = pc[q]
      BY <1>1, Frame DEF OthersStay, Same
    <3> QED
      BY <3>1 DEF FilesInv, FilesOf
  <2>2. FilesOf(r)'
    BY <1>1, FilesOfStep
  <2>3. CreateInitial(r) \/ UNCHANGED files
    BY <1>1 DEF StepOf, Proceed, Start, Load, Connect, AcquireLock, LockTimesOut, LockFails,
       InspectFails, InspectApply, InspectBaseline, InspectInit, InspectRead, EmitStarted,
       ExecSucceeds, ExecFails, ExecLost, EmitOutcome, Flush, Capture, Output, Release, Crash,
       SessionDies, Reap, Land, fsVars
  <2> QED
    BY <2>1, <2>2, <2>3, CreatedFile DEF FilesInv
<1>2. CASE Edit
  <2>1. \A q \in Runners : FilesOf(q)'
    BY <1>2 DEF Edit, runVars, jobVars, FilesInv, FilesOf
  <2>2. CASE \E v \in DOMAIN files : files' = Restrict(files, DOMAIN files \ {v})
    BY <2>1, <2>2 DEF FilesInv, Restrict
  <2>3. CASE \E v \in Versions : \E b \in Bodies[v] :
             files' = [w \in DOMAIN files \cup {v} |-> IF w = v THEN b ELSE files[w]]
    <3>0. PICK v \in Versions : \E b \in Bodies[v] :
             files' = [w \in DOMAIN files \cup {v} |-> IF w = v THEN b ELSE files[w]]
      BY <2>3
    <3>1. PICK b \in Bodies[v] :
             files' = [w \in DOMAIN files \cup {v} |-> IF w = v THEN b ELSE files[w]]
      BY <3>0
    <3>2. b \in Contents[v]
      BY DEF Contents
    <3> QED
      BY <2>1, <3>1, <3>2 DEF FilesInv
  <2> QED
    BY <1>2, <2>2, <2>3 DEF Edit
<1>3. CASE UNCHANGED vars
  BY <1>3 DEF vars, fsVars, runVars, jobVars, FilesInv, FilesOf
<1> QED
  BY <1>1, <1>2, <1>3, StepCases

LEMMA FilesInit == Init => FilesInv
BY FilesAssumption DEF Init, FilesInv, FilesOf, Contents, IsDirectory, NoJob

---------------------------------------------------------------------------
(* The holder of the lock knows the version table.                         *)

\* Created_at values increase from one registration to the next.
ClockAdvances == ClockSteps \subseteq Nat \ {0}

ClockInv == ClockAdvances => \A v \in DOMAIN history : history[v] <= clock

\* A record operation is on its way.
InFlight(r) == orphan[r] # {} /\ cursor[r].phase = "record"

LEMMA InFlightIsRecord ==
    ASSUME Shape, PlaceInv, NEW r \in Runners
    PROVE  RecordInFlight(r) <=> InFlight(r)
<1>1. orphan[r] # {} => orphan[r] = {Sent(r)}
  BY DEF PlaceInv, OrphanOf
<1>2. orphan[r] # {} /\ cursor[r].phase = "record" => Sent(r).phase \in {"insert", "delete"}
  BY DEF Sent
<1>3. orphan[r] # {} /\ cursor[r].phase # "record" => Sent(r).phase \in {"history", "sql"}
  <2>1. cursor[r].phase \in Phases
    BY DEF Shape, TypeOK, RunnerTypeOK, Cursor
  <2> QED
    BY <2>1 DEF Sent, Phases
<1> QED
  BY <1>1, <1>2, <1>3 DEF RecordInFlight, InFlight

\* The record of the current step is done.
Recorded(r) ==
    \/ pc[r] \in {"capture", "output"}
    \/ pc[r] = "ack" /\ reply[r] = "succeeded" /\ cursor[r].phase = "record"

\* The records of the plan that are done.
Completed(r) == IF Recorded(r) THEN cursor[r].step ELSE cursor[r].step - 1

\* The invocation still decides what the version table says.
Decides(r) == lockOwner = r /\ (Alive(r) \/ InFlight(r))

\* It is carrying out its plan.
AtWork(r) == pc[r] \in {"emit", "exec", "ack", "capture", "output"} \/ InFlight(r)

\* It knows the version table: as it was read, and changed by its own records.
StackOf(r) ==
    /\ Decides(r) /\ pc[r] # "inspect" /\ "inspect" \notin err[r]
    /\ job[r].op \in {"up", "down", "plan up", "plan down", "dump", "status"}
    /\ job[r].op = "up" => ClockAdvances
    => result[r].stack \in RegistrationOrder(history)

\* What is left of its plan is what buildPlan would select now.
AheadOf(r) ==
    Decides(r) /\ AtWork(r) =>
        /\ job[r].op = "up" =>
              \A i \in Completed(r) + 1 .. Len(plan[r]) : plan[r][i].version \notin DOMAIN history
        /\ job[r].op = "down" =>
              \A i \in Completed(r) + 1 .. Len(plan[r]) :
                 LET n == Len(result[r].stack) + 1 + Completed(r) - i
                 IN  n \in 1 .. Len(result[r].stack) /\ plan[r][i].version = result[r].stack[n]
        /\ job[r].op = "baseline" /\ ~Recorded(r) => DOMAIN history = {}

KnowsInv == ClockInv /\ \A r \in Runners : StackOf(r) /\ AheadOf(r)

\* At a record, the plan's next version is the next one of the version table.
LEMMA AtRecord ==
    ASSUME Shape, PlaceInv, KnowsInv, NEW r \in Runners, Decides(r),
           pc[r] = "exec" \/ InFlight(r), cursor[r].phase = "record"
    PROVE  /\ Placed(r) /\ ~Recorded(r) /\ Completed(r) = cursor[r].step - 1
           /\ pc[r] # "inspect" /\ "inspect" \notin err[r]
           /\ job[r].op = "up" => Version(r) \notin DOMAIN history
           /\ job[r].op = "baseline" => DOMAIN history = {}
           /\ job[r].op = "down" =>
                 /\ result[r].stack \in RegistrationOrder(history)
                 /\ Len(result[r].stack) \in Nat \ {0}
                 /\ Version(r) = result[r].stack[Len(result[r].stack)]
<1>1. Placed(r)
  BY DEF PlaceInv, OrphanOf, InFlight, Placed, Shape, CursorInv, AtOperation, Statements
<1>2. pc[r] = "exec" \/ Ended(r)
  BY DEF PlaceInv, OrphanOf, InFlight
<1>3. ~Recorded(r) /\ pc[r] # "inspect"
  BY <1>2 DEF Recorded, Ended
<1>4. plan[r] # <<>> /\ cursor[r].step \in Nat /\ Len(plan[r]) \in Nat
  <2>1. plan[r] \in Seq(Step) /\ cursor[r] \in Cursor
    BY DEF Shape, TypeOK, RunnerTypeOK
  <2> QED
    BY <1>1, <2>1, EmptySeq, LenProperties DEF Placed, Cursor
<1>5. "inspect" \notin err[r]
  BY <1>4 DEF PlaceInv, PhaseOf
<1>6. StackOf(r) /\ AheadOf(r) /\ AtWork(r)
  BY DEF KnowsInv, AtWork
<1>7. Completed(r) = cursor[r].step - 1
  BY <1>3 DEF Completed
<1>8. cursor[r].step \in Completed(r) + 1 .. Len(plan[r])
  BY <1>1, <1>4, <1>7 DEF Placed
<1>9. job[r].op = "up" => Version(r) \notin DOMAIN history
  BY <1>6, <1>8 DEF AheadOf, Version
<1>10. ASSUME job[r].op = "down"
       PROVE  /\ result[r].stack \in RegistrationOrder(history)
              /\ Len(result[r].stack) \in Nat \ {0}
              /\ Version(r) = result[r].stack[Len(result[r].stack)]
  <2>1. result[r].stack \in RegistrationOrder(history)
    BY <1>3, <1>5, <1>6, <1>10 DEF StackOf
  <2>2. Len(result[r].stack) \in Nat
    BY LenProperties DEF Shape, TypeOK, RunnerTypeOK, Outcome
  <2> DEFINE n == Len(result[r].stack) + 1 + Completed(r) - cursor[r].step
  <2>3. n \in 1 .. Len(result[r].stack) /\ Version(r) = result[r].stack[n]
    BY <1>6, <1>8, <1>10 DEF AheadOf, Version
  <2>4. n = Len(result[r].stack)
    <3>1. \A m, k \in Nat : m + 1 + (k - 1) - k = m
      OBVIOUS
    <3> QED
      BY <1>4, <1>7, <2>2, <3>1
  <2> QED
    BY <2>1, <2>2, <2>3, <2>4
<1>11. job[r].op = "baseline" => DOMAIN history = {}
  BY <1>3, <1>6 DEF AheadOf
<1> QED
  BY <1>1, <1>3, <1>5, <1>7, <1>9, <1>10, <1>11

\* A record that is inserted or removed: what the server does to the table.
LEMMA RecordCommit ==
    ASSUME Shape, NEW r \in Runners, Commit(Sent(r))
    PROVE  /\ cursor[r].phase # "record" => UNCHANGED <<history, clock>>
           /\ cursor[r].phase = "record" /\ job[r].op = "down" =>
                 UNCHANGED clock /\ history' = Restrict(history, DOMAIN history \ {Version(r)})
           /\ cursor[r].phase = "record" /\ job[r].op # "down" =>
                 \E now \in Times :
                    /\ clock' = now /\ now - clock \in ClockSteps
                    /\ history' = [w \in DOMAIN history \cup {Version(r)} |->
                                      IF w \in DOMAIN history THEN history[w] ELSE now]
<1>1. cursor[r].phase \in {"history", "sql", "record"} /\ clock \in Int
  BY TimesAssumption DEF Shape, TypeOK, RunnerTypeOK, Cursor, Phases, DatabaseTypeOK
<1>2. CASE cursor[r].phase # "record"
  BY <1>1, <1>2 DEF Commit, Sent
<1>3. CASE cursor[r].phase = "record" /\ job[r].op = "down"
  BY <1>3 DEF Commit, Sent
<1>4. CASE cursor[r].phase = "record" /\ job[r].op # "down"
  <2>1. PICK d \in ClockSteps :
           /\ clock + d \in Times /\ clock' = clock + d
           /\ history' = [w \in DOMAIN history \cup {Version(r)} |->
                             IF w \in DOMAIN history THEN history[w] ELSE clock + d]
    BY <1>4 DEF Commit, Sent
  <2>2. (clock + d) - clock = d
    BY <1>1, <2>1, BoundsAssumption
  <2> QED
    BY <1>4, <2>1, <2>2
<1> QED
  BY <1>2, <1>3, <1>4

LEMMA ClockStep == Shape /\ PlaceInv /\ ClockInv /\ [Next]_vars => ClockInv'
<1> SUFFICES ASSUME Shape, PlaceInv, ClockInv, [Next]_vars PROVE ClockInv'
  OBVIOUS
<1>1. ASSUME NEW r \in Runners, Commit(Sent(r)) PROVE ClockInv'
  <2>1. CASE UNCHANGED <<history, clock>>
    BY <2>1 DEF ClockInv
  <2>2. CASE UNCHANGED clock /\ history' = Restrict(history, DOMAIN history \ {Version(r)})
    BY <2>2 DEF ClockInv, Restrict
  <2>3. ASSUME NEW now \in Times, clock' = now, now - clock \in ClockSteps,
               history' = [w \in DOMAIN history \cup {Version(r)} |->
                              IF w \in DOMAIN history THEN history[w] ELSE now]
        PROVE  ClockInv'
    <3> SUFFICES ASSUME ClockAdvances, NEW w \in DOMAIN history' PROVE history'[w] <= clock'
      BY DEF ClockInv, ClockAdvances
    <3>1. now \in Int /\ clock \in Int /\ clock < now
      BY <2>3, TimesAssumption DEF Shape, TypeOK, DatabaseTypeOK, ClockAdvances
    <3>2. CASE w \in DOMAIN history
      <4>1. history[w] \in Int /\ history[w] <= clock
        BY <3>2, TimesAssumption DEF ClockInv, Shape, TypeOK, DatabaseTypeOK, IsHistory
      <4> QED
        BY <2>3, <3>1, <3>2, <4>1
    <3>3. CASE w \notin DOMAIN history
      BY <2>3, <3>1, <3>3
    <3> QED
      BY <3>2, <3>3
  <2> QED
    BY <1>1, <2>1, <2>2, <2>3, RecordCommit
<1>2. ASSUME NEW r \in Runners, StepOf(r) PROVE ClockInv'
  <2>1. CASE ExecSucceeds(r)
    BY <1>1, <2>1 DEF ExecSucceeds
  <2>2. CASE Land(r)
    <3>1. \A o \in orphan[r] : o = Sent(r)
      BY DEF PlaceInv, OrphanOf
    <3>2. Commit(Sent(r)) \/ UNCHANGED dbVars
      BY <2>2, <3>1 DEF Land
    <3> QED
      BY <1>1, <3>2 DEF ClockInv, dbVars
  <2>3. CASE UNCHANGED dbVars
    BY <2>3 DEF ClockInv, dbVars
  <2> QED
    BY <1>2, <2>1, <2>2, <2>3, DatabaseStays
<1>3. CASE Edit \/ UNCHANGED vars
  BY <1>3 DEF Edit, vars, dbVars, ClockInv
<1> QED
  BY <1>2, <1>3, StepCases

\* A record that is confirmed to the invocation.
LEMMA KnowsRecord ==
    ASSUME Shape, PlaceInv, FilesInv, KnowsInv, NEW r \in Runners, ExecSucceeds(r),
           cursor[r].phase = "record"
    PROVE  StackOf(r)' /\ AheadOf(r)'
<1>1. pc[r] = "exec" /\ Alive(r) /\ Accepts(Sent(r)) /\ Commit(Sent(r)) /\ UNCHANGED <<job, plan, cursor>>
  BY DEF ExecSucceeds, jobVars
<1>2. Decides(r)
  BY <1>1 DEF PlaceInv, LockHeldByWorker, Working, Decides
<1>3. /\ Placed(r) /\ Completed(r) = cursor[r].step - 1
      /\ job[r].op = "up" => Version(r) \notin DOMAIN history
      /\ job[r].op = "down" =>
            /\ result[r].stack \in RegistrationOrder(history)
            /\ Len(result[r].stack) \in Nat \ {0}
            /\ Version(r) = result[r].stack[Len(result[r].stack)]
      /\ "inspect" \notin err[r]
  BY <1>1, <1>2, AtRecord
<1>4. IsHistory(history) /\ DOMAIN pc = Runners /\ DOMAIN reply = Runners /\ DOMAIN result = Runners
  BY DEF Shape, TypeOK, DatabaseTypeOK, RunnerTypeOK
<1>5. Version(r) \in Versions
  BY <1>1, AtStep DEF AtOperation
<1>6. /\ cursor[r].step \in Nat /\ Len(plan[r]) \in Nat
      /\ cursor[r].step \in 1 .. Len(plan[r])
      /\ job[r].op \in {"up", "down", "baseline"}
      /\ result[r].stack \in Seq(Versions) /\ Len(result[r].stack) \in Nat
  BY <1>3, LenProperties DEF Shape, TypeOK, RunnerTypeOK, Cursor, Outcome, Placed
<1>7. CASE job[r].op = "up"
  <2>1. PICK now \in Times :
           /\ clock' = now /\ now - clock \in ClockSteps
           /\ history' = [w \in DOMAIN history \cup {Version(r)} |->
                             IF w \in DOMAIN history THEN history[w] ELSE now]
    BY <1>1, <1>7, RecordCommit
  <2>2. /\ reply'[r] = "succeeded" /\ pc'[r] = "ack"
        /\ result'[r].stack = Append(result[r].stack, Version(r))
    <3>1. Sent(r).phase = "insert"
      BY <1>7 DEF Sent
    <3>2. reply' = [reply EXCEPT ![r] = "succeeded"] /\ Confirm(r) /\ Goto(r, "ack")
      BY <3>1 DEF ExecSucceeds
    <3> QED
      BY <1>4, <1>7, <3>2 DEF Goto, Confirm
  <2>3. Recorded(r)' /\ Completed(r)' = cursor[r].step
    BY <1>1, <2>2 DEF Recorded, Completed
  <2>4. AheadOf(r)'
    <3> SUFFICES ASSUME NEW i \in cursor[r].step + 1 .. Len(plan[r])
                 PROVE  plan[r][i].version \notin DOMAIN history'
      BY <1>1, <1>7, <2>3 DEF AheadOf
    <3>1. i \in Completed(r) + 1 .. Len(plan[r]) /\ i \in 1 .. Len(plan[r]) /\ i # cursor[r].step
      BY <1>3, <1>6
    <3>2. plan[r][i].version \notin DOMAIN history
      BY <1>1, <1>2, <1>7, <3>1 DEF KnowsInv, AheadOf, AtWork
    <3>3. plan[r][i].version # Version(r)
      BY <1>6, <1>7, <3>1 DEF FilesInv, FilesOf, Version
    <3> QED
      BY <2>1, <3>2, <3>3
  <2>5. ASSUME ClockAdvances PROVE result'[r].stack \in RegistrationOrder(history')
    <3>1. result[r].stack \in RegistrationOrder(history)
      BY <1>1, <1>2, <1>3, <1>7, <2>5 DEF KnowsInv, StackOf
    <3>2. ASSUME NEW w \in DOMAIN history PROVE history[w] < now
      <4>1. history[w] \in Int /\ clock \in Int /\ now \in Int /\ history[w] <= clock
        BY <2>5, <3>2, TimesAssumption
           DEF KnowsInv, ClockInv, Shape, TypeOK, DatabaseTypeOK, IsHistory
      <4>2. clock < now
        BY <2>1, <2>5, <4>1 DEF ClockAdvances
      <4> QED
        BY <4>1, <4>2
    <3>3. Append(result[r].stack, Version(r)) \in
             RegistrationOrder([w \in DOMAIN history \cup {Version(r)} |->
                                   IF w \in DOMAIN history THEN history[w] ELSE now])
      BY <1>3, <1>4, <1>5, <1>7, <3>1, <3>2, AppendOrder
    <3> QED
      BY <2>1, <2>2, <3>3
  <2>6. StackOf(r)'
    BY <1>1, <1>7, <2>5 DEF StackOf, ClockAdvances
  <2> QED
    BY <2>4, <2>6
<1>8. CASE job[r].op = "down"
  <2>1. history' = Restrict(history, DOMAIN history \ {Version(r)})
    BY <1>1, <1>8, RecordCommit
  <2> DEFINE s == result[r].stack
  <2>2. Version(r) \in DOMAIN history
    BY <1>3, <1>4, <1>8, LastIsLatest
  <2>3. /\ reply'[r] = "succeeded" /\ pc'[r] = "ack"
        /\ result'[r].stack = SubSeq(s, 1, Len(s) - 1)
    <3>1. reply' = [reply EXCEPT ![r] = "succeeded"] /\ Confirm(r) /\ Goto(r, "ack")
      BY <2>2 DEF ExecSucceeds
    <3> QED
      BY <1>4, <1>8, <3>1 DEF Goto, Confirm
  <2>4. result'[r].stack \in RegistrationOrder(history')
    BY <1>3, <1>4, <1>8, <2>1, <2>3, FrontOrder
  <2>5. StackOf(r)'
    BY <2>4 DEF StackOf
  <2>6. Recorded(r)' /\ Completed(r)' = cursor[r].step
    BY <1>1, <2>3 DEF Recorded, Completed
  <2>7. /\ Len(result'[r].stack) = Len(s) - 1
        /\ \A n \in 1 .. Len(s) - 1 : result'[r].stack[n] = s[n]
    <3>1. \A n \in 1 .. Len(s) - 1 : s[n] \in Versions
      BY <1>6, ElementOfSeq
    <3>2. /\ Len(SubSeq(s, 1, Len(s) - 1)) = IF 1 <= Len(s) - 1 THEN Len(s) - 1 - 1 + 1 ELSE 0
          /\ \A n \in 1 .. Len(s) - 1 - 1 + 1 : SubSeq(s, 1, Len(s) - 1)[n] = s[1 + n - 1]
      BY <1>6, <3>1, SubSeqProperties
    <3> HIDE DEF s
    <3> QED
      BY <1>3, <1>6, <1>8, <2>3, <3>2 DEF s
  <2>8. AheadOf(r)'
    <3> SUFFICES ASSUME NEW i \in cursor[r].step + 1 .. Len(plan[r])
                 PROVE  LET n == Len(s) - 1 + 1 + cursor[r].step - i
                        IN  n \in 1 .. Len(s) - 1 /\ plan[r][i].version = s[n]
      BY <1>1, <1>8, <2>6, <2>7 DEF AheadOf
    <3>1. i \in Completed(r) + 1 .. Len(plan[r])
      BY <1>3, <1>6
    <3>2. LET n == Len(s) + 1 + Completed(r) - i
          IN  n \in 1 .. Len(s) /\ plan[r][i].version = s[n]
      <4>1. AheadOf(r) /\ AtWork(r)
        BY <1>1 DEF KnowsInv, AtWork
      <4> QED
        BY <1>2, <1>8, <3>1, <4>1 DEF AheadOf
    <3>3. i \in Int /\ i > cursor[r].step
      BY <1>6
    <3>4. PICK m \in Nat, k \in Nat : m = Len(s) /\ k = cursor[r].step
      BY <1>6
    <3>5. ASSUME NEW x \in Nat, NEW y \in Nat, NEW z \in Int, z > y,
                 x + 1 + (y - 1) - z \in 1 .. x
          PROVE  /\ x + 1 + (y - 1) - z = x - 1 + 1 + y - z
                 /\ x - 1 + 1 + y - z \in 1 .. x - 1
      BY <3>5
    <3> HIDE DEF s
    <3>6. m + 1 + (k - 1) - i \in 1 .. m /\ plan[r][i].version = s[m + 1 + (k - 1) - i]
      BY <1>3, <3>2, <3>4
    <3>7. /\ m + 1 + (k - 1) - i = m - 1 + 1 + k - i
          /\ m - 1 + 1 + k - i \in 1 .. m - 1
      BY <3>3, <3>4, <3>5, <3>6
    <3> QED
      BY <3>4, <3>6, <3>7
  <2> QED
    BY <2>5, <2>8
<1>9. CASE job[r].op = "baseline"
  <2>1. reply'[r] = "succeeded" /\ pc'[r] = "ack"
    BY <1>4, <1>9 DEF ExecSucceeds, Goto, Sent
  <2>2. Recorded(r)'
    BY <1>1, <2>1 DEF Recorded
  <2> QED
    BY <1>1, <1>9, <2>2 DEF StackOf, AheadOf
<1> QED
  BY <1>6, <1>7, <1>8, <1>9

\* Knowledge that a step does not touch.
LEMMA StackStays ==
    ASSUME NEW r \in Runners, StackOf(r), UNCHANGED history,
           job'[r] = job[r], result'[r].stack = result[r].stack,
           Decides(r)' /\ pc'[r] # "inspect" /\ "inspect" \notin err'[r]
              => Decides(r) /\ pc[r] # "inspect" /\ "inspect" \notin err[r]
    PROVE  StackOf(r)'
BY DEF StackOf, ClockAdvances

LEMMA AheadStays ==
    ASSUME NEW r \in Runners, AheadOf(r), UNCHANGED history,
           job'[r] = job[r], result'[r].stack = result[r].stack,
           Decides(r)' /\ AtWork(r)' =>
              /\ Decides(r) /\ AtWork(r) /\ plan'[r] = plan[r] /\ Completed(r)' = Completed(r)
              /\ job[r].op = "baseline" /\ ~Recorded(r)' => ~Recorded(r)
    PROVE  AheadOf(r)'
BY DEF AheadOf

\* What Apply knows after it has read the version table and made its plan.
LEMMA KnowsApply ==
    ASSUME Shape, PlaceInv, NEW r \in Runners, InspectApply(r)
    PROVE  StackOf(r)' /\ AheadOf(r)'
<1>1. /\ UNCHANGED <<job, loaded, history, orphan>> /\ pc[r] = "inspect" /\ DOMAIN plan = Runners
      /\ job[r].op \in {"up", "down", "plan up", "plan down"}
      /\ result \in [Runners -> Outcome] /\ DOMAIN cursor = Runners /\ DOMAIN pc = Runners
  BY DEF InspectApply, jobVars, dbVars, srvVars, Shape, TypeOK, RunnerTypeOK
<1>2. IsDirectory(loaded[r]) /\ IsHistory(history) /\ job[r].steps \in Nat
  BY DEF Shape, TypeOK, RunnerTypeOK, DatabaseTypeOK, AreDirectories, Job
<1>3. plan[r] = <<>> /\ cursor[r] = NoCursor /\ orphan[r] = {}
  BY <1>1 DEF PlaceInv, PhaseOf, OrphanOf, Ended
<1>4. PICK d \in {"up", "down"} : d = Direction(r)
  BY DEF Direction
<1>5. job[r].op \in {"up", "down"} => d = job[r].op
  BY <1>4 DEF Direction
<1>6. ~InFlight(r)'
  BY <1>1, <1>3 DEF InFlight
<1>7. PICK t \in RegistrationOrder(history), s \in Candidates(d, loaded[r], history) :
         /\ result' = [result EXCEPT ![r].stack = t]
         /\ \/ Goto(r, "release")
            \/ Goto(r, "flush")
            \/ /\ ~PlanFails(d, job[r].steps, loaded[r], Current, s)
               /\ plan' = [plan EXCEPT ![r] = PlanSteps(d, job[r].steps, loaded[r], s)]
               /\ cursor' = [cursor EXCEPT ![r] = At(FirstPhase(r), 1, 1)]
               /\ \/ plan'[r] = <<>> /\ Goto(r, "output")
                  \/ Goto(r, "emit")
  <2>1. PICK t \in RegistrationOrder(history), s \in Candidates(Direction(r), loaded[r], history) :
              /\ result' = [result EXCEPT ![r].stack = t]
              /\ \/ /\ err' = Add(err, r, "plan") /\ Goto(r, "release")
                    /\ UNCHANGED <<plan, cursor>>
                 \/ /\ ~PlanFails(Direction(r), job[r].steps, loaded[r], Current, s)
                    /\ plan' = [plan EXCEPT ![r] =
                           PlanSteps(Direction(r), job[r].steps, loaded[r], s)]
                    /\ cursor' = [cursor EXCEPT ![r] = At(FirstPhase(r), 1, 1)]
                    /\ \/ /\ job[r].op \notin {"up", "down"}
                          /\ Goto(r, "release") /\ UNCHANGED err
                       \/ /\ job[r].op \in {"up", "down"} /\ plan'[r] = <<>>
                          /\ Goto(r, "output") /\ UNCHANGED err
                       \/ /\ job[r].op \in {"up", "down"} /\ plan'[r] # <<>>
                          /\ Goto(r, "emit") /\ UNCHANGED err
                       \/ /\ job[r].op \in {"up", "down"}
                          /\ Goto(r, "flush") /\ err' = Add(err, r, "check")
    BY ApplyCases
  <2> QED
    BY <1>4, <2>1
<1>8. result'[r].stack = t
  <2>1. result[r] \in Outcome /\ result'[r] = [result[r] EXCEPT !.stack = t]
    BY <1>1, <1>7
  <2> QED
    BY <2>1 DEF Outcome
<1>9. StackOf(r)'
  BY <1>1, <1>7, <1>8 DEF StackOf
<1>10. CASE pc'[r] \notin {"output", "emit"}
  <2>1. pc'[r] \in {"release", "flush"}
    BY <1>1, <1>7, <1>10 DEF Goto
  <2> QED
    BY <1>6, <1>9, <2>1 DEF AheadOf, AtWork
<1>11. CASE pc'[r] \in {"output", "emit"}
  <2>1. PICK p : p = PlanSteps(d, job[r].steps, loaded[r], s) /\ plan'[r] = p
    BY <1>1, <1>7, <1>11 DEF Goto
  <2>2. /\ ~PlanFails(d, job[r].steps, loaded[r], Current, s)
        /\ cursor'[r].step = 1
        /\ pc'[r] = "output" => p = <<>>
    <3>1. /\ ~PlanFails(d, job[r].steps, loaded[r], Current, s)
          /\ cursor' = [cursor EXCEPT ![r] = At(FirstPhase(r), 1, 1)]
          /\ (plan'[r] = <<>> /\ Goto(r, "output")) \/ Goto(r, "emit")
      BY <1>1, <1>7, <1>11 DEF Goto
    <3>2. cursor'[r] = At(FirstPhase(r), 1, 1)
      BY <1>1, <3>1
    <3>3. pc'[r] = "output" => p = <<>>
      BY <1>1, <2>1, <3>1 DEF Goto
    <3> QED
      BY <3>1, <3>2, <3>3 DEF At
  <2>3. s \in Seq(Versions) /\ IsPlan(p, d, loaded[r], s)
    <3>1. CASE d = "up"
      BY <1>2, <1>7, <2>1, <2>2, <3>1, UpCandidates, PlanOf
    <3>2. CASE d = "down"
      BY <1>2, <1>7, <2>1, <2>2, <3>2, DownCandidates, PlanOf
    <3> QED
      BY <3>1, <3>2
  <2>4. Len(p) \in Nat /\ Len(p) <= Len(s) /\ Len(s) \in Nat
    BY <2>3, LenProperties DEF IsPlan
  <2>5. \A i \in Completed(r)' + 1 .. Len(p) : i \in 1 .. Len(p) /\ Completed(r)' = 0
    <3>1. CASE pc'[r] = "output"
      <4>1. Len(p) = 0
        BY <2>2, <3>1, EmptySeq
      <4>2. Completed(r)' = 1
        BY <2>2, <3>1 DEF Completed, Recorded
      <4> QED
        BY <4>1, <4>2
    <3>2. CASE pc'[r] = "emit"
      <4>1. Completed(r)' = 1 - 1
        BY <2>2, <3>2 DEF Completed, Recorded
      <4> QED
        BY <2>4, <4>1
    <3> QED
      BY <1>11, <3>1, <3>2
  <2>6. ASSUME job[r].op = "up", NEW i \in Completed(r)' + 1 .. Len(p)
        PROVE  p[i].version \notin DOMAIN history'
    <3>1. i \in 1 .. Len(p) /\ i \in 1 .. Len(s)
      BY <2>4, <2>5, <2>6
    <3>2. s[i] \notin DOMAIN history
      BY <1>2, <1>5, <1>7, <2>6, <3>1, UpCandidates
    <3> QED
      BY <1>1, <2>3, <3>1, <3>2 DEF IsPlan
  <2>7. ASSUME job[r].op = "down", NEW i \in Completed(r)' + 1 .. Len(p)
        PROVE  LET n == Len(t) + 1 + Completed(r)' - i
               IN  n \in 1 .. Len(t) /\ p[i].version = t[n]
    <3>1. i \in 1 .. Len(p) /\ i \in 1 .. Len(s) /\ Completed(r)' = 0
      BY <2>4, <2>5, <2>7
    <3>2. /\ Len(s) = Len(t) /\ Len(t) \in Nat
          /\ \A k \in 1 .. Len(t) : Len(t) + 1 - k \in 1 .. Len(t) /\ s[k] = t[Len(t) + 1 - k]
      BY <1>2, <1>5, <1>7, <2>7, DownCandidates
    <3>3. p[i].version = s[i]
      BY <2>3, <3>1 DEF IsPlan
    <3>4. Len(t) + 1 + Completed(r)' - i = Len(t) + 1 - i
      BY <3>1, <3>2
    <3> QED
      BY <3>1, <3>2, <3>3, <3>4
  <2>8. AheadOf(r)'
    BY <1>1, <1>8, <2>1, <2>6, <2>7 DEF AheadOf
  <2> QED
    BY <1>9, <2>8
<1> QED
  BY <1>10, <1>11

LEMMA KnowsOfStep ==
    ASSUME Shape, PlaceInv, FilesInv, KnowsInv, NEW r \in Runners, StepOf(r)
    PROVE  StackOf(r)' /\ AheadOf(r)'
<1>t. /\ pc \in [Runners -> PCs] /\ sess \in [Runners -> Sessions] /\ reply \in [Runners -> Replies]
      /\ DOMAIN orphan = Runners /\ DOMAIN cursor = Runners /\ DOMAIN plan = Runners
      /\ DOMAIN job = Runners /\ DOMAIN err = Runners /\ result \in [Runners -> Outcome]
      /\ result[r] \in Outcome
  BY DEF Shape, TypeOK, RunnerTypeOK, ServerTypeOK
<1>s. OrphanOf(r) /\ SessionOf(r) /\ (pc[r] \in Working /\ Alive(r) => lockOwner = r)
  BY DEF PlaceInv, SessionInv, LockHeldByWorker
<1>k. StackOf(r) /\ AheadOf(r)
  BY DEF KnowsInv
\* An invocation that decides nothing, one that has nothing left to do, and a
\* step that touches nothing of what is known.
<1>n. ~Decides(r)' => StackOf(r)' /\ AheadOf(r)'
  BY DEF StackOf, AheadOf
<1> DEFINE KeepStack ==
              /\ UNCHANGED <<history, job>> /\ result'[r].stack = result[r].stack
              /\ Decides(r)' /\ pc'[r] # "inspect" /\ "inspect" \notin err'[r]
                    => Decides(r) /\ pc[r] # "inspect" /\ "inspect" \notin err[r]
           KeepPlan ==
              Decides(r)' /\ AtWork(r)' =>
                 /\ Decides(r) /\ AtWork(r) /\ plan'[r] = plan[r]
                 /\ Completed(r)' = Completed(r)
                 /\ job[r].op = "baseline" /\ ~Recorded(r)' => ~Recorded(r)
<1>a. KeepStack => StackOf(r)'
  BY <1>k, StackStays
<1>b. KeepStack /\ KeepPlan => AheadOf(r)'
  BY <1>k, AheadStays
<1>e. ~AtWork(r)' => AheadOf(r)'
  BY DEF AheadOf
<1> HIDE DEF KeepStack, KeepPlan
<1> USE <1>t
<1>1. CASE Start(r)
  <2>1. ~Decides(r)'
    BY <1>1, <1>s, RunnersAssumption DEF Start, Decides, InFlight, Alive, Goto, Add, SessionOf,
       OrphanOf, Ended, Working, fsVars, dbVars, srvVars, jobVars, runVars
  <2> QED
    BY <2>1, <1>n
<1>2. CASE Load(r)
  <2>1. ~Decides(r)'
    BY <1>2, <1>s, RunnersAssumption DEF Load, Decides, InFlight, Alive, Goto, Add, SessionOf,
       OrphanOf, Ended, Working, fsVars, dbVars, srvVars, jobVars, runVars
  <2> QED
    BY <2>1, <1>n
<1>3. CASE Connect(r)
  <2>1. ~Decides(r)'
    BY <1>3, <1>s, RunnersAssumption DEF Connect, Decides, InFlight, Alive, Goto, Add,
       SessionOf, OrphanOf, Ended, Working, fsVars, dbVars, srvVars, jobVars, runVars
  <2> QED
    BY <2>1, <1>n
<1>4. CASE AcquireLock(r)
  <2>1. ~AtWork(r)' /\ pc'[r] = "inspect"
    BY <1>4, <1>s DEF AcquireLock, AtWork, Decides, InFlight, Alive, Goto, Add, SessionOf,
       OrphanOf, Ended, Working, fsVars, dbVars, srvVars, jobVars, runVars
  <2>2. StackOf(r)'
    BY <2>1 DEF StackOf
  <2> QED
    BY <2>1, <2>2, <1>e
<1>5. CASE LockTimesOut(r)
  <2>1. ~Decides(r)'
    BY <1>5, <1>s, RunnersAssumption DEF LockTimesOut, Decides, InFlight, Alive, Goto, Add,
       SessionOf, OrphanOf, Ended, Working, fsVars, dbVars, srvVars, jobVars, runVars
  <2> QED
    BY <2>1, <1>n
<1>6. CASE LockFails(r)
  <2>1. ~Decides(r)'
    BY <1>6, <1>s, RunnersAssumption DEF LockFails, Decides, InFlight, Alive, Goto, Add,
       SessionOf, OrphanOf, Ended, Working, fsVars, dbVars, srvVars, jobVars, runVars
  <2> QED
    BY <2>1, <1>n
<1>7. CASE InspectFails(r)
  <2>1. ~AtWork(r)' /\ "inspect" \in err'[r]
    BY <1>7, <1>s DEF InspectFails, AtWork, Decides, InFlight, Alive, Goto, Add, SessionOf,
       OrphanOf, Ended, Working, fsVars, dbVars, srvVars, jobVars, runVars
  <2>2. StackOf(r)'
    BY <2>1 DEF StackOf
  <2> QED
    BY <2>1, <2>2, <1>e
<1>8. CASE InspectApply(r)
  BY <1>8, KnowsApply
<1>9. CASE InspectBaseline(r)
  <2>1. job'[r].op = "baseline" /\ history' = history
    BY <1>9 DEF InspectBaseline, jobVars, dbVars
  <2>2. pc'[r] = "emit" => DOMAIN history = {}
    BY <1>9 DEF InspectBaseline, Goto
  <2>3. pc'[r] # "emit" => ~AtWork(r)'
    BY <1>9, <1>s DEF InspectBaseline, AtWork, Decides, InFlight, Alive, Goto, Add, SessionOf,
       OrphanOf, Ended, Working, fsVars, dbVars, srvVars, jobVars, runVars
  <2>4. pc'[r] = "emit" => AheadOf(r)'
    BY <2>1, <2>2 DEF AheadOf
  <2>5. StackOf(r)'
    BY <2>1 DEF StackOf
  <2> QED
    BY <2>3, <2>4, <2>5, <1>e
<1>10. CASE InspectInit(r)
  <2>1. ~AtWork(r)' /\ job'[r].op = "init"
    BY <1>10, <1>s DEF InspectInit, AtWork, Decides, InFlight, Alive, Goto, Add, SessionOf,
       OrphanOf, Ended, Working, fsVars, dbVars, srvVars, jobVars, runVars
  <2>2. StackOf(r)'
    BY <2>1 DEF StackOf
  <2> QED
    BY <2>1, <2>2, <1>e
<1>11. CASE InspectRead(r)
  <2>1. job'[r].op \in {"dump", "status"} /\ history' = history
    BY <1>11 DEF InspectRead, jobVars, dbVars
  <2>2. PICK t \in RegistrationOrder(history) : result' = [result EXCEPT ![r].stack = t]
    BY <1>11 DEF InspectRead
  <2>3. result'[r].stack = t
    <3>1. result'[r] = [result[r] EXCEPT !.stack = t]
      BY <2>2
    <3> QED
      BY <3>1 DEF Outcome
  <2> QED
    BY <2>1, <2>2, <2>3 DEF StackOf, AheadOf
<1>12. CASE CreateInitial(r)
  <2>1. KeepStack
    BY <1>12, <1>s DEF CreateInitial, KeepStack, Decides, InFlight, Alive, Goto, Add, SessionOf,
       OrphanOf, Ended, Working, fsVars, dbVars, srvVars, jobVars, runVars
  <2>2. pc'[r] = "release" => ~AtWork(r)'
    BY <1>12, <1>s DEF CreateInitial, AtWork, Decides, InFlight, Alive, Goto, Add, SessionOf,
       OrphanOf, Ended, Working, fsVars, dbVars, srvVars, jobVars, runVars
  <2>3. ASSUME pc'[r] = "output" PROVE AheadOf(r)'
    <3>1. plan'[r] = <<>> /\ cursor'[r] = NoCursor
      BY <1>12 DEF CreateInitial, PlaceInv, PhaseOf
    <3>2. Recorded(r)' /\ Completed(r)' = 0
      BY <2>3, <3>1 DEF Recorded, Completed, NoCursor
    <3>3. Len(plan'[r]) = 0
      BY <3>1, EmptySeq
    <3> QED
      BY <3>2, <3>3 DEF AheadOf
  <2>4. pc'[r] \in {"output", "release"}
    BY <1>12 DEF CreateInitial, Goto
  <2> QED
    BY <2>1, <2>2, <2>3, <2>4, <1>a, <1>e
<1>13. CASE EmitStarted(r)
  <2>1. KeepStack
    BY <1>13, <1>s DEF EmitStarted, KeepStack, Abort, Decides, InFlight, Alive, Goto, Add,
       SessionOf, OrphanOf, Ended, Working, fsVars, dbVars, srvVars, jobVars, runVars
  <2>2. KeepPlan
    BY <1>13, <1>s DEF EmitStarted, KeepPlan, Decides, AtWork, InFlight, Recorded, Completed,
       Alive, Goto, Abort, Add, SessionOf, OrphanOf, Ended, Working, fsVars, dbVars, srvVars,
       jobVars, runVars
  <2> QED
    BY <2>1, <2>2, <1>a, <1>b
<1>14. CASE ExecSucceeds(r)
  <2>1. CASE cursor[r].phase = "record"
    BY <1>14, <2>1, KnowsRecord
  <2>2. CASE cursor[r].phase # "record"
    <3>1. history' = history /\ UNCHANGED result
      <4>1. Commit(Sent(r)) /\ (Confirm(r) \/ UNCHANGED result)
        BY <1>14 DEF ExecSucceeds
      <4> QED
        BY <2>2, <4>1, RecordCommit DEF Confirm
    <3>2. KeepStack
      BY <1>14, <3>1, <1>s DEF ExecSucceeds, KeepStack, Decides, InFlight, Alive, Goto, Working,
         srvVars, jobVars
    <3>3. KeepPlan
      <4>1. pc[r] = "exec" /\ pc'[r] = "ack" /\ UNCHANGED <<plan, cursor, srvVars>>
        BY <1>14 DEF ExecSucceeds, Goto
      <4> QED
        BY <4>1, <2>2 DEF KeepPlan, Decides, AtWork, InFlight, Recorded, Completed, Alive,
           srvVars
    <3> QED
      BY <3>2, <3>3, <1>a, <1>b
  <2> QED
    BY <2>1, <2>2
<1>15. CASE ExecFails(r)
  <2>1. KeepStack
    BY <1>15, <1>s DEF ExecFails, KeepStack, Abort, Decides, InFlight, Alive, Goto, Add,
       SessionOf, OrphanOf, Ended, Working, fsVars, dbVars, srvVars, jobVars, runVars
  <2>2. KeepPlan
    BY <1>15, <1>s DEF ExecFails, KeepPlan, Decides, AtWork, InFlight, Recorded, Completed,
       Alive, Goto, Abort, Add, SessionOf, OrphanOf, Ended, Working, fsVars, dbVars, srvVars,
       jobVars, runVars
  <2> QED
    BY <2>1, <2>2, <1>a, <1>b
<1>16. CASE ExecLost(r)
  <2>1. CASE ~Alive(r)
    <3>1. ~Decides(r)'
      BY <1>16, <2>1, <1>s DEF ExecLost, Decides, InFlight, Alive, Goto, Add, SessionOf,
         OrphanOf, Ended, Working, fsVars, dbVars, srvVars, jobVars, runVars
    <3> QED
      BY <3>1, <1>n
  <2>2. CASE Alive(r)
    <3>1. pc[r] = "exec" /\ pc'[r] = "ack" /\ reply'[r] = "unknown" /\ Decides(r)
          /\ UNCHANGED <<history, job, result, plan, cursor, err>>
      BY <1>16, <2>2, <1>s DEF ExecLost, Goto, Working, Decides, dbVars, jobVars
    <3>2. KeepStack /\ KeepPlan
      BY <3>1 DEF KeepStack, KeepPlan, AtWork, Recorded, Completed
    <3> QED
      BY <3>2, <1>a, <1>b
  <2> QED
    BY <2>1, <2>2
<1>17. CASE EmitOutcome(r)
  <2>1. /\ pc[r] = "ack" /\ UNCHANGED <<history, job, result, plan, srvVars>>
        /\ \/ reply[r] = "succeeded" /\ Advance(r)
           \/ Abort(r) /\ UNCHANGED cursor
    BY <1>17 DEF EmitOutcome, dbVars, jobVars
  <2>2. "inspect" \notin err[r] => "inspect" \notin err'[r]
    BY <1>17 DEF EmitOutcome
  <2>3. "inspect" \notin err[r]
    BY <2>1 DEF PlaceInv, PhaseOf
  <2>4. CASE Abort(r) /\ UNCHANGED cursor
    <3>1. pc'[r] \in {"flush", "release"}
      BY <2>4 DEF Abort, Goto
    <3>2. KeepStack
      BY <2>1, <2>3, <2>4 DEF KeepStack, Decides, InFlight, Alive, srvVars
    <3>3. KeepPlan
      BY <2>1, <2>4, <3>1, <1>s DEF KeepPlan, Decides, AtWork, InFlight, Recorded, Completed,
         Alive, srvVars, OrphanOf, Ended
    <3> QED
      BY <3>2, <3>3, <1>a, <1>b
  <2>5. CASE reply[r] = "succeeded" /\ Advance(r)
    <3>1. orphan[r] = {}
      BY <2>1, <2>5, <1>s DEF OrphanOf, Ended
    <3>2. KeepStack
      BY <2>1, <2>3, <3>1 DEF KeepStack, Decides, InFlight, Alive, srvVars
    <3>3. cursor'[r].step = cursor[r].step
      <4>1. cursor[r] \in Cursor
        BY DEF Shape, TypeOK, RunnerTypeOK
      <4> QED
        BY <2>5, <4>1 DEF Advance, AfterSQL, At, Cursor
    <3>4. \/ cursor[r].phase # "record" /\ pc'[r] = "emit"
          \/ cursor[r].phase = "record" /\ pc'[r] \in {"output", "capture"}
      BY <2>5 DEF Advance, Goto
    <3>5. Completed(r)' = Completed(r) /\ (Recorded(r)' <=> Recorded(r))
      BY <2>1, <2>5, <3>3, <3>4 DEF Completed, Recorded
    <3>6. KeepPlan
      BY <2>1, <3>1, <3>5 DEF KeepPlan, Decides, AtWork, InFlight, Alive, srvVars
    <3> QED
      BY <3>2, <3>6, <1>a, <1>b
  <2> QED
    BY <2>1, <2>4, <2>5
<1>18. CASE Flush(r)
  <2>1. KeepStack
    BY <1>18, <1>s DEF Flush, KeepStack, Abort, Decides, InFlight, Alive, Goto, Add, SessionOf,
       OrphanOf, Ended, Working, fsVars, dbVars, srvVars, jobVars, runVars
  <2>2. KeepPlan
    BY <1>18, <1>s DEF Flush, KeepPlan, Decides, AtWork, InFlight, Recorded, Completed, Alive,
       Goto, Abort, Add, SessionOf, OrphanOf, Ended, Working, fsVars, dbVars, srvVars, jobVars,
       runVars
  <2> QED
    BY <2>1, <2>2, <1>a, <1>b
<1>19. CASE Capture(r)
  <2>1. KeepStack
    BY <1>19, <1>s DEF Capture, KeepStack, Abort, Decides, InFlight, Alive, Goto, Add,
       SessionOf, OrphanOf, Ended, Working, fsVars, dbVars, srvVars, jobVars, runVars
  <2>2. KeepPlan
    BY <1>19, <1>s DEF Capture, KeepPlan, Decides, AtWork, InFlight, Recorded, Completed, Alive,
       Goto, Abort, Add, SessionOf, OrphanOf, Ended, Working, fsVars, dbVars, srvVars, jobVars,
       runVars
  <2> QED
    BY <2>1, <2>2, <1>a, <1>b
<1>20. CASE Output(r)
  <2>1. /\ pc[r] = "output" /\ orphan[r] = {} /\ "inspect" \notin err[r]
        /\ UNCHANGED <<history, job, plan, srvVars>>
    BY <1>20, <1>s DEF Output, OrphanOf, Ended, PlaceInv, PhaseOf, dbVars, jobVars
  <2>2. result'[r].stack = result[r].stack
    BY <1>20 DEF Output, Outcome
  <2>3. KeepStack
    BY <2>1, <2>2 DEF KeepStack, Decides, InFlight, Alive, srvVars
  <2>4. CASE pc'[r] # "emit"
    <3>1. pc'[r] \in {"release", "flush"}
      BY <1>20, <2>4 DEF Output, Goto, Abort
    <3>2. ~AtWork(r)'
      BY <2>1, <3>1 DEF AtWork, InFlight, srvVars
    <3> QED
      BY <2>3, <3>2, <1>a, <1>e
  <2>5. CASE pc'[r] = "emit"
    <3>1. job[r].op \in {"up", "down"} /\ cursor'[r] = At("sql", cursor[r].step + 1, 1)
      BY <1>20, <2>5 DEF Output, Goto, Abort
    <3>2. cursor[r].step \in Nat
      BY DEF Shape, TypeOK, RunnerTypeOK, Cursor
    <3>3. Completed(r)' = Completed(r)
      <4>1. cursor'[r].step = cursor[r].step + 1
        BY <3>1 DEF At
      <4>2. ~Recorded(r)'
        BY <2>5 DEF Recorded
      <4>3. Completed(r)' = cursor'[r].step - 1
        BY <4>2 DEF Completed
      <4>4. Completed(r) = cursor[r].step
        BY <2>1 DEF Completed, Recorded
      <4> QED
        BY <3>2, <4>1, <4>3, <4>4
    <3>4. KeepPlan
      BY <2>1, <3>1, <3>3 DEF KeepPlan, Decides, AtWork, InFlight, Alive, srvVars
    <3> QED
      BY <2>3, <3>4, <1>a, <1>b
  <2> QED
    BY <2>4, <2>5
<1>21. CASE Release(r)
  <2>1. pc'[r] = "done" /\ pc[r] = "release" /\ UNCHANGED <<history, job, result, plan, cursor, orphan>>
        /\ ("inspect" \in err[r] => "inspect" \in err'[r])
    BY <1>21 DEF Release, Goto, Add, dbVars, jobVars
  <2>2. ~Decides(r)' \/ UNCHANGED <<sess, lockOwner>>
    BY <1>21, <1>s, RunnersAssumption DEF Release, Decides, Alive, InFlight, OrphanOf
  <2>3. CASE UNCHANGED <<sess, lockOwner>>
    <3>1. KeepStack
      BY <2>1, <2>3 DEF KeepStack, Decides, InFlight, Alive
    <3>2. KeepPlan
      BY <2>1, <2>3 DEF KeepPlan, Decides, AtWork, InFlight, Recorded, Completed, Alive
    <3> QED
      BY <3>1, <3>2, <1>a, <1>b
  <2> QED
    BY <2>2, <2>3, <1>n
<1>22. CASE Crash(r)
  <2>1. pc'[r] = "crashed" /\ ~Alive(r)' /\ UNCHANGED <<history, job, result, plan, cursor, lockOwner, err>>
    BY <1>22 DEF Crash, Goto, Alive, runVars, dbVars, jobVars
  <2>2. InFlight(r)' => InFlight(r) \/ (pc[r] = "exec" /\ Alive(r))
    BY <1>22 DEF Crash, InFlight, runVars
  <2>3. InFlight(r) => pc[r] # "inspect" /\ ~Recorded(r)
    BY <1>s DEF InFlight, OrphanOf, Ended, Recorded
  <2>4. KeepStack
    BY <2>1, <2>2, <2>3 DEF KeepStack, Decides
  <2>5. KeepPlan
    BY <2>1, <2>2, <2>3 DEF KeepPlan, Decides, AtWork, Recorded, Completed
  <2> QED
    BY <2>4, <2>5, <1>a, <1>b
<1>23. CASE SessionDies(r)
  <2>1. ~Decides(r)'
    BY <1>23, <1>s, RunnersAssumption DEF SessionDies, Decides, InFlight, Alive, Goto, Add,
       SessionOf, OrphanOf, Ended, Working, fsVars, dbVars, srvVars, jobVars, runVars
  <2> QED
    BY <2>1, <1>n
<1>24. CASE Reap(r)
  <2>1. ~Decides(r)'
    BY <1>24, <1>s, RunnersAssumption DEF Reap, Decides, InFlight, Alive, Goto, Add, SessionOf,
       OrphanOf, Ended, Working, fsVars, dbVars, srvVars, jobVars, runVars
  <2> QED
    BY <2>1, <1>n
<1>25. CASE Land(r)
  <2>1. ~Decides(r)'
    BY <1>25, <1>s, RunnersAssumption DEF Land, Decides, InFlight, Alive, Goto, Add, SessionOf,
       OrphanOf, Ended, Working, fsVars, dbVars, srvVars, jobVars, runVars
  <2> QED
    BY <2>1, <1>n
<1> QED
  BY <1>1, <1>2, <1>3, <1>4, <1>5, <1>6, <1>7, <1>8, <1>9, <1>10, <1>11, <1>12, <1>13, <1>14,
     <1>15, <1>16, <1>17, <1>18, <1>19, <1>20, <1>21, <1>22, <1>23, <1>24, <1>25 DEF StepOf,
     Proceed

\* The version table changes only under the lock of who changes it.
LEMMA HistoryUnderLock ==
    ASSUME Shape, PlaceInv, NEW r \in Runners, StepOf(r)
    PROVE  \/ UNCHANGED history
           \/ /\ Decides(r) /\ Commit(Sent(r)) /\ cursor[r].phase = "record"
              /\ pc[r] = "exec" \/ InFlight(r)
              /\ ExecSucceeds(r) \/ (Land(r) /\ InFlight(r))
<1>1. CASE ExecSucceeds(r)
  <2>1. pc[r] = "exec" /\ Alive(r) /\ Commit(Sent(r))
    BY <1>1 DEF ExecSucceeds
  <2>2. Decides(r)
    BY <2>1 DEF PlaceInv, LockHeldByWorker, Working, Decides
  <2> QED
    BY <1>1, <2>1, <2>2, RecordCommit
<1>2. CASE Land(r)
  <2>1. orphan[r] # {} /\ \A o \in orphan[r] : o = Sent(r)
    BY <1>2 DEF Land, PlaceInv, OrphanOf
  <2>2. Commit(Sent(r)) \/ UNCHANGED dbVars
    BY <1>2, <2>1 DEF Land
  <2>3. cursor[r].phase = "record" => Decides(r) /\ InFlight(r)
    BY <2>1 DEF PlaceInv, OrphanOf, Decides, InFlight
  <2> QED
    BY <1>2, <2>2, <2>3, RecordCommit DEF dbVars
<1> QED
  BY <1>1, <1>2, DatabaseStays DEF dbVars

LEMMA KnowsStep == Shape /\ PlaceInv /\ FilesInv /\ KnowsInv /\ [Next]_vars => KnowsInv'
<1> SUFFICES ASSUME Shape, PlaceInv, FilesInv, KnowsInv, [Next]_vars PROVE KnowsInv'
  OBVIOUS
<1>1. ClockInv'
  BY ClockStep DEF KnowsInv
<1>2. ASSUME NEW r \in Runners, StepOf(r), NEW q \in Runners \ {r}
      PROVE  StackOf(q)' /\ AheadOf(q)'
  <2>1. /\ job'[q] = job[q] /\ result'[q] = result[q] /\ plan'[q] = plan[q]
        /\ cursor'[q] = cursor[q] /\ pc'[q] = pc[q] /\ reply'[q] = reply[q]
        /\ err'[q] = err[q] /\ sess'[q] = sess[q] /\ orphan'[q] = orphan[q]
        /\ lockOwner' = q <=> lockOwner = q
    BY <1>2, Frame DEF OthersStay, Same
  <2>2. CASE UNCHANGED history
    <3>1. StackOf(q)'
      BY <2>1, <2>2 DEF KnowsInv, StackOf, Decides, Alive, InFlight, ClockAdvances
    <3>2. AheadOf(q)'
      <4>1. AheadOf(q)
        BY DEF KnowsInv
      <4>2. /\ Decides(q)' => Decides(q)
            /\ AtWork(q)' => AtWork(q)
        BY <2>1, <2>2 DEF Decides, AtWork, Alive, InFlight
      <4>3. Recorded(q)' <=> Recorded(q)
        BY <2>1, <2>2 DEF Recorded
      <4>4. Completed(q)' = Completed(q)
        BY <2>1, <2>2, <4>3 DEF Completed
      <4> QED
        BY <2>1, <2>2, <4>1, <4>2, <4>3, <4>4, AheadStays
    <3> QED
      BY <3>1, <3>2
  <2>3. CASE Decides(r)
    <3>1. ~Decides(q)'
      BY <2>1, <2>3 DEF Decides
    <3> QED
      BY <3>1 DEF StackOf, AheadOf
  <2> QED
    BY <1>2, <2>2, <2>3, HistoryUnderLock
<1>3. ASSUME NEW r \in Runners, StepOf(r) PROVE KnowsInv'
  <2>1. StackOf(r)' /\ AheadOf(r)'
    BY <1>3, KnowsOfStep
  <2> QED
    BY <1>1, <1>2, <1>3, <2>1 DEF KnowsInv
<1>4. CASE Edit \/ UNCHANGED vars
  <2>1. UNCHANGED <<dbVars, srvVars, pc, runVars>>
    BY <1>4 DEF Edit, vars
  <2>2. UNCHANGED <<history, job, result, plan, cursor, pc, reply, err, sess, orphan, lockOwner>>
    BY <2>1 DEF dbVars, srvVars, runVars, jobVars
  <2>3. ASSUME NEW q \in Runners PROVE StackOf(q)' /\ AheadOf(q)'
    <3>1. StackOf(q)'
      BY <2>2 DEF KnowsInv, StackOf, Decides, Alive, InFlight, ClockAdvances
    <3>2. AheadOf(q)'
      BY <2>2 DEF KnowsInv, AheadOf, Decides, AtWork, Completed, Recorded, Alive, InFlight
    <3> QED
      BY <3>1, <3>2
  <2> QED
    BY <1>1, <2>3 DEF KnowsInv
<1> QED
  BY <1>3, <1>4, StepCases

LEMMA KnowsInit == Init => KnowsInv
<1> SUFFICES ASSUME Init PROVE KnowsInv
  OBVIOUS
<1>1. ClockInv
  BY DEF Init, ClockInv
<1>2. \A r \in Runners : ~Decides(r)
  BY RunnersAssumption DEF Init, Decides
<1> QED
  BY <1>1, <1>2 DEF KnowsInv, StackOf, AheadOf

---------------------------------------------------------------------------
(* The theorems about the version table.                                   *)

LedgerInv == Shape /\ PlaceInv /\ FilesInv /\ KnowsInv

\* The inductive invariant behind the theorems of this module.
THEOREM LedgerInvariant == Spec => []LedgerInv
<1>1. Init => LedgerInv
  BY ShapeInit, PlaceInit, FilesInit, KnowsInit DEF LedgerInv
<1>2. LedgerInv /\ LockHeldByWorker' /\ [Next]_vars => LedgerInv'
  BY ShapeStep, PlaceStep, FilesStep, KnowsStep DEF LedgerInv
<1> QED
  BY <1>1, <1>2, LockSafety, PTL DEF Spec

---------------------------------------------------------------------------
(* What is on its way was sent for a reason, and what Init saw holds.      *)

\* The statements before an operation on its way were acknowledged.
StrayAcked == \A r \in Runners : orphan[r] # {} /\ job[r].op \in {"up", "down"} => Acked(r)

LEMMA StrayAckedOfStep ==
    ASSUME Shape, PlaceInv, AckedInv, StrayAcked, NEW r \in Runners, StepOf(r)
    PROVE  orphan'[r] # {} /\ job'[r].op \in {"up", "down"} => Acked(r)'
<1>t. /\ DOMAIN orphan = Runners /\ DOMAIN cursor = Runners /\ DOMAIN log = Runners
      /\ pc \in [Runners -> PCs]
  BY DEF Shape, TypeOK, RunnerTypeOK, ServerTypeOK
<1>s. orphan[r] # {} => Ended(r)
  BY DEF PlaceInv, OrphanOf
\* The operation on its way is an old one or the current one.
<1>k. ASSUME orphan'[r] # {} => orphan[r] # {} \/ pc[r] = "exec",
             job'[r] = job[r], plan'[r] = plan[r], cursor'[r] = cursor[r], log[r] \subseteq log'[r]
      PROVE  orphan'[r] # {} /\ job'[r].op \in {"up", "down"} => Acked(r)'
  <2> SUFFICES ASSUME orphan'[r] # {}, job'[r].op \in {"up", "down"} PROVE Acked(r)'
    OBVIOUS
  <2>1. Acked(r)
    BY <1>k DEF AckedInv, StrayAcked, AtOperation
  <2> QED
    BY <1>k, <2>1 DEF Acked, Passed, Statements, Version
<1>1. CASE ExecLost(r)
  BY <1>1, <1>k DEF ExecLost, jobVars
<1>2. CASE Crash(r)
  BY <1>2, <1>t, <1>k DEF Crash, Add, runVars, jobVars
<1>3. CASE Flush(r)
  BY <1>3, <1>t, <1>k DEF Flush, srvVars, jobVars
<1>4. CASE Release(r)
  BY <1>4, <1>k DEF Release, jobVars
<1>5. CASE SessionDies(r)
  BY <1>5, <1>k DEF SessionDies, runVars, jobVars
<1>6. CASE Reap(r)
  BY <1>6, <1>t, <1>k DEF Reap, runVars, jobVars
<1>7. CASE Land(r)
  BY <1>7, <1>k, <1>t DEF Land, runVars, jobVars
<1>8. CASE EmitOutcome(r)
  <2>1. UNCHANGED <<orphan, job, plan>> /\ pc[r] = "ack"
    BY <1>8 DEF EmitOutcome, srvVars, jobVars
  <2>2. CASE orphan[r] # {}
    <3>1. reply[r] # "succeeded"
      BY <1>s, <2>1, <2>2 DEF Ended
    <3>2. UNCHANGED cursor
      BY <1>8, <3>1 DEF EmitOutcome
    <3>3. log' = log \/ log' = Add(log, r, Event(r, reply[r]))
      BY <1>8 DEF EmitOutcome
    <3>4. log[r] \subseteq log'[r]
      BY <1>t, <3>3 DEF Add
    <3> QED
      BY <1>k, <2>1, <3>2, <3>4
  <2> QED
    BY <2>1, <2>2
<1>9. CASE UNCHANGED orphan /\ ~Ended(r)
  BY <1>9, <1>s
<1>10. ExecSucceeds(r) \/ ExecFails(r) => UNCHANGED orphan /\ ~Ended(r)
  BY DEF ExecSucceeds, ExecFails, srvVars, Ended
<1>11. CASE Start(r) \/ Load(r) \/ Connect(r) \/ AcquireLock(r) \/ LockTimesOut(r) \/ LockFails(r)
  BY <1>9, <1>11 DEF Start, Load, Connect, AcquireLock, LockTimesOut, LockFails, srvVars, Ended
<1>12. CASE InspectFails(r) \/ InspectApply(r) \/ InspectBaseline(r) \/ InspectInit(r) \/ InspectRead(r)
  BY <1>9, <1>12 DEF InspectFails, InspectApply, InspectBaseline, InspectInit, InspectRead,
     srvVars, Ended
<1>13. CASE CreateInitial(r) \/ EmitStarted(r) \/ Capture(r) \/ Output(r)
  BY <1>9, <1>13 DEF CreateInitial, EmitStarted, Capture, Output, srvVars, Ended
<1> QED
  BY <1>1, <1>2, <1>3, <1>4, <1>5, <1>6, <1>7, <1>8, <1>9, <1>10, <1>11, <1>12, <1>13 DEF StepOf,
     Proceed

LEMMA StrayAckedStep ==
    ASSUME Shape, PlaceInv, AckedInv, StrayAcked, [Next]_vars
    PROVE  StrayAcked'
<1>1. ASSUME NEW r \in Runners, StepOf(r) PROVE StrayAcked'
  <2>1. ASSUME NEW q \in Runners \ {r}
        PROVE  orphan'[q] # {} /\ job'[q].op \in {"up", "down"} => Acked(q)'
    <3>1. /\ orphan'[q] = orphan[q] /\ job'[q] = job[q] /\ plan'[q] = plan[q]
          /\ cursor'[q] = cursor[q] /\ log'[q] = log[q]
      BY <1>1, Frame DEF OthersStay, Same
    <3> QED
      BY <3>1 DEF StrayAcked, Acked, Passed, Statements, Version
  <2>2. orphan'[r] # {} /\ job'[r].op \in {"up", "down"} => Acked(r)'
    BY <1>1, StrayAckedOfStep
  <2> QED
    BY <2>1, <2>2 DEF StrayAcked
<1>2. CASE Edit \/ UNCHANGED vars
  <2>1. UNCHANGED <<orphan, job, plan, cursor, log>>
    BY <1>2 DEF Edit, vars, srvVars, runVars, jobVars
  <2> QED
    BY <2>1 DEF StrayAcked, Acked, Passed, Statements, Version
<1> QED
  BY <1>1, <1>2, StepCases

\* When no process dies and no reply is lost, nothing is on its way without its
\* session, and only the worker on a live session changes the database: what Init
\* saw is what there is.
InitSees ==
    Faults \cap {"crash", "reply"} = {} =>
        \A r \in Runners :
            /\ orphan[r] = {}
            /\ pc[r] = "create" /\ Alive(r) => ~managed /\ snap[r] = Current

\* An invocation reaches "create" from the inspection of Init only.
LEMMA CreateOfStep ==
    ASSUME Shape, NEW r \in Runners, StepOf(r), pc'[r] = "create", Alive(r)'
    PROVE  \/ InspectInit(r)
           \/ pc[r] = "create" /\ Alive(r) /\ snap'[r] = snap[r]
<1>t. pc \in [Runners -> PCs] /\ sess \in [Runners -> Sessions]
  BY DEF Shape, TypeOK, RunnerTypeOK, ServerTypeOK
<1>1. CASE InspectApply(r)
  BY <1>1, <1>t, ApplyCases DEF Goto
<1>2. CASE EmitOutcome(r)
  BY <1>2, <1>t DEF EmitOutcome, Advance, Abort, Goto
<1>3. CASE \/ Start(r) \/ Load(r) \/ Connect(r) \/ AcquireLock(r) \/ LockTimesOut(r)
           \/ LockFails(r) \/ InspectFails(r) \/ InspectBaseline(r) \/ InspectRead(r)
  BY <1>3, <1>t DEF Start, Load, Connect, AcquireLock, LockTimesOut, LockFails, InspectFails,
     InspectBaseline, InspectRead, Goto
<1>4. CASE \/ CreateInitial(r) \/ EmitStarted(r) \/ ExecSucceeds(r) \/ ExecFails(r)
           \/ ExecLost(r) \/ Flush(r) \/ Capture(r) \/ Output(r) \/ Release(r) \/ Crash(r)
  BY <1>4, <1>t DEF CreateInitial, EmitStarted, ExecSucceeds, ExecFails, ExecLost, Flush,
     Capture, Output, Release, Crash, Abort, Goto
<1>5. CASE SessionDies(r) \/ Reap(r)
  BY <1>5, <1>t DEF SessionDies, Reap, Alive
<1>6. CASE Land(r)
  BY <1>6 DEF Land, Alive, runVars
<1> QED
  BY <1>1, <1>2, <1>3, <1>4, <1>5, <1>6 DEF StepOf, Proceed

LEMMA InitSeesStep ==
    ASSUME Shape, PlaceInv, InitSees, [Next]_vars
    PROVE  InitSees'
<1> SUFFICES ASSUME Faults \cap {"crash", "reply"} = {}, NEW q \in Runners
             PROVE  /\ orphan'[q] = {}
                    /\ pc'[q] = "create" /\ Alive(q)' => ~managed' /\ snap'[q] = Current'
  BY DEF InitSees
<1>s. \A r \in Runners : orphan[r] = {}
  BY DEF InitSees
<1>1. CASE Edit \/ UNCHANGED vars
  <2>1. UNCHANGED <<orphan, pc, sess, snap, managed, schema>>
    BY <1>1 DEF Edit, vars, dbVars, srvVars, runVars
  <2> QED
    BY <2>1 DEF InitSees, Alive, Current
<1>2. ASSUME NEW r \in Runners, StepOf(r)
      PROVE  /\ orphan'[q] = {}
             /\ pc'[q] = "create" /\ Alive(q)' => ~managed' /\ snap'[q] = Current'
  <2>t. DOMAIN orphan = Runners /\ DOMAIN snap = Runners /\ pc \in [Runners -> PCs]
    BY DEF Shape, TypeOK, RunnerTypeOK, ServerTypeOK
  <2>l. ~Land(r)
    BY <1>s DEF Land
  <2>1. orphan' = orphan
    <3>1. CASE ExecLost(r) \/ Crash(r)
      BY <3>1 DEF ExecLost, Crash
    <3>2. CASE Reap(r)
      <4>1. {o \in orphan[r] : o.phase \in {"history", "sql"}} = orphan[r]
        BY <1>s
      <4>2. orphan = [x \in Runners |-> orphan[x]]
        BY DEF Shape, TypeOK, ServerTypeOK
      <4> QED
        BY <3>2, <4>1, <4>2 DEF Reap
    <3> QED
      BY <1>2, <2>l, <3>1, <3>2 DEF StepOf, Proceed, Start, Load, Connect, AcquireLock, LockTimesOut,
         LockFails, InspectFails, InspectApply, InspectBaseline, InspectInit, InspectRead,
         CreateInitial, EmitStarted, ExecSucceeds, ExecFails, EmitOutcome, Flush, Capture,
         Output, Release, SessionDies, srvVars
  <2>2. ASSUME pc'[q] = "create", Alive(q)'
        PROVE  ~managed' /\ snap'[q] = Current'
    <3>1. CASE q = r /\ InspectInit(r)
      BY <3>1, <2>t, <2>2 DEF InspectInit, Goto, Current, dbVars
    <3>2. CASE ~(q = r /\ InspectInit(r))
      <4>1. pc[q] = "create" /\ Alive(q) /\ snap'[q] = snap[q]
        <5>1. CASE q = r
          BY <1>2, <2>2, <3>2, <5>1, CreateOfStep
        <5>2. CASE q # r
          BY <1>2, <2>2, <5>2, Frame DEF OthersStay, Same, Alive
        <5> QED
          BY <5>1, <5>2
      <4>2. lockOwner = q
        BY <4>1 DEF PlaceInv, LockHeldByWorker, Working
      <4>3. ~ExecSucceeds(r)
        BY <4>1, <4>2 DEF ExecSucceeds, PlaceInv, LockHeldByWorker, Working
      <4>4. UNCHANGED dbVars
        BY <1>2, <2>l, <4>3, DatabaseStays
      <4> QED
        BY <4>1, <4>4 DEF InitSees, Current, dbVars
    <3> QED
      BY <3>1, <3>2
  <2> QED
    BY <1>s, <2>1, <2>2
<1> QED
  BY <1>1, <1>2, StepCases

\* A record that goes was in Down's hands and was the latest registration.
LEMMA RecordGone ==
    ASSUME LedgerInv, [Next]_vars, NEW v \in DOMAIN history \ DOMAIN history'
    PROVE  \E r \in Runners :
              /\ \A w \in DOMAIN history : history[w] <= history[v]
              /\ ExecSucceeds(r) \/ (Land(r) /\ InFlight(r))
              /\ Placed(r) /\ cursor[r].phase = "record" /\ job[r].op = "down"
              /\ v = Version(r) /\ v \in DOMAIN loaded[r] /\ Reversible(loaded[r][v])
              /\ Statements(r) = loaded[r][v].down
<1>1. CASE Edit \/ UNCHANGED vars
  BY <1>1 DEF Edit, vars, dbVars
<1>2. ASSUME NEW r \in Runners, StepOf(r)
      PROVE  /\ \A w \in DOMAIN history : history[w] <= history[v]
             /\ ExecSucceeds(r) \/ (Land(r) /\ InFlight(r))
             /\ Placed(r) /\ cursor[r].phase = "record" /\ job[r].op = "down"
             /\ v = Version(r) /\ v \in DOMAIN loaded[r] /\ Reversible(loaded[r][v])
             /\ Statements(r) = loaded[r][v].down
  <2>1. /\ Decides(r) /\ Commit(Sent(r)) /\ cursor[r].phase = "record"
        /\ pc[r] = "exec" \/ InFlight(r)
        /\ ExecSucceeds(r) \/ (Land(r) /\ InFlight(r))
    BY <1>2, HistoryUnderLock DEF LedgerInv
  <2>2. job[r].op = "down" /\ history' = Restrict(history, DOMAIN history \ {Version(r)})
    BY <2>1, RecordCommit DEF LedgerInv
  <2>3. v = Version(r)
    BY <2>2 DEF Restrict
  <2>4. /\ Placed(r)
        /\ result[r].stack \in RegistrationOrder(history)
        /\ Len(result[r].stack) \in Nat \ {0}
        /\ v = result[r].stack[Len(result[r].stack)]
    BY <2>1, <2>2, <2>3, AtRecord DEF LedgerInv
  <2>5. IsHistory(history)
    BY DEF LedgerInv, Shape, TypeOK, DatabaseTypeOK
  <2>6. \A w \in DOMAIN history : history[w] <= history[v]
    BY <2>4, <2>5, LastIsLatest
  <2>7. /\ v \in DOMAIN loaded[r]
        /\ plan[r][cursor[r].step].statements = SQLOf("down", loaded[r][v])
    BY <2>2, <2>3, <2>4 DEF LedgerInv, FilesInv, FilesOf, Placed, Version
  <2>8. plan[r][cursor[r].step].statements # <<>>
    BY <2>2, <2>4 DEF LedgerInv, Shape, PlanInv, Placed
  <2>9. Reversible(loaded[r][v]) /\ Statements(r) = loaded[r][v].down
    BY <2>7, <2>8 DEF SQLOf, Reversible, Statements
  <2> QED
    BY <2>1, <2>2, <2>3, <2>4, <2>6, <2>7, <2>9
<1> QED
  BY <1>1, <1>2, StepCases

\* Down reverses registration order, for any number of invocations, files and
\* faults, and whatever the server clock does.
THEOREM DownReverses == Spec => DownReversesRegistration
<1>1. LedgerInv /\ [Next]_vars =>
         [\A v \in DOMAIN history \ DOMAIN history' :
             \A w \in DOMAIN history : history[w] <= history[v]]_vars
  BY RecordGone
<1> QED
  BY <1>1, LedgerInvariant, PTL DEF Spec, DownReversesRegistration

\* What is reverted is reverted by the invocation of Down that read its Down section
\* and had each of its statements acknowledged.
LEMMA RevertedByDown ==
    ASSUME LedgerInv, AckedInv, StrayAcked, [Next]_vars, NEW v \in DOMAIN history \ DOMAIN history'
    PROVE  \E r \in Runners : Reverts(r, v)
<1>1. PICK r \in Runners :
         /\ ExecSucceeds(r) \/ (Land(r) /\ InFlight(r))
         /\ Placed(r) /\ cursor[r].phase = "record" /\ job[r].op = "down"
         /\ v = Version(r) /\ v \in DOMAIN loaded[r] /\ Reversible(loaded[r][v])
         /\ Statements(r) = loaded[r][v].down
  BY RecordGone
<1>t. pc \in [Runners -> PCs] /\ DOMAIN orphan = Runners
  BY DEF LedgerInv, Shape, TypeOK, RunnerTypeOK, ServerTypeOK
<1>2. (pc[r] = "exec" /\ pc'[r] = "ack") \/ orphan'[r] # orphan[r]
  <2>1. CASE ExecSucceeds(r)
    BY <1>t, <2>1 DEF ExecSucceeds, Goto
  <2>2. CASE Land(r)
    BY <1>t, <2>2 DEF Land
  <2> QED
    BY <1>1, <2>1, <2>2
<1>3. Acked(r)
  BY <1>1 DEF ExecSucceeds, InFlight, AckedInv, StrayAcked, AtOperation
<1>4. \A k \in 1 .. Len(loaded[r][v].down) :
         [phase |-> "sql", version |-> {v}, stmt |-> k, state |-> "succeeded"] \in log[r]
  BY <1>1, <1>3 DEF Acked, Passed
<1> QED
  BY <1>1, <1>2, <1>4 DEF Reverts

\* The file that Init writes creates what its snapshot holds, each object once.
LEMMA InitialMatches ==
    ASSUME Shape, InitSees, [Next]_vars, NEW r \in Runners, Initialises(r)
    PROVE  ~managed /\ Matches(files'[InitialVersion], schema)
<1>1. CreateInitial(r)
  <2>1. \E q \in Runners : StepOf(q)
    <3>1. pc'[r] # pc[r]
      BY DEF Initialises
    <3> QED
      BY <3>1, StepCases DEF Edit, vars
  <2>2. PICK q \in Runners : StepOf(q)
    BY <2>1
  <2>3. q = r
    <3>1. CASE q # r
      BY <2>2, <3>1, Frame DEF OthersStay, Same, Initialises
    <3> QED
      BY <3>1
  <2> QED
    BY <2>2, <2>3 DEF Initialises, StepOf, Proceed, Start, Load, Connect, AcquireLock,
       LockTimesOut, LockFails, InspectFails, InspectApply, InspectBaseline, InspectInit,
       InspectRead, EmitStarted, ExecSucceeds, ExecFails, ExecLost, EmitOutcome, Flush, Capture,
       Output, Release, Crash, SessionDies, Reap, Land, Goto, Abort
<1>2. ~managed /\ snap[r].objs = schema
  BY DEF Initialises, InitSees, Current
<1> DEFINE O == schema
           S(s) == [i \in DOMAIN s |-> [op |-> "create", obj |-> s[i], guarded |-> FALSE]]
           b(s) == [up |-> S(s), down |-> <<>>]
<1>3. pc \in [Runners -> PCs]
  BY DEF Shape, TypeOK, RunnerTypeOK
<1>4. PICK s \in Bijection(1 .. Cardinality(O), O) : files' = [w \in {InitialVersion} |-> b(s)]
  BY <1>1, <1>2, <1>3 DEF CreateInitial, Initialises, Goto
<1>5. /\ DOMAIN s = 1 .. Cardinality(O)
      /\ \A i, j \in DOMAIN s : s[i] = s[j] => i = j
      /\ {s[i] : i \in DOMAIN s} = O
  <2> DEFINE D == 1 .. Cardinality(O)
  <2>1. /\ s \in [D -> O]
        /\ \A i, j \in DOMAIN s : s[i] = s[j] => i = j
        /\ \A o \in O : \E i \in D : s[i] = o
    BY DEF Bijection, Injection, Surjection, IsInjective
  <2> HIDE DEF D, O
  <2>2. DOMAIN s = D /\ {s[i] : i \in DOMAIN s} = O
    BY <2>1
  <2> QED
    BY <2>1, <2>2 DEF D
<1>6. Matches(b(s), O)
  <2>1. DOMAIN b(s).up = DOMAIN s
    OBVIOUS
  <2>2. \A i \in DOMAIN s : /\ b(s).up[i].op = "create" /\ ~b(s).up[i].guarded
                            /\ b(s).up[i].obj = s[i]
    OBVIOUS
  <2> HIDE DEF b
  <2> QED
    BY <1>5, <2>1, <2>2 DEF Matches
<1>7. files'[InitialVersion] = b(s)
  BY <1>4
<1> QED
  BY <1>2, <1>6, <1>7

\* Adoption survives other invocations and edits of the directory: what Init saw under
\* the lock holds when it writes the initial file, and what is reverted is reverted by
\* a Down that read how and ran it, for every fault, directory and interleaving.
THEOREM AdoptionIsKept == Spec => AdoptionHolds
<1> DEFINE Inv == LedgerInv /\ AckedInv /\ StrayAcked /\ InitSees
<1>1. Init => LedgerInv /\ AckedInv /\ StrayAcked /\ InitSees
  <2>1. Init => LedgerInv
    BY ShapeInit, PlaceInit, FilesInit, KnowsInit DEF LedgerInv
  <2> QED
    BY <2>1 DEF Init, AckedInv, AtOperation, StrayAcked, InitSees
<1>2. Inv /\ LockHeldByWorker' /\ [Next]_vars => Inv'
  <2>1. LedgerInv /\ LockHeldByWorker' /\ [Next]_vars => LedgerInv'
    BY ShapeStep, PlaceStep, FilesStep, KnowsStep DEF LedgerInv
  <2>2. Shape /\ AckedInv /\ [Next]_vars => AckedInv'
    BY AckedStep
  <2> QED
    BY <2>1, <2>2, StrayAckedStep, InitSeesStep DEF LedgerInv
<1>3. Inv /\ [Next]_vars =>
         [/\ \A v \in DOMAIN history \ DOMAIN history' : \E r \in Runners : Reverts(r, v)
          /\ \A r \in Runners : Initialises(r) =>
                ~managed /\ Matches(files'[InitialVersion], schema)]_vars
  BY RevertedByDown, InitialMatches DEF LedgerInv
<1> QED
  BY <1>1, <1>2, <1>3, LockSafety, PTL DEF Spec, AdoptionHolds

\* Result.Version reflects the recorded state when the server's clock increases
\* from one registration to the next.
THEOREM ResultRecorded ==
    ASSUME ClockAdvances
    PROVE  Spec => []ResultIsRecordedState
<1>1. LedgerInv => ResultIsRecordedState
  <2> SUFFICES ASSUME LedgerInv, NEW r \in Runners, pc[r] \in Working \ {"inspect"}, Alive(r),
                      job[r].op \notin {"init", "baseline"}, "inspect" \notin err[r],
                      NEW s \in RegistrationOrder(history)
               PROVE  Latest(result[r].stack) = Latest(s)
    BY DEF ResultIsRecordedState
  <2>1. Decides(r)
    BY DEF LedgerInv, PlaceInv, LockHeldByWorker, Decides
  <2>2. job[r].op \in Operations
    BY DEF LedgerInv, FilesInv, FilesOf, Working
  <2>3. job[r].op \in {"up", "down", "plan up", "plan down", "dump", "status"}
    BY <2>2, OperationsAssumption
  <2>4. result[r].stack \in RegistrationOrder(history)
    BY <2>1, <2>3 DEF LedgerInv, KnowsInv, StackOf, ClockAdvances
  <2>5. result[r].stack = s
    BY <2>4, OneOrder DEF LedgerInv, Shape, TypeOK, DatabaseTypeOK
  <2> QED
    BY <2>5
<1> QED
  BY <1>1, LedgerInvariant, PTL

---------------------------------------------------------------------------
(* The refinement: what the ledger's variables are in each state.          *)

\* The attempt of the ledger belongs to the owner of the lock.
Holding(r) == lockOwner = r /\ InAttempt(r)
Trial(r)   == [version |-> Version(r), direction |-> job[r].op, todo |-> ToDo(r)]

\* The statements of an invocation that are on their way.
StrayOf(r) == UNION {o.stmt : o \in orphan[r]}

\* An answer is looked at once.
ReplyInv == \A r \in Runners : pc[r] \notin {"ack", "crashed"} => reply[r] = "none"

LEMMA ReplyStep == Shape /\ ReplyInv /\ [Next]_vars => ReplyInv'
<1> SUFFICES ASSUME Shape, ReplyInv, [Next]_vars PROVE ReplyInv'
  OBVIOUS
<1>1. ASSUME NEW r \in Runners, StepOf(r) PROVE ReplyInv'
  <2>1. ASSUME NEW q \in Runners \ {r} PROVE pc'[q] \notin {"ack", "crashed"} => reply'[q] = "none"
    BY <1>1, Frame DEF OthersStay, Same, ReplyInv
  <2>2. DOMAIN pc = Runners /\ DOMAIN reply = Runners
    BY DEF Shape, TypeOK, RunnerTypeOK
  <2>3. pc[r] \notin {"ack", "crashed"} => reply[r] = "none"
    BY DEF ReplyInv
  <2>4. pc'[r] \notin {"ack", "crashed"} => reply'[r] = "none"
    <3> USE <2>2, <2>3 DEF Goto, runVars, jobVars
    <3>1. CASE ExecSucceeds(r) \/ ExecFails(r) \/ ExecLost(r) \/ Crash(r)
      BY <3>1 DEF ExecSucceeds, ExecFails, ExecLost, Crash
    <3>2. CASE EmitOutcome(r)
      BY <3>2 DEF EmitOutcome
    <3>3. CASE SessionDies(r) \/ Reap(r) \/ Land(r)
      BY <3>3 DEF SessionDies, Reap, Land
    <3>4. CASE Start(r) \/ Load(r) \/ Connect(r) \/ AcquireLock(r) \/ LockTimesOut(r) \/ LockFails(r)
      BY <3>4 DEF Start, Load, Connect, AcquireLock, LockTimesOut, LockFails
    <3>5. CASE InspectFails(r) \/ InspectApply(r) \/ InspectBaseline(r) \/ InspectInit(r)
               \/ InspectRead(r) \/ CreateInitial(r)
      BY <3>5 DEF InspectFails, InspectApply, InspectBaseline, InspectInit, InspectRead,
         CreateInitial
    <3>6. CASE EmitStarted(r) \/ Flush(r) \/ Capture(r) \/ Output(r) \/ Release(r)
      BY <3>6 DEF EmitStarted, Flush, Capture, Output, Release
    <3> QED
      BY <1>1, <3>1, <3>2, <3>3, <3>4, <3>5, <3>6 DEF StepOf, Proceed
  <2> QED
    BY <2>1, <2>4 DEF ReplyInv
<1>2. CASE Edit \/ UNCHANGED vars
  BY <1>2 DEF Edit, vars, runVars, ReplyInv
<1> QED
  BY <1>1, <1>2, StepCases

\* The owner of the lock has the attempt, if there is one.
LEMMA AttemptIs ==
    /\ \A r \in Runners : Holding(r) => Attempt = {Trial(r)}
    /\ (\A r \in Runners : ~Holding(r)) => Attempt = {}
BY DEF Attempt, Holding, Trial

LEMMA HoldingOther ==
    ASSUME Shape, NEW r \in Runners, StepOf(r), NEW q \in Runners \ {r}
    PROVE  (Holding(q)' <=> Holding(q)) /\ Trial(q)' = Trial(q) /\ StrayOf(q)' = StrayOf(q)
<1>1. /\ job'[q] = job[q] /\ plan'[q] = plan[q] /\ cursor'[q] = cursor[q] /\ pc'[q] = pc[q]
      /\ reply'[q] = reply[q] /\ orphan'[q] = orphan[q] /\ (lockOwner' = q <=> lockOwner = q)
  BY Frame DEF OthersStay, Same
<1>2. Version(q)' = Version(q) /\ Statements(q)' = Statements(q)
  BY <1>1 DEF Version, Statements
<1>3. InAttempt(q)' <=> InAttempt(q)
  BY <1>1 DEF InAttempt, RecordInFlight
<1>4. ToDo(q)' = ToDo(q)
  BY <1>1, <1>2 DEF ToDo
<1>5. StrayOf(q)' = StrayOf(q)
  BY <1>1 DEF StrayOf
<1> QED
  BY <1>1, <1>2, <1>3, <1>4, <1>5 DEF Holding, Trial

\* How the attempt changes in a step of one invocation.
LEMMA AttemptStep ==
    ASSUME Shape, NEW r \in Runners, StepOf(r)
    PROVE  /\ ~Holding(r) /\ ~Holding(r)' => Attempt' = Attempt
           /\ Holding(r) => Attempt = {Trial(r)}
           /\ Holding(r)' => Attempt' = {Trial(r)'}
           /\ Holding(r) /\ ~Holding(r)' => Attempt' = {}
           /\ ~Holding(r) /\ Holding(r)' => Attempt = {}
<1>1. \A q \in Runners \ {r} : (Holding(q)' <=> Holding(q)) /\ Trial(q)' = Trial(q)
  BY HoldingOther
<1>2. \A q \in Runners \ {r} : (Holding(r) => ~Holding(q)) /\ (Holding(r)' => ~Holding(q)')
  BY DEF Holding
<1>3. ASSUME ~Holding(r), ~Holding(r)' PROVE Attempt' = Attempt
  BY <1>1, <1>3 DEF Attempt, Holding, Trial
<1>4. Holding(r)' => Attempt' = {Trial(r)'}
  BY DEF Attempt, Holding, Trial
<1>5. ASSUME Holding(r), ~Holding(r)' PROVE Attempt' = {}
  BY <1>1, <1>2, <1>5 DEF Attempt, Holding, Trial
<1>6. ASSUME ~Holding(r), Holding(r)' PROVE Attempt = {}
  BY <1>1, <1>2, <1>6, AttemptIs
<1> QED
  BY <1>3, <1>4, <1>5, <1>6, AttemptIs

\* How the stray statements change.
LEMMA StrayStep ==
    ASSUME Shape, NEW r \in Runners, StepOf(r)
    PROVE  /\ StrayOf(r)' = StrayOf(r) => Stray' = Stray
           /\ StrayOf(r) = {} => Stray' = Stray \cup StrayOf(r)'
           /\ \A s : StrayOf(r) = {s} /\ StrayOf(r)' = {} =>
                       s \in Stray /\ Stray' \in {Stray, Stray \ {s}}
<1>1. \A q \in Runners \ {r} : StrayOf(q)' = StrayOf(q)
  BY HoldingOther
<1>2. Stray = UNION {StrayOf(q) : q \in Runners}
  BY DEF Stray, StrayOf
<1>3. Stray' = UNION {StrayOf(q)' : q \in Runners}
  BY DEF Stray, StrayOf
<1>4. PICK rest : rest = UNION {StrayOf(q) : q \in Runners \ {r}}
  OBVIOUS
<1>5. Stray = StrayOf(r) \cup rest
  BY <1>2, <1>4
<1>6. Stray' = StrayOf(r)' \cup rest
  <2>1. rest = UNION {StrayOf(q)' : q \in Runners \ {r}}
    BY <1>1, <1>4
  <2> QED
    BY <1>3, <2>1
<1>7. ASSUME NEW s, StrayOf(r) = {s}, StrayOf(r)' = {}
      PROVE  s \in Stray /\ Stray' \in {Stray, Stray \ {s}}
  <2>1. Stray = {s} \cup rest /\ Stray' = rest
    BY <1>5, <1>6, <1>7
  <2>2. s \in rest => Stray' = Stray
    BY <2>1
  <2>3. s \notin rest => Stray' = Stray \ {s}
    BY <2>1
  <2> QED
    BY <2>1, <2>2, <2>3
<1>8. StrayOf(r)' = StrayOf(r) => Stray' = Stray
  BY <1>5, <1>6
<1>9. StrayOf(r) = {} => Stray' = Stray \cup StrayOf(r)'
  BY <1>5, <1>6
<1> QED
  BY <1>7, <1>8, <1>9

---------------------------------------------------------------------------
(* The steps of the ledger.                                                *)

\* The beginning of a file: it is the one that the ledger may take.
Fresh(r) ==
    Holding(r) /\ pc[r] = "emit" /\ cursor[r].phase = "sql" /\ cursor[r].stmt = 1 =>
        \E body \in Contents[Version(r)] :
            /\ Version(r) \in Versions /\ managed
            /\ job[r].op \in {"up", "down"} /\ ToDo(r) = SQLOf(job[r].op, body)
            /\ job[r].op = "up" => Version(r) \notin DOMAIN history
            /\ job[r].op = "down" =>
                  /\ Version(r) \in DOMAIN history /\ Reversible(body)
                  /\ \A w \in DOMAIN history : history[w] <= history[Version(r)]

LEMMA AlwaysFresh == LedgerInv /\ ReplyInv => \A r \in Runners : Fresh(r)
<1> SUFFICES ASSUME LedgerInv, ReplyInv, NEW r \in Runners, Holding(r), pc[r] = "emit",
                    cursor[r].phase = "sql", cursor[r].stmt = 1
             PROVE  Fresh(r)
  BY DEF Fresh
<1>1. Shape /\ PlaceInv /\ FilesInv /\ KnowsInv
  BY DEF LedgerInv
<1>2. job[r].op \in {"up", "down"} /\ lockOwner = r /\ reply[r] = "none"
  BY DEF Holding, InAttempt, ReplyInv
<1>3. Decides(r) /\ AtWork(r) /\ ~Recorded(r) /\ managed
  <2>1. sess[r] = "open"
    BY <1>1, <1>2 DEF PlaceInv, SessionInv, SessionOf, Ended
  <2>2. managed
    BY <1>1 DEF PlaceInv, PhaseOf
  <2> QED
    BY <1>2, <2>1, <2>2 DEF Decides, Alive, AtWork, Recorded
<1>4. /\ cursor[r].step \in 1 .. Len(plan[r]) /\ Len(plan[r]) \in Nat
      /\ plan[r][cursor[r].step] \in Step
  BY <1>1, LenProperties, ElementOfSeq DEF Shape, CursorInv, AtOperation, TypeOK, RunnerTypeOK
<1>5. Version(r) \in Versions /\ Statements(r) \in Seq(Statement) /\ Statements(r) # <<>>
  BY <1>1, <1>2, <1>4 DEF Step, Version, Statements, Shape, PlanInv
<1>6. ToDo(r) = Statements(r)
  <2>1. ToDo(r) = SubSeq(Statements(r), 1, Len(Statements(r)))
    BY <1>2 DEF ToDo
  <2> QED
    BY <1>5, <2>1, SubSeqFull
<1>7. /\ Version(r) \in DOMAIN loaded[r]
      /\ Statements(r) = SQLOf(job[r].op, loaded[r][Version(r)])
      /\ loaded[r][Version(r)] \in Contents[Version(r)]
  BY <1>1, <1>2, <1>4 DEF FilesInv, FilesOf, Version, Statements
<1>8. Completed(r) = cursor[r].step - 1 /\ cursor[r].step \in Completed(r) + 1 .. Len(plan[r])
  BY <1>3, <1>4 DEF Completed
<1>9. AheadOf(r) /\ StackOf(r)
  BY <1>1 DEF KnowsInv
<1>10. job[r].op = "up" => Version(r) \notin DOMAIN history
  BY <1>3, <1>8, <1>9 DEF AheadOf, Version
<1>11. ASSUME job[r].op = "down"
       PROVE  /\ Version(r) \in DOMAIN history /\ Reversible(loaded[r][Version(r)])
              /\ \A w \in DOMAIN history : history[w] <= history[Version(r)]
  <2>1. Len(result[r].stack) \in Nat
    BY <1>1, LenProperties DEF Shape, TypeOK, RunnerTypeOK, Outcome
  <2> DEFINE n == Len(result[r].stack) + 1 + Completed(r) - cursor[r].step
  <2>2. n \in 1 .. Len(result[r].stack) /\ Version(r) = result[r].stack[n]
    BY <1>3, <1>8, <1>9, <1>11 DEF AheadOf, Version
  <2>3. n = Len(result[r].stack)
    <3>1. \A m, k \in Nat : m + 1 + (k - 1) - k = m
      OBVIOUS
    <3> QED
      BY <1>4, <1>8, <2>1, <3>1
  <2>4. result[r].stack \in RegistrationOrder(history)
    <3>1. "inspect" \notin err[r]
      BY <1>1 DEF PlaceInv, PhaseOf
    <3> QED
      BY <1>3, <1>9, <1>11, <3>1 DEF StackOf
  <2>5. IsHistory(history)
    BY <1>1 DEF Shape, TypeOK, DatabaseTypeOK
  <2> HIDE DEF n
  <2>6. Len(result[r].stack) > 0 /\ Version(r) = result[r].stack[Len(result[r].stack)]
    BY <2>1, <2>2, <2>3
  <2> QED
    BY <1>5, <1>7, <1>11, <2>4, <2>5, <2>6, LastIsLatest DEF SQLOf, Reversible
<1> QED
  BY <1>2, <1>3, <1>5, <1>6, <1>7, <1>10, <1>11 DEF Fresh

\* A step that leaves the database, the attempt and the statements on their way.
LEMMA Keeps ==
    ASSUME Shape, NEW r \in Runners, StepOf(r), UNCHANGED <<schema, managed, history>>,
           StrayOf(r)' = StrayOf(r), Holding(r)' <=> Holding(r),
           Holding(r) => Trial(r)' = Trial(r)
    PROVE  UNCHANGED Ledger!vars
<1>1. Stray' = Stray
  BY StrayStep
<1>2. Attempt' = Attempt
  BY AttemptStep
<1> QED
  BY <1>1, <1>2 DEF Ledger!vars

LEMMA Idle ==
    ASSUME Shape, NEW r \in Runners, StepOf(r), UNCHANGED <<schema, managed, history>>,
           UNCHANGED orphan, orphan[r] = {},
           pc[r] \notin {"emit", "exec", "ack"}, pc'[r] \notin {"emit", "exec", "ack"}
    PROVE  UNCHANGED Ledger!vars
<1>1. ~Holding(r) /\ ~Holding(r)'
  BY DEF Holding, InAttempt, RecordInFlight
<1>2. StrayOf(r)' = StrayOf(r)
  BY DEF StrayOf
<1> QED
  BY <1>1, <1>2, Keeps

\* The invocation takes its next file.
LEMMA Begins ==
    ASSUME Shape, NEW r \in Runners, StepOf(r), UNCHANGED <<schema, managed, history, orphan>>,
           ~Holding(r), Holding(r)', Fresh(r)',
           pc'[r] = "emit", cursor'[r].phase = "sql", cursor'[r].stmt = 1
    PROVE  Ledger!LedgerNext
<1>1. Stray' = Stray /\ Attempt = {} /\ Attempt' = {Trial(r)'}
  BY StrayStep, AttemptStep DEF StrayOf
<1>2. PICK body \in Contents[Version(r)'] :
         /\ Version(r)' \in Versions /\ managed
         /\ job'[r].op \in {"up", "down"} /\ ToDo(r)' = SQLOf(job'[r].op, body)
         /\ job'[r].op = "up" => Version(r)' \notin DOMAIN history
         /\ job'[r].op = "down" =>
               /\ Version(r)' \in DOMAIN history /\ Reversible(body)
               /\ \A w \in DOMAIN history : history[w] <= history[Version(r)']
  <2>1. \E body \in Contents[Version(r)'] :
            /\ Version(r)' \in Versions /\ managed'
            /\ job'[r].op \in {"up", "down"} /\ ToDo(r)' = SQLOf(job'[r].op, body)
            /\ job'[r].op = "up" => Version(r)' \notin DOMAIN history'
            /\ job'[r].op = "down" =>
                  /\ Version(r)' \in DOMAIN history' /\ Reversible(body)
                  /\ \A w \in DOMAIN history' : history'[w] <= history'[Version(r)']
    BY DEF Fresh, Contents
  <2> QED
    BY <2>1
<1> DEFINE v == Version(r)'
           d == job'[r].op
<1>3. Trial(r)' = [version |-> v, direction |-> d, todo |-> IF d = "up" THEN body.up ELSE body.down]
  BY <1>2 DEF Trial, SQLOf
<1>4. Ledger!Begin(v, d, body)
  BY <1>1, <1>2, <1>3 DEF Ledger!Begin, Ledger!Reversible, Reversible
<1> QED
  BY <1>2, <1>4 DEF Ledger!LedgerNext

\* An attempt is given up.
LEMMA Abandons ==
    ASSUME Shape, NEW r \in Runners, StepOf(r), UNCHANGED <<schema, managed, history>>,
           Holding(r), ~Holding(r)',
           \/ StrayOf(r)' = StrayOf(r)
           \/ /\ StrayOf(r) = {} /\ ToDo(r) # <<>>
              /\ StrayOf(r)' \in {{}, {Head(ToDo(r))}}
    PROVE  Ledger!LedgerNext
<1>1. Attempt = {Trial(r)} /\ Attempt' = {}
  BY AttemptStep
<1>2. Trial(r).todo = ToDo(r)
  BY DEF Trial
<1>3. \/ Stray' = Stray
      \/ ToDo(r) # <<>> /\ Stray' = Stray \cup {Head(ToDo(r))}
  BY StrayStep
<1>4. Ledger!Abandon(Trial(r))
  BY <1>1, <1>2, <1>3 DEF Ledger!Abandon
<1> QED
  BY <1>1, <1>4 DEF Ledger!LedgerNext

\* What is left of a file at one of its statements.
LEMMA NextStatement ==
    ASSUME Shape, NEW r \in Runners, Placed(r), cursor[r].phase = "sql"
    PROVE  /\ Statements(r) \in Seq(Statement) /\ Len(Statements(r)) \in Nat
           /\ cursor[r].stmt \in 1 .. Len(Statements(r))
           /\ reply[r] # "succeeded" =>
                 /\ ToDo(r) # <<>>
                 /\ Head(ToDo(r)) = Statements(r)[cursor[r].stmt]
                 /\ Tail(ToDo(r)) =
                       SubSeq(Statements(r), cursor[r].stmt + 1, Len(Statements(r)))
           /\ Sent(r).stmt = {Statements(r)[cursor[r].stmt]} /\ Sent(r).phase = "sql"
<1>1. /\ cursor[r].step \in 1 .. Len(plan[r])
      /\ plan[r][cursor[r].step] \in Step
  BY ElementOfSeq DEF Shape, TypeOK, RunnerTypeOK, Placed
<1>2. Statements(r) \in Seq(Statement) /\ Len(Statements(r)) \in Nat
  BY <1>1, LenProperties DEF Step, Statements
<1>3. cursor[r].stmt \in 1 .. Len(Statements(r))
  BY DEF Placed
<1>4. ASSUME reply[r] # "succeeded"
      PROVE  /\ ToDo(r) # <<>>
             /\ Head(ToDo(r)) = Statements(r)[cursor[r].stmt]
             /\ Tail(ToDo(r)) = SubSeq(Statements(r), cursor[r].stmt + 1, Len(Statements(r)))
  <2>1. ToDo(r) = SubSeq(Statements(r), cursor[r].stmt, Len(Statements(r)))
    BY <1>4 DEF ToDo
  <2>2. Len(Statements(r)) \in cursor[r].stmt .. Len(Statements(r))
    BY <1>2, <1>3
  <2>3. \A i \in 1 .. Len(Statements(r)) : Statements(r)[i] \in Statement
    BY <1>2, ElementOfSeq
  <2>4. Len(ToDo(r)) = Len(Statements(r)) - cursor[r].stmt + 1
    <3>1. \A i \in cursor[r].stmt .. Len(Statements(r)) : Statements(r)[i] \in Statement
      BY <1>2, <1>3, <2>3
    <3>2. cursor[r].stmt \in Int /\ Len(Statements(r)) \in Int
      BY <1>2, <1>3
    <3>3. Len(SubSeq(Statements(r), cursor[r].stmt, Len(Statements(r)))) =
             IF cursor[r].stmt <= Len(Statements(r))
             THEN Len(Statements(r)) - cursor[r].stmt + 1 ELSE 0
      BY <3>1, <3>2, SubSeqProperties
    <3> QED
      BY <1>2, <1>3, <2>1, <3>3
  <2>5. ToDo(r) # <<>>
    <3>1. Len(ToDo(r)) >= 1
      BY <1>2, <1>3, <2>4
    <3> QED
      BY <3>1, EmptySeq
  <2> QED
    BY <1>2, <1>3, <2>1, <2>2, <2>5, HeadTailOfSubSeq
<1>5. Sent(r).stmt = {Statements(r)[cursor[r].stmt]} /\ Sent(r).phase = "sql"
  BY DEF Sent
<1> QED
  BY <1>2, <1>3, <1>4, <1>5

\* A statement of a file is executed.
LEMMA Runs ==
    ASSUME LedgerInv, ReplyInv, NEW r \in Runners, ExecSucceeds(r), cursor[r].phase = "sql"
    PROVE  Ledger!LedgerNext
<1>1. /\ pc[r] = "exec" /\ pc'[r] = "ack" /\ reply'[r] = "succeeded" /\ Alive(r)
      /\ Accepts(Sent(r)) /\ Commit(Sent(r)) /\ UNCHANGED <<job, plan, cursor, srvVars>>
      /\ Shape /\ StepOf(r) /\ reply[r] = "none"
  <2>1. Sent(r).phase # "delete"
    BY DEF Sent
  <2> QED
    BY <2>1 DEF ExecSucceeds, Goto, LedgerInv, Shape, TypeOK, RunnerTypeOK, StepOf, Proceed,
       jobVars, ReplyInv
<1>2. Placed(r) /\ lockOwner = r /\ orphan[r] = {}
  BY <1>1 DEF Shape, CursorInv, AtOperation, Placed, Statements, LedgerInv, PlaceInv, LockHeldByWorker,
     Working, OrphanOf, Ended
<1>3. PICK s : s = Statements(r)[cursor[r].stmt]
  OBVIOUS
<1>4. ToDo(r) # <<>> /\ Head(ToDo(r)) = s /\ Sent(r).stmt = {s} /\ Sent(r).phase = "sql"
  BY <1>1, <1>2, <1>3, NextStatement
<1>5. Tail(ToDo(r)) = ToDo(r)'
  <2>1. ToDo(r)' = SubSeq(Statements(r), cursor[r].stmt + 1, Len(Statements(r)))
    BY <1>1 DEF ToDo, Statements
  <2> QED
    BY <1>1, <1>2, <2>1, NextStatement
<1>6. Holding(r) /\ Holding(r)'
  BY <1>1, <1>2 DEF Holding, InAttempt, Placed, srvVars
<1>7. Trial(r)' = [Trial(r) EXCEPT !.todo = Tail(@)]
  <2>1. Version(r)' = Version(r)
    BY <1>1 DEF Version
  <2>2. Trial(r)' = [version |-> Version(r), direction |-> job[r].op, todo |-> Tail(ToDo(r))]
    BY <1>1, <1>5, <2>1 DEF Trial
  <2>3. PICK v, d, t : v = Version(r) /\ d = job[r].op /\ t = ToDo(r)
    OBVIOUS
  <2>4. Trial(r) = [version |-> v, direction |-> d, todo |-> t]
    BY <2>3 DEF Trial
  <2>5. Trial(r)' = [version |-> v, direction |-> d, todo |-> Tail(t)]
    BY <2>2, <2>3
  <2>6. PICK u : u = Tail(t)
    OBVIOUS
  <2>7. [[version |-> v, direction |-> d, todo |-> t] EXCEPT !.todo = u]
           = [version |-> v, direction |-> d, todo |-> u]
    OBVIOUS
  <2>8. [Trial(r) EXCEPT !.todo = u] = [version |-> v, direction |-> d, todo |-> u]
    BY <2>4, <2>7
  <2>9. Trial(r).todo = t
    BY <2>4
  <2> QED
    BY <2>5, <2>6, <2>8, <2>9, Zenon
<1>8. ~Rejected(schema, s) /\ schema' = Executed(schema, s) /\ UNCHANGED <<managed, history>>
  <2>1. ~Rejected(schema, s)
    BY <1>1, <1>4 DEF Accepts
  <2>2. schema' = UNION {Executed(schema, t) : t \in {s}} /\ UNCHANGED history
    BY <1>1, <1>4 DEF Commit
  <2>3. managed' = managed
    BY <1>1, <1>4 DEF Commit, LedgerInv, Shape, TypeOK, DatabaseTypeOK
  <2> QED
    BY <2>1, <2>2, <2>3
<1>9. Stray' = Stray /\ Attempt = {Trial(r)} /\ Attempt' = {Trial(r)'}
  BY <1>1, <1>6, StrayStep, AttemptStep DEF StrayOf, srvVars
<1>10. Trial(r).todo = ToDo(r)
  BY DEF Trial
<1>11. Ledger!RunNext(Trial(r))
  BY <1>4, <1>7, <1>8, <1>9, <1>10
     DEF Ledger!RunNext, Ledger!Rejected, Rejected, Ledger!Executed, Executed
<1> QED
  BY <1>9, <1>11 DEF Ledger!LedgerNext

\* A record that is done, by its own reply or late.
LEMMA Registers ==
    ASSUME ClockAdvances, LedgerInv, NEW r \in Runners, StepOf(r),
           Decides(r), pc[r] = "exec" \/ InFlight(r), cursor[r].phase = "record",
           Accepts(Sent(r)), Commit(Sent(r)), ~Holding(r)', StrayOf(r)' = StrayOf(r)
    PROVE  Ledger!LedgerNext
<1>1. /\ Shape /\ Placed(r) /\ IsHistory(history) /\ clock \in Times
      /\ job[r].op = "baseline" => DOMAIN history = {}
  BY AtRecord DEF LedgerInv, Shape, TypeOK, DatabaseTypeOK
<1>2. Version(r) \in Versions
  <2>1. plan[r][cursor[r].step] \in Step
    BY <1>1, ElementOfSeq DEF Shape, TypeOK, RunnerTypeOK, Placed
  <2> QED
    BY <2>1 DEF Version, Step
<1>3. Stray' = Stray
  BY <1>1, StrayStep
<1>4. UNCHANGED <<schema, managed>> /\ managed
  BY DEF Accepts, Commit, Sent
<1>5. job[r].op \in {"up", "down"} => Holding(r)
  <2>1. RecordInFlight(r) <=> InFlight(r)
    BY InFlightIsRecord DEF LedgerInv
  <2> QED
    BY <2>1 DEF Holding, InAttempt, Decides
<1>6. CASE job[r].op = "baseline"
  <2>1. ~Holding(r)
    BY <1>6 DEF Holding, InAttempt
  <2>2. \A q \in Runners : ~Holding(q)
    BY <2>1 DEF Holding, Decides
  <2>3. Attempt = {} /\ Attempt' = Attempt
    BY <1>1, <2>1, <2>2, AttemptIs, AttemptStep
  <2>4. PICK now \in Times :
           history' = [w \in DOMAIN history \cup {Version(r)} |->
                          IF w \in DOMAIN history THEN history[w] ELSE now]
    BY <1>1, <1>6, RecordCommit
  <2>5. history' = [w \in {Version(r)} |-> now]
    BY <1>1, <1>6, <2>4
  <2>6. Ledger!Adopt(Version(r))
    BY <1>1, <1>3, <1>4, <1>6, <2>3, <2>5 DEF Ledger!Adopt
  <2> QED
    BY <1>2, <2>6 DEF Ledger!LedgerNext
<1>7. CASE job[r].op \in {"up", "down"}
  <2>1. Attempt = {Trial(r)} /\ Attempt' = {}
    BY <1>1, <1>5, <1>7, AttemptStep
  <2>2. Trial(r).todo = <<>> /\ Trial(r).version = Version(r) /\ Trial(r).direction = job[r].op
    BY DEF Trial, ToDo
  <2>3. CASE job[r].op = "down"
    <3>1. history' = Restrict(history, DOMAIN history \ {Version(r)})
      BY <1>1, <2>3, RecordCommit
    <3>2. Ledger!Register(Trial(r))
      BY <1>3, <1>4, <2>1, <2>2, <2>3, <3>1
         DEF Ledger!Register, Ledger!Restrict, Restrict
    <3> QED
      BY <2>1, <3>2 DEF Ledger!LedgerNext
  <2>4. CASE job[r].op = "up"
    <3>1. PICK now \in Times :
             /\ now - clock \in ClockSteps
             /\ history' = [w \in DOMAIN history \cup {Version(r)} |->
                               IF w \in DOMAIN history THEN history[w] ELSE now]
      BY <1>1, <2>4, RecordCommit
    <3>2. Version(r) \notin DOMAIN history
      BY <1>1, <2>4, AtRecord DEF LedgerInv
    <3>3. history' = [w \in DOMAIN history \cup {Version(r)} |->
                         IF w = Version(r) THEN now ELSE history[w]]
      BY <3>1, <3>2
    <3>4. ASSUME NEW w \in DOMAIN history PROVE history[w] < now
      <4>1. history[w] \in Int /\ clock \in Int /\ now \in Int /\ history[w] <= clock
        BY <1>1, TimesAssumption DEF LedgerInv, KnowsInv, ClockInv, IsHistory
      <4>2. clock < now
        BY <3>1, <4>1 DEF ClockAdvances
      <4> QED
        BY <4>1, <4>2
    <3>5. Ledger!Register(Trial(r))
      BY <1>3, <1>4, <2>1, <2>2, <2>4, <3>2, <3>3, <3>4 DEF Ledger!Register
    <3> QED
      BY <2>1, <3>5 DEF Ledger!LedgerNext
  <2> QED
    BY <1>7, <2>3, <2>4
<1> QED
  BY <1>1, <1>6, <1>7 DEF Placed

\* The reply of an operation arrives.
LEMMA RefineSucceeds ==
    ASSUME ClockAdvances, LedgerInv, ReplyInv, NEW r \in Runners, ExecSucceeds(r)
    PROVE  Ledger!LedgerNext
<1>1. /\ Shape /\ StepOf(r) /\ pc[r] = "exec" /\ pc'[r] = "ack" /\ Alive(r)
      /\ Accepts(Sent(r)) /\ Commit(Sent(r)) /\ UNCHANGED <<job, plan, cursor, srvVars>>
      /\ cursor[r].phase \in Phases
  BY DEF ExecSucceeds, Goto, LedgerInv, Shape, TypeOK, RunnerTypeOK, Cursor, StepOf, Proceed,
     jobVars
<1>2. Placed(r) /\ Decides(r) /\ orphan[r] = {} /\ orphan'[r] = {}
  BY <1>1 DEF Shape, CursorInv, AtOperation, Placed, Statements, LedgerInv, PlaceInv,
     LockHeldByWorker, Decides, Working, OrphanOf, Ended, srvVars
<1>3. StrayOf(r)' = StrayOf(r)
  BY <1>2 DEF StrayOf
<1>4. CASE cursor[r].phase = "history"
  <2>1. ~Holding(r) /\ ~Holding(r)'
    BY <1>1, <1>2, <1>4 DEF Holding, InAttempt, RecordInFlight
  <2>2. Attempt' = Attempt /\ Stray' = Stray
    BY <1>1, <1>3, <2>1, AttemptStep, StrayStep
  <2>3. ~managed /\ managed' = TRUE /\ UNCHANGED <<schema, history>>
    BY <1>1, <1>4 DEF Accepts, Commit, Sent
  <2> QED
    BY <2>2, <2>3 DEF Ledger!Manage, Ledger!LedgerNext
<1>5. CASE cursor[r].phase = "sql"
  BY <1>5, Runs
<1>6. CASE cursor[r].phase = "record"
  <2>1. ~Holding(r)'
    BY <1>1, <1>2, <1>6 DEF Holding, InAttempt, RecordInFlight
  <2> QED
    BY <1>1, <1>2, <1>3, <1>6, <2>1, Registers
<1> QED
  BY <1>1, <1>4, <1>5, <1>6 DEF Phases

\* An operation without a reply takes effect late, or not at all.
LEMMA RefineLand ==
    ASSUME ClockAdvances, LedgerInv, ReplyInv, NEW r \in Runners, Land(r)
    PROVE  [Ledger!LedgerNext]_(Ledger!vars)
<1>1. /\ Shape /\ StepOf(r) /\ orphan[r] = {Sent(r)} /\ Placed(r) /\ orphan'[r] = {}
      /\ UNCHANGED <<job, plan, cursor, pc, reply, lockOwner>>
      /\ cursor[r].phase \in Phases /\ pc[r] # "exec" /\ pc[r] # "emit"
      /\ ~(pc[r] = "ack" /\ reply[r] = "succeeded")
  <2>1. orphan[r] # {} /\ OrphanOf(r)
    BY DEF Land, LedgerInv, PlaceInv
  <2> QED
    BY <2>1 DEF Land, OrphanOf, Ended, LedgerInv, Shape, TypeOK, RunnerTypeOK, ServerTypeOK, Cursor,
       StepOf, runVars, jobVars
<1>2. StrayOf(r) = Sent(r).stmt /\ StrayOf(r)' = {}
  BY <1>1 DEF StrayOf
<1>3. ~Holding(r)'
  BY <1>1 DEF Holding, InAttempt, RecordInFlight
<1>4. IF Accepts(Sent(r)) THEN Commit(Sent(r)) ELSE UNCHANGED dbVars
  BY <1>1 DEF Land
<1>5. CASE cursor[r].phase = "history"
  <2>1. ~Holding(r) /\ StrayOf(r) = {}
    BY <1>1, <1>2, <1>5 DEF Holding, InAttempt, RecordInFlight, Sent
  <2>2. Attempt' = Attempt /\ Stray' = Stray
    BY <1>1, <1>2, <1>3, <2>1, AttemptStep, StrayStep
  <2>3. CASE Accepts(Sent(r))
    <3>1. ~managed /\ managed' = TRUE /\ UNCHANGED <<schema, history>>
      BY <1>4, <1>5, <2>3 DEF Accepts, Commit, Sent
    <3> QED
      BY <2>2, <3>1 DEF Ledger!Manage, Ledger!LedgerNext
  <2>4. CASE ~Accepts(Sent(r))
    BY <1>4, <2>2, <2>4 DEF Ledger!vars, dbVars
  <2> QED
    BY <2>3, <2>4
<1>6. CASE cursor[r].phase = "sql"
  <2>1. PICK s : s = Statements(r)[cursor[r].stmt]
    OBVIOUS
  <2>2. Sent(r).stmt = {s} /\ Sent(r).phase = "sql"
    BY <1>1, <1>6, <2>1, NextStatement
  <2>3. ~Holding(r)
    BY <1>1, <2>2 DEF Holding, InAttempt, RecordInFlight
  <2>4. Attempt' = Attempt /\ s \in Stray /\ Stray' \in {Stray, Stray \ {s}}
    BY <1>1, <1>2, <1>3, <2>2, <2>3, AttemptStep, StrayStep
  <2>5. UNCHANGED history /\ managed' = managed
    BY <1>4, <2>2 DEF Commit, dbVars, LedgerInv, Shape, TypeOK, DatabaseTypeOK
  <2>6. schema' = IF Rejected(schema, s) THEN schema ELSE Executed(schema, s)
    <3>1. Accepts(Sent(r)) <=> ~Rejected(schema, s)
      BY <2>2 DEF Accepts
    <3>2. Commit(Sent(r)) => schema' = UNION {Executed(schema, t) : t \in {s}}
      BY <2>2 DEF Commit
    <3> QED
      BY <1>4, <3>1, <3>2 DEF dbVars
  <2>7. Ledger!Arrive
    BY <2>4, <2>5, <2>6 DEF Ledger!Arrive, Ledger!Rejected, Rejected, Ledger!Executed, Executed
  <2> QED
    BY <2>7 DEF Ledger!LedgerNext
<1>7. CASE cursor[r].phase = "record"
  <2>1. StrayOf(r)' = StrayOf(r) /\ InFlight(r) /\ Decides(r)
    BY <1>1, <1>2, <1>7 DEF Sent, InFlight, Decides, LedgerInv, PlaceInv, OrphanOf
  <2>2. CASE Accepts(Sent(r))
    BY <1>1, <1>3, <1>4, <1>7, <2>1, <2>2, Registers
  <2>3. CASE ~Accepts(Sent(r)) /\ Holding(r)
    BY <1>1, <1>3, <1>4, <2>1, <2>3, Abandons DEF dbVars
  <2>4. CASE ~Accepts(Sent(r)) /\ ~Holding(r)
    BY <1>1, <1>3, <1>4, <2>1, <2>4, Keeps DEF dbVars
  <2> QED
    BY <2>2, <2>3, <2>4
<1> QED
  BY <1>1, <1>5, <1>6, <1>7 DEF Phases

\* A step that touches no operation on its way and not the place in a file.
LEMMA Carries ==
    ASSUME Shape, NEW r \in Runners, StepOf(r),
           UNCHANGED <<schema, managed, history, job, plan, cursor, reply, lockOwner, orphan>>,
           InAttempt(r)' <=> InAttempt(r)
    PROVE  UNCHANGED Ledger!vars
<1>1. Trial(r)' = Trial(r)
  BY DEF Trial, Version, ToDo, Statements
<1>2. StrayOf(r)' = StrayOf(r) /\ (Holding(r)' <=> Holding(r))
  BY DEF StrayOf, Holding
<1> QED
  BY <1>1, <1>2, Keeps

\* Before the first operation, only Apply's choice of its first file shows.
LEMMA RefineBefore ==
    ASSUME LedgerInv, NEW r \in Runners, Fresh(r)',
           \/ Start(r) \/ Load(r) \/ Connect(r) \/ AcquireLock(r) \/ LockTimesOut(r)
           \/ LockFails(r) \/ InspectFails(r) \/ InspectApply(r) \/ InspectBaseline(r)
           \/ InspectInit(r) \/ InspectRead(r) \/ CreateInitial(r)
    PROVE  [Ledger!LedgerNext]_(Ledger!vars)
<1>1. Shape /\ OrphanOf(r) /\ DOMAIN pc = Runners
  BY DEF LedgerInv, PlaceInv, Shape, TypeOK, RunnerTypeOK
<1>2. /\ StepOf(r) /\ pc[r] \in {"start", "load", "connect", "lock", "inspect", "create"}
      /\ UNCHANGED <<schema, managed, history, orphan>>
  BY DEF StepOf, Proceed, Start, Load, Connect, AcquireLock, LockTimesOut, LockFails, InspectFails,
     InspectApply, InspectBaseline, InspectInit, InspectRead, CreateInitial, dbVars, srvVars
<1>3. orphan[r] = {} /\ StrayOf(r)' = StrayOf(r) /\ ~Holding(r)
  BY <1>1, <1>2 DEF OrphanOf, Ended, StrayOf, Holding, InAttempt, RecordInFlight
<1>4. ~InspectApply(r) => ~Holding(r)'
  <2>1. InspectBaseline(r) => job'[r].op = "baseline"
    BY DEF InspectBaseline, jobVars
  <2>2. ~InspectApply(r) /\ ~InspectBaseline(r) => pc'[r] \notin {"emit", "exec", "ack"}
    BY <1>1 DEF Start, Load, Connect, AcquireLock, LockTimesOut, LockFails, InspectFails,
       InspectInit, InspectRead, CreateInitial, Goto
  <2> QED
    BY <1>2, <1>3, <2>1, <2>2 DEF Holding, InAttempt, RecordInFlight
<1>5. CASE ~Holding(r)'
  BY <1>1, <1>2, <1>3, <1>5, Keeps
<1>6. CASE Holding(r)'
  <2>1. InspectApply(r) /\ job[r].op \in {"up", "down", "plan up", "plan down"}
    BY <1>4, <1>6 DEF InspectApply
  <2>2. pc'[r] \in {"emit", "exec", "ack"} /\ cursor'[r].phase \in {"sql", "record"}
    BY <1>2, <1>3, <1>6 DEF Holding, InAttempt, RecordInFlight
  <2>3. pc'[r] = "emit" /\ cursor' = [cursor EXCEPT ![r] = At(FirstPhase(r), 1, 1)]
    <3>1. \/ Goto(r, "release") \/ Goto(r, "output") \/ Goto(r, "flush")
          \/ Goto(r, "emit") /\ cursor' = [cursor EXCEPT ![r] = At(FirstPhase(r), 1, 1)]
      BY <2>1, ApplyCases
    <3> QED
      BY <1>1, <2>2, <3>1 DEF Goto
  <2>4. cursor'[r] = At(FirstPhase(r), 1, 1)
    BY <2>3 DEF LedgerInv, Shape, TypeOK, RunnerTypeOK
  <2>5. cursor'[r].phase = "sql" /\ cursor'[r].stmt = 1
    <3>1. cursor'[r].phase = FirstPhase(r) /\ cursor'[r].stmt = 1
      BY <2>4 DEF At
    <3> QED
      BY <2>1, <2>2, <3>1 DEF FirstPhase
  <2> QED
    BY <1>1, <1>2, <1>3, <1>6, <2>3, <2>5, Begins
<1> QED
  BY <1>5, <1>6

\* The events of an operation: the next file begins after the version table is
\* created, and an attempt ends where an event or its operation fails.
LEMMA RefineOutcome ==
    ASSUME LedgerInv, ReplyInv, NEW r \in Runners, Fresh(r)', EmitOutcome(r)
    PROVE  [Ledger!LedgerNext]_(Ledger!vars)
<1>1. /\ Shape /\ OrphanOf(r) /\ StepOf(r) /\ pc[r] = "ack" /\ reply'[r] = "none"
      /\ UNCHANGED <<schema, managed, history, orphan, lockOwner, job, plan>>
      /\ \/ reply[r] = "succeeded" /\ Advance(r)
         \/ Abort(r) /\ UNCHANGED cursor
      /\ DOMAIN pc = Runners /\ cursor \in [Runners -> Cursor]
  BY DEF LedgerInv, PlaceInv, StepOf, Proceed, EmitOutcome, dbVars, srvVars, jobVars,
     Shape, TypeOK, RunnerTypeOK
<1>2. StrayOf(r)' = StrayOf(r) /\ (RecordInFlight(r)' <=> RecordInFlight(r))
  BY <1>1 DEF StrayOf, RecordInFlight
<1>3. Placed(r)
  BY <1>1 DEF Shape, CursorInv, AtOperation, Placed, Statements
<1>4. CASE Abort(r) /\ UNCHANGED cursor
  <2>1. pc'[r] \in {"flush", "release"}
    BY <1>1, <1>4 DEF Abort, Goto
  <2>2. Holding(r)' => RecordInFlight(r)'
    BY <2>1 DEF Holding, InAttempt
  <2>3. CASE RecordInFlight(r)
    <3>1. cursor[r].phase = "record" /\ (Holding(r)' <=> Holding(r))
      <4>1. RecordInFlight(r) <=> InFlight(r)
        BY InFlightIsRecord DEF LedgerInv
      <4> QED
        BY <1>1, <1>2, <1>4, <2>3, <4>1 DEF Holding, InAttempt, InFlight
    <3>2. Trial(r)' = Trial(r)
      BY <1>1, <1>4, <3>1 DEF Trial, Version, ToDo
    <3> QED
      BY <1>1, <1>2, <3>1, <3>2, Keeps
  <2>4. CASE ~RecordInFlight(r) /\ Holding(r)
    BY <1>1, <1>2, <2>2, <2>4, Abandons
  <2>5. CASE ~RecordInFlight(r) /\ ~Holding(r)
    BY <1>1, <1>2, <2>2, <2>5, Keeps
  <2> QED
    BY <2>3, <2>4, <2>5
<1>5. CASE reply[r] = "succeeded" /\ Advance(r)
  <2>1. orphan[r] = {} /\ orphan'[r] = {}
    BY <1>1, <1>5 DEF OrphanOf, Ended
  <2>2. CASE cursor[r].phase = "history"
    <3>1. ~Holding(r)
      BY <1>1, <2>1, <2>2 DEF Holding, InAttempt, RecordInFlight
    <3>2. CASE job[r].op = "baseline"
      <4>1. ~Holding(r)'
        BY <1>1, <3>2 DEF Holding, InAttempt
      <4> QED
        BY <1>1, <1>2, <3>1, <4>1, Keeps
    <3>3. CASE job[r].op \in {"up", "down"}
      <4>1. cursor' = [cursor EXCEPT ![r].phase = "sql"] /\ pc'[r] = "emit"
        BY <1>1, <1>5, <2>2, <3>3 DEF Advance, Goto
      <4>2. cursor'[r] = [cursor[r] EXCEPT !.phase = "sql"] /\ cursor[r] \in Cursor
        BY <1>1, <4>1
      <4>3. cursor[r].stmt = 1
        <5>1. cursor[r].stmt \in {0, 1}
          BY <2>2 DEF LedgerInv, PlaceInv, PhaseOf
        <5>2. cursor[r].stmt \in 1 .. Len(plan[r][cursor[r].step].statements)
          BY <1>1, <3>3 DEF Shape, CursorInv, AtOperation
        <5> QED
          BY <5>1, <5>2
      <4>4. cursor'[r].phase = "sql" /\ cursor'[r].stmt = 1
        BY <4>2, <4>3 DEF Cursor
      <4>5. CASE Holding(r)'
        BY <1>1, <3>1, <4>1, <4>4, <4>5, Begins
      <4>6. CASE ~Holding(r)'
        BY <1>1, <1>2, <3>1, <4>6, Keeps
      <4> QED
        BY <4>5, <4>6
    <3> QED
      BY <1>3, <3>2, <3>3 DEF Placed
  <2>3. CASE cursor[r].phase = "sql"
    <3>1. cursor'[r] = AfterSQL(r) /\ pc'[r] = "emit"
      BY <1>1, <1>5, <2>3 DEF Advance, Goto
    <3>2. /\ Statements(r) \in Seq(Statement) /\ Len(Statements(r)) \in Nat
          /\ cursor[r].stmt \in 1 .. Len(Statements(r))
      BY <1>1, <1>3, <2>3, NextStatement
    <3>3. cursor'[r].step = cursor[r].step /\ cursor'[r].phase \in {"sql", "record"}
      BY <3>1 DEF AfterSQL, At
    <3>4. Version(r)' = Version(r) /\ Statements(r)' = Statements(r)
      BY <1>1, <3>3 DEF Version, Statements
    <3>5. ToDo(r) = SubSeq(Statements(r), cursor[r].stmt + 1, Len(Statements(r)))
      BY <1>5, <2>3 DEF ToDo
    <3>6. ToDo(r)' = ToDo(r)
      <4>1. CASE cursor[r].stmt < Len(Statements(r))
        <5>1. cursor'[r] = At("sql", cursor[r].step, cursor[r].stmt + 1)
          BY <3>1, <4>1 DEF AfterSQL
        <5>2. cursor'[r].phase = "sql" /\ cursor'[r].stmt = cursor[r].stmt + 1
          BY <5>1 DEF At
        <5>3. ToDo(r)' = SubSeq(Statements(r), cursor'[r].stmt, Len(Statements(r)))
          BY <1>1, <3>4, <5>2 DEF ToDo
        <5> QED
          BY <3>5, <5>2, <5>3
      <4>2. CASE ~(cursor[r].stmt < Len(Statements(r)))
        <5>1. cursor'[r] = At("record", cursor[r].step, 1)
          BY <3>1, <4>2 DEF AfterSQL
        <5>2. ToDo(r)' = <<>>
          BY <5>1 DEF At, ToDo
        <5>3. Len(Statements(r)) < cursor[r].stmt + 1 /\ cursor[r].stmt + 1 \in Int
          BY <3>2, <4>2
        <5> QED
          BY <3>2, <3>5, <5>2, <5>3, SubSeqEmpty
      <4> QED
        BY <4>1, <4>2
    <3>7. Holding(r)' <=> Holding(r)
      BY <1>1, <1>5, <2>3, <3>1, <3>3 DEF Holding, InAttempt
    <3>8. Trial(r)' = Trial(r)
      BY <1>1, <3>4, <3>6 DEF Trial
    <3> QED
      BY <1>1, <1>2, <3>7, <3>8, Keeps
  <2>4. CASE cursor[r].phase = "record"
    <3>1. pc'[r] \in {"output", "capture"}
      BY <1>1, <1>5, <2>4 DEF Advance, Goto
    <3>2. ~Holding(r) /\ ~Holding(r)'
      BY <1>1, <2>1, <2>4, <3>1 DEF Holding, InAttempt, RecordInFlight
    <3> QED
      BY <1>1, <1>2, <3>2, Keeps
  <2> QED
    BY <1>1, <2>2, <2>3, <2>4 DEF Cursor, Phases
<1> QED
  BY <1>1, <1>4, <1>5

\* The statement is announced, or its announcement fails.
LEMMA RefineStarted ==
    ASSUME LedgerInv, NEW r \in Runners, EmitStarted(r)
    PROVE  [Ledger!LedgerNext]_(Ledger!vars)
<1>1. /\ Shape /\ OrphanOf(r) /\ StepOf(r) /\ pc[r] = "emit" /\ orphan[r] = {}
      /\ pc'[r] \in {"exec", "flush", "release"}
      /\ UNCHANGED <<schema, managed, history, job, plan, cursor, reply, lockOwner, orphan>>
  BY DEF LedgerInv, PlaceInv, OrphanOf, Ended, StepOf, Proceed, EmitStarted, Goto, Abort, dbVars,
     srvVars, jobVars, Shape, TypeOK, RunnerTypeOK
<1>2. CASE pc'[r] = "exec"
  <2>1. InAttempt(r)' <=> InAttempt(r)
    BY <1>1, <1>2 DEF InAttempt, RecordInFlight
  <2> QED
    BY <1>1, <2>1, Carries
<1>3. CASE pc'[r] # "exec"
  <2>1. ~Holding(r)' /\ StrayOf(r)' = StrayOf(r)
    BY <1>1, <1>3 DEF Holding, InAttempt, RecordInFlight, StrayOf
  <2> QED
    BY <1>1, <2>1, Abandons, Keeps
<1> QED
  BY <1>2, <1>3

\* The statement fails, or its reply does not come, or nobody waits for it.
LEMMA RefineFails ==
    ASSUME LedgerInv, ReplyInv, NEW r \in Runners,
           ExecFails(r) \/ ExecLost(r) \/ (Crash(r) /\ pc[r] = "exec")
    PROVE  [Ledger!LedgerNext]_(Ledger!vars)
<1>1. /\ Shape /\ OrphanOf(r) /\ SessionOf(r) /\ StepOf(r) /\ pc[r] = "exec"
      /\ pc'[r] \in {"ack", "crashed"} /\ orphan[r] = {}
      /\ reply[r] = "none" /\ reply'[r] \in {"none", "failed", "unknown"}
      /\ UNCHANGED <<schema, managed, history, job, plan, cursor, lockOwner>>
      /\ cursor[r].phase \in Phases
  BY DEF LedgerInv, PlaceInv, SessionInv, OrphanOf, Ended, StepOf, Proceed, ExecFails, ExecLost, Crash,
     Goto, dbVars, srvVars, jobVars, runVars, Shape, TypeOK, RunnerTypeOK, Cursor, ReplyInv
<1>2. Placed(r)
  BY <1>1 DEF Shape, CursorInv, AtOperation, Placed, Statements
<1>3. orphan'[r] \in {{}, {Sent(r)}}
  <2>1. DOMAIN orphan = Runners
    BY DEF LedgerInv, Shape, TypeOK, ServerTypeOK
  <2>2. orphan' = orphan \/ orphan' = Add(orphan, r, Sent(r))
    BY DEF ExecFails, ExecLost, Crash, srvVars
  <2> QED
    BY <1>1, <2>1, <2>2 DEF Add
<1>4. StrayOf(r) = {} /\ StrayOf(r)' \in {{}, Sent(r).stmt}
  BY <1>1, <1>3 DEF StrayOf
<1>5. Holding(r)' <=> lockOwner = r /\ InAttempt(r) /\ cursor[r].phase = "record" /\ orphan'[r] # {}
  <2>1. RecordInFlight(r)' <=> orphan'[r] # {} /\ Sent(r).phase \in {"insert", "delete"}
    BY <1>3 DEF RecordInFlight
  <2>2. Sent(r).phase \in {"insert", "delete"} <=> cursor[r].phase = "record"
    BY <1>1 DEF Sent, Phases
  <2> QED
    BY <1>1, <2>1, <2>2 DEF Holding, InAttempt
<1>6. CASE ~Holding(r)
  <2>1. ~Holding(r)'
    BY <1>5, <1>6 DEF Holding
  <2>2. StrayOf(r)' = {}
    <3>1. CASE orphan'[r] = {}
      BY <3>1 DEF StrayOf
    <3>2. CASE orphan'[r] # {}
      <4>1. Alive(r)
        BY <1>1, <3>2 DEF ExecFails, ExecLost, Crash, srvVars
      <4>2. lockOwner = r
        BY <1>1, <4>1 DEF LedgerInv, PlaceInv, LockHeldByWorker, Working
      <4>3. cursor[r].phase # "sql"
        BY <1>1, <1>2, <1>6, <4>2 DEF Holding, InAttempt, Placed
      <4>4. Sent(r).stmt = {}
        BY <1>1, <4>3 DEF Sent, Phases
      <4> QED
        BY <1>4, <4>4
    <3> QED
      BY <3>1, <3>2
  <2> QED
    BY <1>1, <1>4, <1>6, <2>1, <2>2, Keeps
<1>7. CASE Holding(r) /\ cursor[r].phase = "sql"
  <2>1. ToDo(r) # <<>> /\ Sent(r).stmt = {Head(ToDo(r))}
    BY <1>1, <1>2, <1>7, NextStatement
  <2>2. ~Holding(r)'
    BY <1>5, <1>7
  <2>3. StrayOf(r)' \in {{}, {Head(ToDo(r))}}
    BY <1>4, <2>1
  <2> QED
    BY <1>1, <1>4, <1>7, <2>1, <2>2, <2>3, Abandons
<1>8. CASE Holding(r) /\ cursor[r].phase = "record"
  <2>1. StrayOf(r)' = StrayOf(r)
    BY <1>4, <1>8 DEF Sent
  <2>2. CASE Holding(r)'
    <3>1. Trial(r)' = Trial(r)
      BY <1>1, <1>8 DEF Trial, Version, ToDo
    <3> QED
      BY <1>1, <1>8, <2>1, <2>2, <3>1, Keeps
  <2>3. CASE ~Holding(r)'
    BY <1>1, <1>8, <2>1, <2>3, Abandons
  <2> QED
    BY <2>2, <2>3
<1>9. Holding(r) => cursor[r].phase \in {"sql", "record"}
  BY DEF Holding, InAttempt
<1> QED
  BY <1>6, <1>7, <1>8, <1>9

\* After the operations of a file: its snapshot, then the next file or the end.
LEMMA RefineAfter ==
    ASSUME LedgerInv, NEW r \in Runners, Fresh(r)',
           Flush(r) \/ Capture(r) \/ Output(r) \/ Release(r)
    PROVE  [Ledger!LedgerNext]_(Ledger!vars)
<1>1. /\ Shape /\ OrphanOf(r) /\ StepOf(r) /\ pc[r] \in {"flush", "capture", "output", "release"}
      /\ UNCHANGED <<schema, managed, history, orphan>>
      /\ DOMAIN pc = Runners /\ DOMAIN cursor = Runners
  BY DEF LedgerInv, PlaceInv, StepOf, Proceed, Flush, Capture, Output, Release, dbVars,
     srvVars, Shape, TypeOK, RunnerTypeOK
<1>2. CASE Flush(r)
  <2>1. /\ pc[r] = "flush" /\ pc'[r] = "release"
        /\ UNCHANGED <<job, plan, cursor, reply, lockOwner>>
    BY <1>1, <1>2 DEF Flush, Goto, srvVars, jobVars
  <2>2. InAttempt(r)' <=> InAttempt(r)
    BY <1>1, <2>1 DEF InAttempt, RecordInFlight
  <2> QED
    BY <1>1, <2>1, <2>2, Carries
<1>3. CASE Capture(r)
  <2>1. pc[r] = "capture" /\ pc'[r] \in {"output", "flush"}
    BY <1>1, <1>3 DEF Capture, Goto
  <2> QED
    BY <1>1, <2>1, Idle DEF OrphanOf, Ended
<1>4. CASE Output(r)
  <2>1. pc[r] = "output" /\ orphan[r] = {} /\ pc'[r] \in {"emit", "flush", "release"}
    BY <1>1, <1>4 DEF Output, Goto, Abort, OrphanOf, Ended
  <2>2. CASE pc'[r] # "emit"
    BY <1>1, <2>1, <2>2, Idle
  <2>3. CASE pc'[r] = "emit"
    <3>1. ~Holding(r) /\ StrayOf(r)' = StrayOf(r)
      BY <1>1, <2>1 DEF Holding, InAttempt, RecordInFlight, StrayOf
    <3>2. cursor'[r] = At("sql", cursor[r].step + 1, 1)
      BY <1>1, <1>4, <2>3 DEF Output, Goto, Abort
    <3>3. cursor'[r].phase = "sql" /\ cursor'[r].stmt = 1
      BY <3>2 DEF At
    <3>4. CASE Holding(r)'
      BY <1>1, <2>3, <3>1, <3>3, <3>4, Begins
    <3>5. CASE ~Holding(r)'
      BY <1>1, <3>1, <3>5, Keeps
    <3> QED
      BY <3>4, <3>5
  <2> QED
    BY <2>1, <2>2, <2>3
<1>5. CASE Release(r)
  <2>1. /\ pc[r] = "release" /\ pc'[r] = "done" /\ UNCHANGED <<job, plan, cursor, reply>>
        /\ Alive(r) \/ UNCHANGED lockOwner
    BY <1>1, <1>5 DEF Release, Goto, jobVars
  <2>2. CASE Alive(r)
    <3>1. orphan[r] = {}
      BY <1>1, <2>2 DEF OrphanOf, Alive
    <3> QED
      BY <1>1, <2>1, <3>1, Idle
  <2>3. CASE UNCHANGED lockOwner
    <3>1. InAttempt(r)' <=> InAttempt(r)
      BY <1>1, <2>1 DEF InAttempt, RecordInFlight
    <3> QED
      BY <1>1, <2>1, <2>3, <3>1, Carries
  <2> QED
    BY <2>1, <2>2, <2>3
<1> QED
  BY <1>2, <1>3, <1>4, <1>5

\* The process or its session ends: an attempt under way is given up, except for
\* a record that can still arrive under the lock.
LEMMA RefineEnds ==
    ASSUME LedgerInv, ReplyInv, NEW r \in Runners, Crash(r) \/ SessionDies(r) \/ Reap(r)
    PROVE  [Ledger!LedgerNext]_(Ledger!vars)
<1>1. /\ Shape /\ OrphanOf(r) /\ StepOf(r)
      /\ UNCHANGED <<schema, managed, history, job, plan, cursor, reply>>
  BY DEF LedgerInv, PlaceInv, StepOf, dbVars, runVars, jobVars, Crash, SessionDies, Reap
<1>2. CASE SessionDies(r)
  <2>1. orphan[r] = {} /\ orphan' = orphan /\ ~Holding(r)'
    BY <1>1, <1>2, RunnersAssumption DEF SessionDies, OrphanOf, Holding
  <2>2. StrayOf(r)' = StrayOf(r)
    BY <2>1 DEF StrayOf
  <2> QED
    BY <1>1, <2>1, <2>2, Abandons, Keeps
<1>3. CASE Reap(r)
  <2>1. ~Holding(r)'
    BY <1>3, RunnersAssumption DEF Reap, Holding
  <2>2. StrayOf(r)' = StrayOf(r)
    <3>1. orphan'[r] = {o \in orphan[r] : o.phase \in {"history", "sql"}}
      BY <1>3 DEF Reap, LedgerInv, Shape, TypeOK, ServerTypeOK
    <3>2. orphan[r] = {} \/ orphan[r] = {Sent(r)}
      BY <1>1 DEF OrphanOf
    <3>3. Sent(r).phase \notin {"history", "sql"} => Sent(r).stmt = {}
      <4>1. cursor[r].phase \in {"history", "sql", "record"}
        BY <1>1 DEF Shape, TypeOK, RunnerTypeOK, Cursor, Phases
      <4> QED
        BY <4>1 DEF Sent
    <3> QED
      BY <3>1, <3>2, <3>3 DEF StrayOf
  <2> QED
    BY <1>1, <2>1, <2>2, Abandons, Keeps
<1>4. CASE Crash(r) /\ pc[r] = "exec"
  BY <1>4, RefineFails
<1>5. CASE Crash(r) /\ pc[r] # "exec"
  <2>1. orphan' = orphan /\ lockOwner' = lockOwner /\ pc'[r] = "crashed"
    BY <1>1, <1>5 DEF Crash, Goto, Shape, TypeOK, RunnerTypeOK
  <2>2. StrayOf(r)' = StrayOf(r) /\ (RecordInFlight(r)' <=> RecordInFlight(r))
    BY <2>1 DEF StrayOf, RecordInFlight
  <2>3. CASE RecordInFlight(r)
    <3>1. InAttempt(r)' <=> InAttempt(r)
      BY <1>1, <2>2, <2>3 DEF InAttempt
    <3> QED
      BY <1>1, <2>1, <3>1, Carries
  <2>4. CASE ~RecordInFlight(r)
    <3>1. ~Holding(r)'
      BY <2>1, <2>2, <2>4 DEF Holding, InAttempt
    <3> QED
      BY <1>1, <2>2, <3>1, Abandons, Keeps
  <2> QED
    BY <2>3, <2>4
<1> QED
  BY <1>2, <1>3, <1>4, <1>5

FreshInv == \A r \in Runners : Fresh(r)

LEMMA RefineStep ==
    ASSUME ClockAdvances, LedgerInv, ReplyInv, FreshInv', [Next]_vars
    PROVE  [Ledger!LedgerNext]_(Ledger!vars)
<1>1. ASSUME NEW r \in Runners, StepOf(r) PROVE [Ledger!LedgerNext]_(Ledger!vars)
  <2>1. Fresh(r)'
    BY DEF FreshInv
  <2>2. CASE \/ Start(r) \/ Load(r) \/ Connect(r) \/ AcquireLock(r) \/ LockTimesOut(r)
             \/ LockFails(r) \/ InspectFails(r) \/ InspectApply(r) \/ InspectBaseline(r)
             \/ InspectInit(r) \/ InspectRead(r) \/ CreateInitial(r)
    BY <2>1, <2>2, RefineBefore
  <2>3. CASE EmitStarted(r)
    BY <2>3, RefineStarted
  <2>4. CASE ExecSucceeds(r)
    BY <2>4, RefineSucceeds
  <2>5. CASE ExecFails(r) \/ ExecLost(r)
    BY <2>5, RefineFails
  <2>6. CASE EmitOutcome(r)
    BY <2>1, <2>6, RefineOutcome
  <2>7. CASE Flush(r) \/ Capture(r) \/ Output(r) \/ Release(r)
    BY <2>1, <2>7, RefineAfter
  <2>8. CASE Crash(r) \/ SessionDies(r) \/ Reap(r)
    BY <2>8, RefineEnds
  <2>9. CASE Land(r)
    BY <2>9, RefineLand
  <2> QED
    BY <1>1, <2>2, <2>3, <2>4, <2>5, <2>6, <2>7, <2>8, <2>9 DEF StepOf, Proceed
<1>2. CASE Edit \/ UNCHANGED vars
  <2>1. UNCHANGED <<schema, managed, history, lockOwner, orphan, pc, job, plan, cursor, reply>>
    BY <1>2 DEF Edit, vars, dbVars, srvVars, runVars, jobVars
  <2>2. Attempt' = Attempt /\ Stray' = Stray
    BY <2>1 DEF Attempt, Stray, InAttempt, RecordInFlight, Version, ToDo, Statements
  <2> QED
    BY <2>1, <2>2 DEF Ledger!vars
<1> QED
  BY <1>1, <1>2, StepCases

\* Invocations implement the ledger: whatever the interleaving, the crashes, the
\* lost replies and the late statements, the database goes through the states of
\* one sequence of attempts, when the server's clock moves on.
THEOREM RefinesLedger ==
    ASSUME ClockAdvances
    PROVE  Spec => ImplementsLedger
<1>1. Init => Ledger!LedgerInit
  <2> SUFFICES ASSUME Init PROVE Ledger!LedgerInit
    OBVIOUS
  <2>1. \A r \in Runners : ~Holding(r) /\ orphan[r] = {}
    BY RunnersAssumption DEF Init, Holding
  <2>2. Attempt = {} /\ Stray = {}
    BY <2>1, AttemptIs DEF Stray
  <2> QED
    BY <2>2 DEF Init, Ledger!LedgerInit
<1>2. Init => ReplyInv
  BY DEF Init, ReplyInv
<1>3. LedgerInv /\ ReplyInv /\ [Next]_vars => ReplyInv'
  BY ReplyStep DEF LedgerInv
<1>4. LedgerInv /\ ReplyInv => FreshInv
  BY AlwaysFresh DEF FreshInv
<1>5. LedgerInv /\ ReplyInv /\ FreshInv' /\ [Next]_vars => [Ledger!LedgerNext]_(Ledger!vars)
  BY RefineStep
<1> QED
  BY <1>1, <1>2, <1>3, <1>4, <1>5, LedgerInvariant, PTL
     DEF Spec, ImplementsLedger, Ledger!LedgerSpec

=============================================================================
