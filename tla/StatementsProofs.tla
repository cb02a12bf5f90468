------------------------- MODULE StatementsProofs -------------------------
(***************************************************************************)
(* Theorems about Statements.  A worker moves by itself: what it holds, its *)
(* transaction, its diagnostics and the deliveries to its observer follow  *)
(* from its own place in the code (TxInv, HeldInv, HandsInv, DiagInv,      *)
(* DeliveryInv).  Workers meet in the pool (Disjoint, Ledger), in the      *)
(* sequence numbers of a scope and in the artifact (Accounted, Alternate). *)
(***************************************************************************)
EXTENDS Statements, FiniteSetTheorems, TLAPS

---------------------------------------------------------------------------
(* The inductive invariant.                                                *)

\* The end of a transaction is under way.
Ending(w) == kind[w] \in {"commit", "rollback"}
\* The worker is in a call, before the end of its transaction has begun.
Busy(w) == pc[w] # "idle"

\* The place of a worker fits its current statement; a transaction keeps room for
\* the statement that ends it.
PlaceInv(w) ==
    /\ count[w] <= MaxStatements[w]
    /\ Busy(w) => count[w] >= 1
    /\ pc[w] \in {"prepare", "rows", "collect", "release"} => kind[w] \in DML
    /\ pc[w] \in {"prepare", "execute"} => ~failed[w]
    /\ pc[w] \in {"body", "unwind"} => InTx(w) /\ ~Ending(w)
    /\ pc[w] \in {"body", "unwind"} /\ kind[w] = "begin" => ~failed[w]
    /\ pc[w] = "deferred" => InTx(w) /\ Ending(w)
    /\ Busy(w) /\ ~InTx(w) => kind[w] \in DML
    /\ Busy(w) /\ InTx(w) /\ ~Ending(w) => count[w] < MaxStatements[w]
    /\ Busy(w) => (seq[w] # 0 <=> setting[w].capture)

\* The transaction of a worker.
TxInv(w) ==
    /\ txc[w] # NoConn <=> tx[w] \in {"open", "closing"}
    /\ tx[w] = "open" => ~txDone[w] /\ InTx(w) /\ Busy(w)
    /\ tx[w] \in {"closing", "committed", "rolledback"} => txDone[w]
    /\ tx[w] = "none" /\ InTx(w) => ~txDone[w]
    /\ Busy(w) /\ InTx(w) /\ kind[w] = "begin" /\ (pc[w] = "execute" \/ failed[w])
          => tx[w] = "none"
    /\ Busy(w) /\ InTx(w) /\ ~Ending(w) => /\ tx[w] # "committed"
                                           /\ txDone[w] => cancelled[w]
    /\ pc[w] = "execute" /\ Ending(w) => tx[w] # "committed"
    /\ Busy(w) /\ kind[w] = "commit" => callback[w] = "nil"
    /\ tx[w] = "committed" => callback[w] = "nil" /\ InTx(w)
    /\ pc[w] \in {"record", "notify"} /\ kind[w] = "commit" /\ ~failed[w]
          => tx[w] = "committed"
    /\ pc[w] \in {"record", "notify", "deferred"} /\ kind[w] = "rollback" => tx[w] # "open"
    /\ pc[w] \in {"idle", "deferred"} /\ InTx(w) /\ answer[w] = "nil" => tx[w] = "committed"

\* What a worker holds of the pool besides its transaction.
HeldInv(w) ==
    /\ pin[w] # NoConn => ~InTx(w) /\ pc[w] \in {"execute", "rows", "collect", "release"}
    /\ rows[w] # NoConn => pc[w] = "rows"
    /\ pc[w] = "rows" /\ ~InTx(w) => rows[w] # NoConn

\* Rows read in a transaction or on a pinned session are on its connection; those of a
\* plain terminal, and its pin, are not on the one that is still rolled back.
HandsInv(w) ==
    /\ InTx(w) => rows[w] \in {txc[w], NoConn}
    /\ pin[w] # NoConn => rows[w] \in {pin[w], NoConn}
    /\ ~InTx(w) /\ txc[w] # NoConn => txc[w] \notin {pin[w], rows[w]}

\* The observations of a statement, by place.  A diagnostic session is prepared only
\* for a statement that asks for one; without it the request carries an error.
DiagInv(w) ==
    /\ collector[w] => pc[w] \in {"execute", "rows", "collect"} /\ kind[w] \in DML
    /\ pc[w] \in {"prepare", "execute", "rows", "collect"} => \A p \in Probes : ~probe[w][p].known
    /\ pc[w] = "prepare" \/ collector[w]
          => (probe[w]["ru"].on /\ probe[w]["warnings"].on => probe[w]["warnings"].failed)
    /\ pc[w] \in {"execute", "rows", "collect"} /\ ~collector[w]
          => \A p \in Probes : probe[w][p].on => probe[w][p].failed
    /\ pc[w] \in {"release", "record"}
          => \A p \in Probes : probe[w][p].on => Valid(probe[w][p])

\* A session prepared for a diagnostic describes the statement, if it is there at all.
SessionInv(w) ==
    /\ pc[w] \in {"rows", "collect"} /\ collector[w] /\ ~cancelled[w] /\ Session(w) # NoConn
          => last[Session(w)] = Me(w)
    /\ pc[w] \in {"release", "record", "notify"}
          => \A p \in Probes : probe[w][p].known => probe[w][p].of = Me(w)

\* No connection is in two hands.
Holds(w)  == {pin[w], rows[w], txc[w]} \ {NoConn}
Disjoint  == \A v, w \in Workers : v # w => Holds(v) \cap Holds(w) = {}

\* The ledger of the pool: what is in it is in no hand, and what is not in it is in
\* one, unless a Scanner may panic.
InPool(w) == Holds(w) \cap free = {}
Ledger ==
    /\ \A w \in Workers : InPool(w)
    /\ May("scan") \/ \A c \in Conns : c \in free \/ \E w \in Workers : c \in Holds(w)

\* An observer has seen the statements before the current one at most once, the
\* later ones not at all; unless a scanner panics it has seen every earlier one.
DeliveryInv(w) ==
    /\ \A n \in 1 .. MaxStatements[w] :
          /\ delivered[<<w, n>>] <= 1
          /\ n > count[w] => delivered[<<w, n>>] = 0
    /\ pc[w] \in InFlight \cup {"notify"} => delivered[Me(w)] = 0
    /\ ~May("scan") /\ pc[w] \in Returned /\ count[w] > 0 /\ setting[w].observer
          => delivered[Me(w)] = 1

\* Readable: the artifact holds valid records, torn at the end only.
FileInv ==
    /\ ~captureErr => \A j \in DOMAIN file : file[j].whole
    /\ \A j \in DOMAIN file : j < Len(file) => file[j].whole
    /\ \A j \in DOMAIN file : \A p \in Probes :
          file[j].probe[p].on => Valid(file[j].probe[p])

\* A sequence number has been given to a line or to a statement in flight.
Flying(w, s, q) == pc[w] \in InFlight /\ ScopeOf[w] = s /\ seq[w] = q
Written(j, s, q) == file[j].scope = s /\ file[j].seq = q

Accounted ==
    /\ \A j \in DOMAIN file : file[j].seq <= scopeSeq[file[j].scope]
    /\ \A w \in Workers : seq[w] <= scopeSeq[ScopeOf[w]]
    /\ \A s \in Scopes, q \in Nat \ {0} :
          /\ \A i, j \in DOMAIN file : Written(i, s, q) /\ Written(j, s, q) => i = j
          /\ \A v, w \in Workers : Flying(v, s, q) /\ Flying(w, s, q) => v = w
          /\ \A w \in Workers, j \in DOMAIN file : ~(Flying(w, s, q) /\ Written(j, s, q))
    /\ ~captureErr /\ ~May("scan") => 
          \A s \in Scopes : \A q \in 1 .. scopeSeq[s] :
              \/ \E j \in DOMAIN file : Written(j, s, q)
              \/ \E w \in Workers : Flying(w, s, q)

\* The transaction's BEGIN is in the artifact and its end is not yet.
Begun(w) ==
    /\ Busy(w) /\ InTx(w) /\ seq[w] # 0
    /\ \/ kind[w] = "begin" /\ ~failed[w] /\ pc[w] \in {"notify", "body", "unwind"}
       \/ kind[w] \in DML
       \/ Ending(w) /\ pc[w] \in {"execute", "record"}

\* Beginnings and ends alternate, and the last one is a BEGIN while its end is due.
Newest(w, i) == \A k \in Lifecycle(w) : k <= i
Alternate(w) ==
    /\ \A i \in Lifecycle(w) : file[i].kind = "begin" =>
          \/ \E j \in Lifecycle(w) : file[j].kind # "begin" /\ Follows(w, i, j)
          \/ Newest(w, i) /\ Begun(w)
    /\ \A j \in Lifecycle(w) : file[j].kind # "begin" =>
          \E i \in Lifecycle(w) : file[i].kind = "begin" /\ Follows(w, i, j)
    /\ Begun(w) => \E i \in Lifecycle(w) : file[i].kind = "begin" /\ Newest(w, i)

---------------------------------------------------------------------------
(* A step is one worker's; the others keep what is theirs.                 *)

Acts(w) == Start(w) \/ Proceed(w) \/ Cancel(w) \/ AwaitDone(w) \/ Closed(w)

Same(v) ==
    /\ pc'[v] = pc[v] /\ call'[v] = call[v] /\ setting'[v] = setting[v]
    /\ callback'[v] = callback[v] /\ answer'[v] = answer[v] /\ cancelled'[v] = cancelled[v]
    /\ count'[v] = count[v] /\ kind'[v] = kind[v] /\ seq'[v] = seq[v]
    /\ failed'[v] = failed[v] /\ probe'[v] = probe[v] /\ collector'[v] = collector[v]
    /\ pin'[v] = pin[v] /\ rows'[v] = rows[v]
    /\ txc'[v] = txc[v] /\ tx'[v] = tx[v] /\ txDone'[v] = txDone[v]

LEMMA OthersStay ==
    ASSUME TypeOK, NEW w \in Workers, Acts(w), NEW v \in Workers \ {w}
    PROVE  Same(v)
<1>1. CASE StartTerminal(w)
  BY <1>1 DEF StartTerminal, Observe, Goto, TypeOK, Same, vars, sinkVars
<1>2. CASE StartTransaction(w)
  BY <1>2 DEF StartTransaction, Observe, Goto, TypeOK, Same, vars, sinkVars
<1>3. CASE Prepare(w)
  BY <1>3 DEF Prepare, Goto, TypeOK, Same, vars, callVars, stmtVars, diagVars, txVars, sinkVars
<1>4. CASE ExecuteSucceeds(w)
  BY <1>4 DEF ExecuteSucceeds, Goto, Ran, TypeOK, Same, vars, callVars, stmtVars, diagVars,
     txVars, sinkVars
<1>5. CASE ExecuteFails(w)
  BY <1>5 DEF ExecuteFails, Goto, Ran, TypeOK, Same, vars, callVars, stmtVars, diagVars, txVars,
     sinkVars
<1>6. CASE CloseRows(w)
  BY <1>6 DEF CloseRows, Goto, TypeOK, Same, vars, callVars, stmtVars, diagVars, txVars,
     sinkVars
<1>7. CASE ScanPanics(w)
  BY <1>7 DEF ScanPanics, Goto, TypeOK, Same, vars, stmtVars, txVars, sinkVars
<1>8. CASE Collect(w)
  BY <1>8 DEF Collect, Goto, ProbeSession, TypeOK, Same, vars, callVars, stmtVars, txVars,
     sinkVars
<1>9. CASE Release(w)
  BY <1>9 DEF Release, Goto, TypeOK, Same, vars, callVars, stmtVars, txVars, sinkVars
<1>10. CASE Capture(w)
  BY <1>10 DEF Capture, Goto, TypeOK, Same, vars, callVars, stmtVars, diagVars, txVars
<1>11. CASE Notify(w)
  BY <1>11 DEF Notify, Goto, Continue, TypeOK, Same, vars, stmtVars, txVars
<1>12. CASE Begin(w)
  BY <1>12 DEF Begin, Goto, TypeOK, Same, vars, callVars, stmtVars, diagVars, sinkVars
<1>13. CASE CallbackStatement(w)
  BY <1>13 DEF CallbackStatement, Observe, Goto, TypeOK, Same, vars, callVars, txVars, sinkVars
<1>14. CASE CallbackReturns(w)
  BY <1>14 DEF CallbackReturns, Observe, Goto, TypeOK, Same, vars, txVars, sinkVars
<1>15. CASE Unwind(w)
  BY <1>15 DEF Unwind, Observe, Goto, TypeOK, Same, vars, txVars, sinkVars
<1>16. CASE Commit(w)
  BY <1>16 DEF Commit, Goto, End, TypeOK, Same, vars, callVars, stmtVars, diagVars, txVars,
     sinkVars
<1>17. CASE Rollback(w)
  BY <1>17 DEF Rollback, Goto, End, TypeOK, Same, vars, callVars, stmtVars, diagVars, txVars,
     sinkVars
<1>18. CASE Deferred(w)
  BY <1>18 DEF Deferred, Goto, End, TypeOK, Same, vars, callVars, stmtVars, diagVars, txVars,
     sinkVars
<1>19. CASE Cancel(w)
  BY <1>19 DEF Cancel, TypeOK, Same, vars, callVars, stmtVars, diagVars, txVars, sinkVars
<1>20. CASE AwaitDone(w)
  BY <1>20 DEF AwaitDone, TypeOK, Same, vars, callVars, stmtVars, diagVars, sinkVars
<1>21. CASE Closed(w)
  BY <1>21 DEF Closed, TypeOK, Same, vars, callVars, stmtVars, diagVars, sinkVars
<1> QED
  BY <1>1, <1>2, <1>3, <1>4, <1>5, <1>6, <1>7, <1>8, <1>9, <1>10, <1>11, <1>12, <1>13, <1>14,
     <1>15, <1>16, <1>17, <1>18, <1>19, <1>20, <1>21 DEF Acts, Start, Proceed

---------------------------------------------------------------------------
(* Observations and names.                                                 *)

LEMMA Names ==
    ASSUME NEW w \in Workers, NEW n
    PROVE  <<w, n>> \in Ids <=> n \in 1 .. MaxStatements[w]
<1>1. <<w, n>> \in Ids <=> \E v \in Workers : <<w, n>> \in {v} \X (1 .. MaxStatements[v])
  BY Zenon DEF Ids
<1>2. \A v \in Workers : <<w, n>> \in {v} \X (1 .. MaxStatements[v])
                          <=> w = v /\ n \in 1 .. MaxStatements[v]
  OBVIOUS
<1> QED
  BY <1>1, <1>2

LEMMA NotAskedIs == NotAsked \in Observation /\ ~NotAsked.on /\ ~NotAsked.known
  BY DEF NotAsked, Observation, NoId

LEMMA RequestedIs ==
    ASSUME NEW s, NEW k
    PROVE  /\ Requested(s, k) \in [Probes -> Observation]
           /\ \A p \in Probes : ~Requested(s, k)[p].known
           /\ Requested(s, k)["ru"].on /\ Requested(s, k)["warnings"].on
                 => Requested(s, k)["warnings"].failed
           /\ k \notin DML => \A p \in Probes : ~Requested(s, k)[p].on
<1> DEFINE bad(p) == p = "warnings" /\ Collects(s, "ru")
<1>0. \A b \in BOOLEAN : /\ [Asked EXCEPT !.failed = b] \in Observation
                         /\ ~[Asked EXCEPT !.failed = b].known
                         /\ [Asked EXCEPT !.failed = b].failed = b
  <2>1. \A o \in Observation, b \in BOOLEAN :
            /\ [o EXCEPT !.failed = b] \in Observation /\ [o EXCEPT !.failed = b].known = o.known
            /\ [o EXCEPT !.failed = b].failed = b
            /\ [o EXCEPT !.on = b] \in Observation /\ [o EXCEPT !.on = b].known = o.known
    BY DEF Observation
  <2>2. Asked \in Observation /\ ~Asked.known
    BY <2>1, NotAskedIs DEF Asked
  <2> QED
    BY <2>1, <2>2
<1>b. \A p : bad(p) \in BOOLEAN
  OBVIOUS
<1> HIDE DEF bad
<1>1. \A p \in Probes : /\ [Asked EXCEPT !.failed = bad(p)] \in Observation
                        /\ ~[Asked EXCEPT !.failed = bad(p)].known
                        /\ [Asked EXCEPT !.failed = bad(p)].failed = bad(p)
  BY <1>0, <1>b
<1>2. \A p \in Probes : Requested(s, k)[p] =
          IF k \in DML /\ Collects(s, p) THEN [Asked EXCEPT !.failed = bad(p)] ELSE NotAsked
  BY DEF Requested, bad
<1>3. "ru" \in Probes /\ "warnings" \in Probes
  BY DEF Probes
<1>4. Requested(s, k) \in [Probes -> Observation]
  <2>1. \A p \in Probes :
          (IF k \in DML /\ Collects(s, p) THEN [Asked EXCEPT !.failed = bad(p)] ELSE NotAsked)
             \in Observation
    BY <1>1, NotAskedIs
  <2> QED
    BY <2>1 DEF Requested, bad
<1>5. \A p \in Probes : ~Requested(s, k)[p].known
  BY <1>1, <1>2, NotAskedIs
<1>6. Requested(s, k)["ru"].on => k \in DML /\ Collects(s, "ru")
  BY <1>2, <1>3, NotAskedIs
<1>7. ASSUME Requested(s, k)["ru"].on, Requested(s, k)["warnings"].on
      PROVE  Requested(s, k)["warnings"].failed
  <2>1. k \in DML /\ Collects(s, "warnings")
    BY <1>2, <1>3, <1>7, NotAskedIs
  <2>2. Requested(s, k)["warnings"] = [Asked EXCEPT !.failed = bad("warnings")]
    BY <1>2, <1>3, <2>1
  <2> QED
    BY <1>1, <1>3, <1>6, <1>7, <2>2 DEF bad
<1> QED
  BY <1>2, <1>4, <1>5, <1>7, NotAskedIs

LEMMA ErrorIs ==
    ASSUME NEW o \in Observation
    PROVE  LET e == [o EXCEPT !.failed = TRUE]
           IN  /\ e \in Observation /\ e.on = o.on /\ e.known = o.known /\ e.aux = o.aux
               /\ e.of = o.of /\ e.failed
  BY DEF Observation

\* addDiagnosticError marks an observation that was asked for.
LEMMA WithErrorIs ==
    ASSUME NEW pr \in [Probes -> Observation]
    PROVE  /\ WithError(pr) \in [Probes -> Observation]
           /\ \A p \in Probes : /\ WithError(pr)[p].on = pr[p].on
                                /\ WithError(pr)[p].known = pr[p].known
                                /\ WithError(pr)[p].aux = pr[p].aux
                                /\ WithError(pr)[p].of = pr[p].of
                                /\ pr[p].failed => WithError(pr)[p].failed
           /\ IF pr["ru"].on THEN WithError(pr)["ru"].failed
                             ELSE WithError(pr)["warnings"].failed
<1>1. PICK q \in Probes : q = IF pr["ru"].on THEN "ru" ELSE "warnings"
  BY DEF Probes
<1>2. WithError(pr) = [pr EXCEPT ![q].failed = TRUE]
  BY <1>1 DEF WithError
<1>3. \A p \in Probes : pr[p] \in Observation
  OBVIOUS
<1>4. \A o \in Observation :
          LET e == [o EXCEPT !.failed = TRUE]
          IN  /\ e \in Observation /\ e.on = o.on /\ e.known = o.known /\ e.aux = o.aux
              /\ e.of = o.of /\ e.failed
  BY ErrorIs
<1>5. [pr EXCEPT ![q].failed = TRUE] = [pr EXCEPT ![q] = [pr[q] EXCEPT !.failed = TRUE]]
  OBVIOUS
<1>6. \A p \in Probes :
          WithError(pr)[p] = IF p = q THEN [pr[q] EXCEPT !.failed = TRUE] ELSE pr[p]
  BY <1>2, <1>5
<1>7. WithError(pr) \in [Probes -> Observation]
  BY <1>2, <1>3, <1>4, <1>5
<1>8. "ru" \in Probes /\ "warnings" \in Probes
  BY DEF Probes
<1>9. \A p \in Probes : /\ WithError(pr)[p].on = pr[p].on
                        /\ WithError(pr)[p].known = pr[p].known
                        /\ WithError(pr)[p].aux = pr[p].aux
                        /\ WithError(pr)[p].of = pr[p].of
                        /\ pr[p].failed => WithError(pr)[p].failed
  <2> TAKE p \in Probes
  <2>1. CASE p = q
    <3>1. WithError(pr)[p] = [pr[p] EXCEPT !.failed = TRUE]
      BY <1>6, <2>1
    <3> QED
      BY <1>3, <1>4, <3>1
  <2>2. CASE p # q
    BY <1>6, <2>2
  <2> QED
    BY <2>1, <2>2
<1>10. IF pr["ru"].on THEN WithError(pr)["ru"].failed ELSE WithError(pr)["warnings"].failed
  <2>1. WithError(pr)[q] = [pr[q] EXCEPT !.failed = TRUE]
    BY <1>6
  <2>2. WithError(pr)[q].failed
    BY <1>3, <1>4, <2>1
  <2> QED
    BY <1>1, <2>2
<1> QED
  BY <1>7, <1>9, <1>10

---------------------------------------------------------------------------
(* Types.                                                                  *)

LEMMA Observed ==
    ASSUME TypeOK, NEW w \in Workers, NEW k \in DML \cup Control, NEW s \in Setting,
           Observe(w, k, s)
    PROVE  /\ count' \in [Workers -> Nat] /\ count'[w] = count[w] + 1
           /\ kind' \in [Workers -> DML \cup Control] /\ kind'[w] = k
           /\ failed' \in [Workers -> BOOLEAN] /\ ~failed'[w]
           /\ probe' \in [Workers -> [Probes -> Observation]]
           /\ probe'[w] = Requested(s, k)
           /\ seq' \in [Workers -> Nat] /\ scopeSeq' \in [Scopes -> Nat]
           /\ seq'[w] # 0 <=> s.capture
<1>1. Requested(s, k) \in [Probes -> Observation]
  BY RequestedIs
<1>2. ScopeOf[w] \in Scopes /\ scopeSeq \in [Scopes -> Nat] /\ seq \in [Workers -> Nat]
  BY ScopesAssumption DEF TypeOK
<1>3. seq' \in [Workers -> Nat] /\ scopeSeq' \in [Scopes -> Nat] /\ (seq'[w] # 0 <=> s.capture)
  BY <1>2 DEF Observe
<1>4. probe' = [probe EXCEPT ![w] = Requested(s, k)] /\ probe \in [Workers -> [Probes -> Observation]]
  BY DEF Observe, TypeOK
<1> QED
  BY <1>1, <1>3, <1>4 DEF Observe, TypeOK

LEMMA NameIs ==
    ASSUME TypeOK, NEW w \in Workers, PlaceInv(w), Busy(w)
    PROVE  Me(w) \in Ids
<1>1. count[w] \in 1 .. MaxStatements[w]
  BY BoundsAssumption DEF TypeOK, PlaceInv
<1> QED
  BY <1>1, Names DEF Me

LEMMA RecordIs ==
    ASSUME TypeOK, NEW w \in Workers, Me(w) \in Ids, seq[w] # 0, NEW b \in BOOLEAN
    PROVE  RecordOf(w, b) \in Record
<1>1. /\ kind[w] \in DML \cup Control /\ ScopeOf[w] \in Scopes /\ seq[w] \in Nat \ {0}
      /\ failed[w] \in BOOLEAN /\ probe[w] \in [Probes -> Observation]
  BY ScopesAssumption DEF TypeOK
<1> QED
  BY <1>1 DEF RecordOf, Record

\* An observation whose probe failed, and one that was answered.
LEMMA AttemptIs ==
    ASSUME NEW o \in Observation, NEW i \in Ids \cup {NoId}
    PROVE  /\ [o EXCEPT !.aux = 1, !.failed = TRUE] \in Observation
           /\ [o EXCEPT !.aux = 1, !.failed = TRUE].on = o.on
           /\ [o EXCEPT !.aux = 1, !.failed = TRUE].known = o.known
           /\ Valid([o EXCEPT !.aux = 1, !.failed = TRUE])
           /\ [o EXCEPT !.aux = 1, !.known = TRUE, !.of = i, !.failed = FALSE] \in Observation
           /\ [o EXCEPT !.aux = 1, !.known = TRUE, !.of = i, !.failed = FALSE].on = o.on
           /\ [o EXCEPT !.aux = 1, !.known = TRUE, !.of = i, !.failed = FALSE].of = i
           /\ Valid([o EXCEPT !.aux = 1, !.known = TRUE, !.of = i, !.failed = FALSE])
<1> DEFINE u == [o EXCEPT !.aux = 1, !.failed = TRUE]
           v == [o EXCEPT !.aux = 1, !.known = TRUE, !.of = i, !.failed = FALSE]
<1>a. \A x \in Observation : LET y == [x EXCEPT !.aux = 1]
                             IN  y \in Observation /\ y.on = x.on /\ y.known = x.known /\ y.aux = 1
  BY DEF Observation
<1>b. \A x \in Observation, b \in BOOLEAN :
          LET y == [x EXCEPT !.failed = b]
          IN  /\ y \in Observation /\ y.on = x.on /\ y.known = x.known /\ y.aux = x.aux
              /\ y.of = x.of /\ y.failed = b
  BY DEF Observation
<1>c. \A x \in Observation : LET y == [x EXCEPT !.known = TRUE]
                             IN  y \in Observation /\ y.on = x.on /\ y.known /\ y.aux = x.aux
  BY DEF Observation
<1>d. \A x \in Observation : LET y == [x EXCEPT !.of = i]
                             IN  /\ y \in Observation /\ y.on = x.on /\ y.known = x.known
                                 /\ y.aux = x.aux /\ y.of = i
  BY DEF Observation
<1>e. PICK x \in Observation : x = [o EXCEPT !.aux = 1]
  BY <1>a
<1>f. PICK y \in Observation : y = [x EXCEPT !.known = TRUE]
  BY <1>c
<1>g. PICK z \in Observation : z = [y EXCEPT !.of = i]
  BY <1>d
<1>1. u \in Observation /\ u.on = o.on /\ u.known = o.known /\ u.aux = 1 /\ u.failed
  <2>1. u = [x EXCEPT !.failed = TRUE]
    BY <1>e
  <2> QED
    <3>1. x.on = o.on /\ x.known = o.known /\ x.aux = 1
      BY <1>a, <1>e
    <3>2. TRUE \in BOOLEAN
      OBVIOUS
    <3>3. LET w == [x EXCEPT !.failed = TRUE]
          IN  /\ w \in Observation /\ w.on = x.on /\ w.known = x.known /\ w.aux = x.aux
              /\ w.failed
      BY <1>b, <3>2
    <3> HIDE DEF u
    <3> QED
      BY <2>1, <3>1, <3>3
<1>2. v \in Observation /\ v.on = o.on /\ v.of = i /\ v.aux = 1 /\ v.known
  <2>a. [o EXCEPT !.aux = 1, !.known = TRUE] = y
    BY <1>e, <1>f
  <2>b. [o EXCEPT !.aux = 1, !.known = TRUE, !.of = i] = z
    BY <2>a, <1>g
  <2>1. v = [z EXCEPT !.failed = FALSE]
    BY <2>b
  <2>2. z.on = o.on /\ z.of = i /\ z.aux = 1 /\ z.known
    BY <1>a, <1>c, <1>d, <1>e, <1>f, <1>g
  <2>3. LET q == [z EXCEPT !.failed = FALSE]
        IN  /\ q \in Observation /\ q.on = z.on /\ q.known = z.known /\ q.aux = z.aux
            /\ q.of = z.of
    BY <1>b
  <2> HIDE DEF v
  <2> QED
    BY <2>1, <2>2, <2>3
<1> HIDE DEF u, v
<1>3. Valid(u) /\ Valid(v)
  BY <1>1, <1>2 DEF Valid
<1> QED
  BY <1>1, <1>2, <1>3 DEF u, v

\* A probe concerns one observation of the worker; a known answer is what the
\* session's diagnostics described.
LEMMA ProbedIs ==
    ASSUME TypeOK, NEW w \in Workers, NEW p \in Probes, ProbeSession(w, p)
    PROVE  /\ probe' \in [Workers -> [Probes -> Observation]]
           /\ last' \in [Conns -> Ids \cup {NoId}]
           /\ \A c \in Conns \ {Session(w)} : last'[c] = last[c]
           /\ \A q \in Probes \ {p} : probe'[w][q] = probe[w][q]
           /\ probe'[w][p].on = probe[w][p].on
           /\ Valid(probe'[w][p])
           /\ probe'[w][p].known => \/ probe[w][p].known
                                    \/ /\ ~cancelled[w] /\ Session(w) \in Conns
                                       /\ probe'[w][p].of = last[Session(w)]
<1> DEFINE bad(o) == [o EXCEPT !.aux = 1, !.failed = TRUE]
           good(o, i) == [o EXCEPT !.aux = 1, !.known = TRUE, !.of = i, !.failed = FALSE]
<1>1. probe \in [Workers -> [Probes -> Observation]] /\ last \in [Conns -> Ids \cup {NoId}]
  BY DEF TypeOK
<1>2. PICK o \in Observation : o = probe[w][p]
  BY <1>1
<1>3. probe[w] \in [Probes -> Observation]
  BY <1>1
<1>4. [probe[w] EXCEPT ![p].aux = 1, ![p].failed = TRUE] = [probe[w] EXCEPT ![p] = bad(o)]
  BY <1>2, <1>3
<1>5. \A i : [probe[w] EXCEPT ![p].aux = 1, ![p].known = TRUE, ![p].of = i, ![p].failed = FALSE]
           = [probe[w] EXCEPT ![p] = good(o, i)]
  BY <1>2, <1>3
<1>6. [probe EXCEPT ![w][p].aux = 1, ![w][p].failed = TRUE]
      = [probe EXCEPT ![w] = [probe[w] EXCEPT ![p] = bad(o)]]
  BY <1>1, <1>2, <1>3
<1>7. bad(o) \in Observation /\ bad(o).on = o.on /\ bad(o).known = o.known /\ Valid(bad(o))
  BY AttemptIs
<1>8. \A i \in Ids \cup {NoId} :
          /\ good(o, i) \in Observation /\ good(o, i).on = o.on /\ good(o, i).of = i
          /\ Valid(good(o, i))
  BY AttemptIs
<1> HIDE DEF bad, good
<1>9. CASE ~cancelled[w] /\ Session(w) # NoConn /\ probe' = [probe EXCEPT ![w] = Answered(w, p, Session(w))]
           /\ last' = [last EXCEPT ![Session(w)] = NoId]
  <2>1. PICK c \in Conns : c = Session(w)
    BY <1>9 DEF Session, TypeOK, MaybeConn
  <2>2. PICK i \in Ids \cup {NoId} : i = last[c]
    BY <1>1
  <2>3. PICK e \in Observation :
           /\ probe' = [probe EXCEPT ![w] = [probe[w] EXCEPT ![p] = e]]
           /\ e = bad(o) \/ e = good(o, i)
    <3>1. CASE p = "ru" /\ last[c] = NoId
      <4>1. Answered(w, p, c) = [probe[w] EXCEPT ![p] = bad(o)]
        BY <1>4, <3>1 DEF Answered
      <4> QED
        BY <1>7, <1>9, <2>1, <4>1
    <3>2. CASE ~(p = "ru" /\ last[c] = NoId)
      <4>1. Answered(w, p, c) = [probe[w] EXCEPT ![p] = good(o, i)]
        BY <1>5, <2>2, <3>2 DEF Answered
      <4> QED
        BY <1>8, <1>9, <2>1, <4>1
    <3> QED
      BY <3>1, <3>2
  <2>4. probe' \in [Workers -> [Probes -> Observation]] /\ probe'[w][p] = e
        /\ \A q \in Probes \ {p} : probe'[w][q] = probe[w][q]
    BY <1>1, <1>3, <2>3
  <2>5. last' \in [Conns -> Ids \cup {NoId}] /\ \A d \in Conns \ {c} : last'[d] = last[d]
    BY <1>1, <1>9, <2>1
  <2> QED
    BY <1>2, <1>7, <1>8, <1>9, <2>1, <2>2, <2>3, <2>4, <2>5
<1>10. CASE probe' = [probe EXCEPT ![w][p].aux = 1, ![w][p].failed = TRUE] /\ UNCHANGED last
  <2>1. probe' \in [Workers -> [Probes -> Observation]] /\ probe'[w][p] = bad(o)
        /\ \A q \in Probes \ {p} : probe'[w][q] = probe[w][q]
    BY <1>1, <1>3, <1>6, <1>7, <1>10
  <2> QED
    BY <1>1, <1>2, <1>7, <1>10, <2>1
<1> QED
  BY <1>9, <1>10 DEF ProbeSession


LEMMA FailedIs ==
    ASSUME TypeOK, NEW w \in Workers
    PROVE  LET q == [probe EXCEPT ![w]["warnings"].failed = TRUE]
           IN  /\ q \in [Workers -> [Probes -> Observation]]
               /\ q[w]["ru"] = probe[w]["ru"]
               /\ q[w]["warnings"].on = probe[w]["warnings"].on
               /\ q[w]["warnings"].known = probe[w]["warnings"].known
               /\ q[w]["warnings"].failed
<1>1. "warnings" \in Probes /\ probe \in [Workers -> [Probes -> Observation]]
  BY DEF TypeOK, Probes
<1>2. PICK o \in Observation : o = probe[w]["warnings"]
  BY <1>1
<1>3. [probe EXCEPT ![w]["warnings"].failed = TRUE]
      = [probe EXCEPT ![w] = [probe[w] EXCEPT !["warnings"] = [o EXCEPT !.failed = TRUE]]]
  BY <1>1, <1>2
<1>4. PICK e \in Observation : /\ e = [o EXCEPT !.failed = TRUE]
                               /\ e.on = o.on /\ e.known = o.known /\ e.failed
  BY ErrorIs
<1>5. "ru" \in Probes
  BY DEF Probes
<1> QED
  BY <1>1, <1>2, <1>3, <1>4, <1>5

LEMMA TypeStep ==
    ASSUME TypeOK, NEW w \in Workers, PlaceInv(w), HeldInv(w), Acts(w)
    PROVE  TypeOK'
<1>1. CASE StartTerminal(w)
  <2>1. PICK k \in DML \cup Control, s \in Setting :
             Observe(w, k, s) /\ setting' \in [Workers -> Setting]
    BY <1>1, SettingsAssumption DEF StartTerminal, TypeOK, DML, Control
  <2>2. /\ count' \in [Workers -> Nat] /\ kind' \in [Workers -> DML \cup Control]
        /\ failed' \in [Workers -> BOOLEAN] /\ probe' \in [Workers -> [Probes -> Observation]]
        /\ seq' \in [Workers -> Nat] /\ scopeSeq' \in [Scopes -> Nat]
    BY <2>1, Observed
  <2> QED
    BY <1>1, <2>1, <2>2 DEF StartTerminal, Goto, PCs, TypeOK, sinkVars
<1>2. CASE StartTransaction(w)
  <2>1. PICK k \in DML \cup Control, s \in Setting :
             Observe(w, k, s) /\ setting' \in [Workers -> Setting]
    BY <1>2, SettingsAssumption DEF StartTransaction, TypeOK, DML, Control
  <2>2. /\ count' \in [Workers -> Nat] /\ kind' \in [Workers -> DML \cup Control]
        /\ failed' \in [Workers -> BOOLEAN] /\ probe' \in [Workers -> [Probes -> Observation]]
        /\ seq' \in [Workers -> Nat] /\ scopeSeq' \in [Scopes -> Nat]
    BY <2>1, Observed
  <2> QED
    BY <1>2, <2>1, <2>2 DEF StartTransaction, Goto, PCs, TypeOK, sinkVars
<1>3. CASE Prepare(w)
  <2>1. probe' \in [Workers -> [Probes -> Observation]]
    <3>1. /\ probe \in [Workers -> [Probes -> Observation]]
          /\ WithError(probe[w]) \in [Probes -> Observation]
      BY WithErrorIs DEF TypeOK
    <3> QED
      BY <1>3, <3>1 DEF Prepare, callVars, stmtVars, diagVars, txVars, sinkVars
  <2>2. pin' \in [Workers -> MaybeConn] /\ collector' \in [Workers -> BOOLEAN]
    BY <1>3 DEF Prepare, TypeOK, MaybeConn, callVars, stmtVars, diagVars, txVars, sinkVars
  <2>3. free' \subseteq Conns
    BY <1>3 DEF Prepare, TypeOK
  <2> QED
    BY <1>3, <2>1, <2>2, <2>3 DEF Prepare, Goto, PCs, TypeOK, callVars, stmtVars, diagVars, txVars,
       sinkVars
<1>4. CASE ExecuteSucceeds(w)
  <2>1. PICK c \in Conns : last' = [last EXCEPT ![c] = Me(w)]
          /\ (rows' = [rows EXCEPT ![w] = c] \/ rows' = rows)
          /\ free' \subseteq Conns
    BY <1>4 DEF ExecuteSucceeds, Ran, Targets, TypeOK, MaybeConn
  <2>2. rows' \in [Workers -> MaybeConn] /\ last' \in [Conns -> Ids \cup {NoId}]
    BY <1>4, <2>1, NameIs DEF ExecuteSucceeds, Busy, TypeOK, MaybeConn
  <2> QED
    BY <1>4, <2>1, <2>2 DEF ExecuteSucceeds, Goto, PCs, TypeOK, callVars, stmtVars, diagVars, txVars,
       sinkVars
<1>5. CASE ExecuteFails(w)
  <2>1. last' = last \/ \E c \in Conns : last' = [last EXCEPT ![c] = Me(w)]
    BY <1>5 DEF ExecuteFails, Ran, Targets, TypeOK, MaybeConn
  <2>2. last' \in [Conns -> Ids \cup {NoId}]
    BY <1>5, <2>1, NameIs DEF ExecuteFails, Busy, TypeOK
  <2> QED
    BY <1>5, <2>2 DEF ExecuteFails, Goto, PCs, TypeOK, callVars, stmtVars, diagVars, txVars,
       sinkVars
<1>6. CASE CloseRows(w)
  BY <1>6 DEF CloseRows, PutBack, Goto, MaybeConn, PCs, TypeOK, callVars, stmtVars, diagVars,
     txVars, sinkVars
<1>7. CASE ScanPanics(w)
  <2>2. free' \subseteq Conns
    BY <1>7 DEF ScanPanics, PutBack, TypeOK, MaybeConn
  <2> QED
    BY <1>7, <2>2 DEF ScanPanics, Goto, PCs, TypeOK, MaybeConn, stmtVars, txVars, sinkVars
<1>8. CASE Collect(w)
  <2>1. \/ UNCHANGED <<probe, last>>
        \/ \E p \in Probes : ProbeSession(w, p)
        \/ probe' = [probe EXCEPT ![w]["warnings"].failed = TRUE] /\ UNCHANGED last
    BY <1>8 DEF Collect, Probes
  <2>2. probe' \in [Workers -> [Probes -> Observation]] /\ last' \in [Conns -> Ids \cup {NoId}]
    <3>1. CASE UNCHANGED <<probe, last>>
      BY <3>1 DEF TypeOK
    <3>2. CASE \E p \in Probes : ProbeSession(w, p)
      BY <3>2, ProbedIs
    <3>3. CASE probe' = [probe EXCEPT ![w]["warnings"].failed = TRUE] /\ UNCHANGED last
      BY <3>3, FailedIs DEF TypeOK
    <3> QED
      BY <2>1, <3>1, <3>2, <3>3
  <2> QED
    BY <1>8, <2>2 DEF Collect, Goto, PCs, TypeOK, callVars, stmtVars, txVars, sinkVars
<1>9. CASE Release(w)
  <2>1. probe' \in [Workers -> [Probes -> Observation]]
    <3>1. /\ probe \in [Workers -> [Probes -> Observation]]
          /\ WithError(probe[w]) \in [Probes -> Observation]
      BY WithErrorIs DEF TypeOK
    <3> QED
      BY <1>9, <3>1 DEF Release, callVars, stmtVars, txVars, sinkVars
  <2> QED
    BY <1>9, <2>1 DEF Release, PutBack, Goto, PCs, TypeOK, MaybeConn, callVars, stmtVars, txVars,
       sinkVars
<1>10. CASE Capture(w)
  <2>1. file' \in Seq(Record)
    <3>1. CASE file' = file
      BY <3>1 DEF TypeOK
    <3>2. CASE \E b \in BOOLEAN : file' = Append(file, RecordOf(w, b)) /\ seq[w] # 0
      <4>1. Me(w) \in Ids
        BY <1>10, NameIs DEF Capture, Busy
      <4> QED
        BY <3>2, <4>1, RecordIs DEF TypeOK
    <3> QED
      BY <1>10, <3>1, <3>2 DEF Capture
  <2>2. captureErr' \in BOOLEAN
    BY <1>10 DEF Capture, TypeOK
  <2> QED
    BY <1>10, <2>1, <2>2 DEF Capture, Goto, PCs, TypeOK, callVars, stmtVars, diagVars, txVars
<1>11. CASE Notify(w)
  <2>1. probe' \in [Workers -> [Probes -> Observation]]
    <3>1. [p \in Probes |-> NotAsked] \in [Probes -> Observation]
      BY NotAskedIs
    <3> QED
      BY <1>11, <3>1 DEF Notify, TypeOK
  <2>2. delivered' \in [Ids -> Nat]
    <3>1. delivered' = delivered \/ delivered' = [delivered EXCEPT ![Me(w)] = delivered[Me(w)] + 1]
      BY <1>11 DEF Notify
    <3> QED
      BY <1>11, <3>1, NameIs DEF Notify, Busy, TypeOK
  <2>3. PICK b \in BOOLEAN : Continue(w, b)
    BY <1>11 DEF Notify
  <2>4. Outcome(w, b) \in {"none", "nil", "error", "panic"}
    BY DEF Outcome
  <2>5. answer' \in [Workers -> {"none", "nil", "error", "panic"}]
    BY <2>3, <2>4 DEF Continue, TypeOK
  <2>6. pc' \in [Workers -> PCs]
    BY <2>3 DEF Continue, Goto, PCs, TypeOK
  <2> QED
    BY <1>11, <2>1, <2>2, <2>5, <2>6 DEF Notify, TypeOK, stmtVars, txVars
<1>12. CASE Begin(w)
  <2>1. txc' \in [Workers -> MaybeConn]
    BY <1>12 DEF Begin, TypeOK, MaybeConn
  <2>3. tx' \in [Workers -> {"none", "open", "closing", "committed", "rolledback"}]
    BY <1>12 DEF Begin, TypeOK
  <2>2. failed' \in [Workers -> BOOLEAN]
    BY <1>12 DEF Begin, TypeOK
  <2> QED
    BY <1>12, <2>1, <2>2, <2>3 DEF Begin, Goto, PCs, TypeOK, callVars, stmtVars, diagVars,
       sinkVars
<1>13. CASE CallbackStatement(w)
  <2>1. PICK k \in DML \cup Control, s \in Setting :
             Observe(w, k, s) /\ setting' \in [Workers -> Setting]
    BY <1>13, SettingsAssumption DEF CallbackStatement, TypeOK, DML, Control, callVars
  <2>2. /\ count' \in [Workers -> Nat] /\ kind' \in [Workers -> DML \cup Control]
        /\ failed' \in [Workers -> BOOLEAN] /\ probe' \in [Workers -> [Probes -> Observation]]
        /\ seq' \in [Workers -> Nat] /\ scopeSeq' \in [Scopes -> Nat]
    BY <2>1, Observed
  <2> QED
    BY <1>13, <2>1, <2>2 DEF CallbackStatement, Goto, PCs, TypeOK, callVars, txVars, sinkVars
<1>14. CASE CallbackReturns(w)
  <2>1. PICK k \in DML \cup Control, s \in Setting :
             Observe(w, k, s) /\ setting' \in [Workers -> Setting]
    BY <1>14, SettingsAssumption DEF CallbackReturns, TypeOK, DML, Control
  <2>2. /\ count' \in [Workers -> Nat] /\ kind' \in [Workers -> DML \cup Control]
        /\ failed' \in [Workers -> BOOLEAN] /\ probe' \in [Workers -> [Probes -> Observation]]
        /\ seq' \in [Workers -> Nat] /\ scopeSeq' \in [Scopes -> Nat]
    BY <2>1, Observed
  <2>3. callback' \in [Workers -> {"none", "nil", "error", "panic"}] /\ pc' \in [Workers -> PCs]
    BY <1>14 DEF CallbackReturns, Goto, PCs, TypeOK
  <2> QED
    BY <1>14, <2>1, <2>2, <2>3 DEF CallbackReturns, Goto, PCs, TypeOK, txVars, sinkVars
<1>15. CASE Unwind(w)
  <2>1. PICK k \in DML \cup Control, s \in Setting :
             Observe(w, k, s) /\ setting' \in [Workers -> Setting]
    BY <1>15, SettingsAssumption DEF Unwind, TypeOK, DML, Control
  <2>2. /\ count' \in [Workers -> Nat] /\ kind' \in [Workers -> DML \cup Control]
        /\ failed' \in [Workers -> BOOLEAN] /\ probe' \in [Workers -> [Probes -> Observation]]
        /\ seq' \in [Workers -> Nat] /\ scopeSeq' \in [Scopes -> Nat]
    BY <2>1, Observed
  <2> QED
    BY <1>15, <2>1, <2>2 DEF Unwind, Goto, PCs, TypeOK, txVars, sinkVars
<1>16. CASE Commit(w)
  <2>1. free' \subseteq Conns
    BY <1>16 DEF Commit, End, PutBack, TypeOK, MaybeConn
  <2> QED
    BY <1>16, <2>1 DEF Commit, Goto, End, MaybeConn, PCs, TypeOK, callVars, stmtVars, diagVars,
       txVars, sinkVars
<1>17. CASE Rollback(w)
  <2>1. failed' \in [Workers -> BOOLEAN]
    BY <1>17 DEF Rollback, TypeOK
  <2>2. free' \subseteq Conns
    BY <1>17 DEF Rollback, End, PutBack, TypeOK, MaybeConn
  <2> QED
    BY <1>17, <2>1, <2>2 DEF Rollback, Goto, End, MaybeConn, PCs, TypeOK, callVars, stmtVars,
       diagVars, txVars, sinkVars
<1>18. CASE Deferred(w)
  <2>1. free' \subseteq Conns
    BY <1>18 DEF Deferred, End, PutBack, TypeOK, MaybeConn
  <2> QED
    BY <1>18, <2>1 DEF Deferred, Goto, End, MaybeConn, PCs, TypeOK, callVars, stmtVars,
       diagVars, txVars, sinkVars
<1>19. CASE Cancel(w)
  BY <1>19 DEF Cancel, MaybeConn, PCs, TypeOK, callVars, stmtVars, diagVars, txVars, sinkVars
<1>20. CASE AwaitDone(w)
  BY <1>20 DEF AwaitDone, MaybeConn, PCs, TypeOK, callVars, stmtVars, diagVars, sinkVars
<1>21. CASE Closed(w)
  BY <1>21 DEF Closed, PutBack, MaybeConn, PCs, TypeOK, callVars, stmtVars, diagVars, sinkVars
<1> QED
  BY <1>1, <1>2, <1>3, <1>4, <1>5, <1>6, <1>7, <1>8, <1>9, <1>10, <1>11, <1>12, <1>13, <1>14,
     <1>15, <1>16, <1>17, <1>18, <1>19, <1>20, <1>21 DEF Acts, Start, Proceed

---------------------------------------------------------------------------
(* Places.                                                                 *)

LEMMA PlaceStep ==
    ASSUME TypeOK, NEW w \in Workers, PlaceInv(w), TxInv(w), Acts(w)
    PROVE  PlaceInv(w)'
<1>1. /\ pc \in [Workers -> PCs] /\ call \in [Workers -> {"terminal", "transaction"}]
      /\ count[w] \in Nat /\ MaxStatements[w] \in Nat /\ setting[w] \in Setting
  BY BoundsAssumption DEF TypeOK
<1> USE DEF PlaceInv, Busy, Ending, InTx, DML, PCs
<1>2. CASE StartTerminal(w)
  <2>1. PICK k \in DML \cup Control, s \in Setting :
             Observe(w, k, s) /\ setting'[w] = s /\ k \in DML
    BY <1>2, SettingsAssumption DEF StartTerminal, TypeOK, DML, Control
  <2>2. count'[w] = count[w] + 1 /\ kind'[w] = k /\ (seq'[w] # 0 <=> s.capture)
        /\ ~failed'[w]
    BY <2>1, Observed
  <2> QED
    BY <1>2, <1>1, <2>1, <2>2 DEF StartTerminal, Goto
<1>3. CASE StartTransaction(w)
  <2>1. PICK k \in DML \cup Control, s \in Setting :
             Observe(w, k, s) /\ setting'[w] = s /\ k = "begin"
    BY <1>3, SettingsAssumption DEF StartTransaction, TypeOK, DML, Control
  <2>2. count'[w] = count[w] + 1 /\ kind'[w] = k /\ (seq'[w] # 0 <=> s.capture)
        /\ ~failed'[w]
    BY <2>1, Observed
  <2> QED
    BY <1>3, <1>1, <2>1, <2>2 DEF StartTransaction, Goto
<1>4. CASE Prepare(w)
  BY <1>4, <1>1 DEF Prepare, Goto, callVars, stmtVars, diagVars, txVars, sinkVars
<1>5. CASE ExecuteSucceeds(w)
  BY <1>5, <1>1 DEF ExecuteSucceeds, Goto, Ran, callVars, stmtVars, diagVars, txVars, sinkVars
<1>6. CASE ExecuteFails(w)
  BY <1>6, <1>1 DEF ExecuteFails, Goto, Ran, callVars, stmtVars, diagVars, txVars, sinkVars
<1>7. CASE CloseRows(w)
  BY <1>7, <1>1 DEF CloseRows, Goto, callVars, stmtVars, diagVars, txVars, sinkVars
<1>8. CASE ScanPanics(w)
  BY <1>8, <1>1 DEF ScanPanics, Goto, stmtVars, txVars, sinkVars
<1>9. CASE Collect(w)
  BY <1>9, <1>1 DEF Collect, Goto, ProbeSession, callVars, stmtVars, txVars, sinkVars
<1>10. CASE Release(w)
  BY <1>10, <1>1 DEF Release, Goto, callVars, stmtVars, txVars, sinkVars
<1>11. CASE Capture(w)
  BY <1>11, <1>1 DEF Capture, Goto, callVars, stmtVars, diagVars, txVars
<1>12. CASE Notify(w)
  BY <1>12, <1>1 DEF Notify, Goto, Continue, stmtVars, txVars
<1>13. CASE Begin(w)
  BY <1>13, <1>1 DEF Begin, Goto, callVars, stmtVars, diagVars, sinkVars
<1>14. CASE CallbackStatement(w)
  <2>1. PICK k \in DML \cup Control, s \in Setting :
             Observe(w, k, s) /\ setting'[w] = s /\ k \in DML
    BY <1>14, SettingsAssumption DEF CallbackStatement, TypeOK, DML, Control, callVars
  <2>2. count'[w] = count[w] + 1 /\ kind'[w] = k /\ (seq'[w] # 0 <=> s.capture)
        /\ ~failed'[w]
    BY <2>1, Observed
  <2> QED
    BY <1>14, <1>1, <2>1, <2>2 DEF CallbackStatement, Goto, callVars
<1>15. CASE CallbackReturns(w)
  <2>1. PICK k \in DML \cup Control, s \in Setting :
             Observe(w, k, s) /\ setting'[w] = s /\ k \in {"commit", "rollback"}
    BY <1>15, SettingsAssumption DEF CallbackReturns, TypeOK, DML, Control
  <2>2. count'[w] = count[w] + 1 /\ kind'[w] = k /\ (seq'[w] # 0 <=> s.capture)
        /\ ~failed'[w]
    BY <2>1, Observed
  <2> QED
    BY <1>15, <1>1, <2>1, <2>2 DEF CallbackReturns, Goto
<1>16. CASE Unwind(w)
  <2>1. PICK k \in DML \cup Control, s \in Setting :
             Observe(w, k, s) /\ setting'[w] = s /\ k = "rollback"
    BY <1>16, SettingsAssumption DEF Unwind, TypeOK, DML, Control
  <2>2. count'[w] = count[w] + 1 /\ kind'[w] = k /\ (seq'[w] # 0 <=> s.capture)
        /\ ~failed'[w]
    BY <2>1, Observed
  <2> QED
    BY <1>16, <1>1, <2>1, <2>2 DEF Unwind, Goto
<1>17. CASE Commit(w)
  BY <1>17, <1>1 DEF Commit, Goto, End, callVars, stmtVars, diagVars, txVars, sinkVars
<1>18. CASE Rollback(w)
  BY <1>18, <1>1 DEF Rollback, Goto, End, callVars, stmtVars, diagVars, txVars, sinkVars
<1>19. CASE Deferred(w)
  BY <1>19, <1>1 DEF Deferred, Goto, End, callVars, stmtVars, diagVars, txVars, sinkVars
<1>20. CASE Cancel(w)
  BY <1>20, <1>1 DEF Cancel, callVars, stmtVars, diagVars, txVars, sinkVars
<1>21. CASE AwaitDone(w)
  BY <1>21, <1>1 DEF AwaitDone, callVars, stmtVars, diagVars, sinkVars
<1>22. CASE Closed(w)
  BY <1>22, <1>1 DEF Closed, callVars, stmtVars, diagVars, sinkVars
<1> QED
  BY <1>2, <1>3, <1>4, <1>5, <1>6, <1>7, <1>8, <1>9, <1>10, <1>11, <1>12, <1>13, <1>14, <1>15,
     <1>16, <1>17, <1>18, <1>19, <1>20, <1>21, <1>22 DEF Acts, Start, Proceed

---------------------------------------------------------------------------
(* Transactions.                                                           *)

LEMMA TxStep ==
    ASSUME TypeOK, NEW w \in Workers, PlaceInv(w), TxInv(w), Acts(w)
    PROVE  TxInv(w)'
<1>t. /\ pc \in [Workers -> PCs] /\ call \in [Workers -> {"terminal", "transaction"}]
      /\ tx \in [Workers -> {"none", "open", "closing", "committed", "rolledback"}]
      /\ txc \in [Workers -> MaybeConn] /\ txDone \in [Workers -> BOOLEAN]
      /\ failed \in [Workers -> BOOLEAN] /\ cancelled \in [Workers -> BOOLEAN]
      /\ callback \in [Workers -> {"none", "nil", "error", "panic"}]
      /\ answer \in [Workers -> {"none", "nil", "error", "panic"}]
  BY DEF TypeOK
<1>f. \A c \in free : c \in Conns /\ c # NoConn
  BY PoolAssumption DEF TypeOK
<1> USE DEF TxInv, PlaceInv, Busy, Ending, InTx, DML, PCs
<1>1. CASE StartTerminal(w)
  <2>1. PICK k \in DML \cup Control, s \in Setting :
             Observe(w, k, s) /\ setting'[w] = s /\ k \in DML
    BY <1>1, SettingsAssumption DEF StartTerminal, TypeOK, DML, Control
  <2>2. count'[w] = count[w] + 1 /\ kind'[w] = k /\ ~failed'[w]
    BY <2>1, Observed
  <2> QED
    BY <1>1, <1>t, <2>1, <2>2 DEF StartTerminal, Goto, sinkVars
<1>2. CASE StartTransaction(w)
  <2>1. PICK k \in DML \cup Control, s \in Setting :
             Observe(w, k, s) /\ setting'[w] = s /\ k = "begin"
    BY <1>2, SettingsAssumption DEF StartTransaction, TypeOK, DML, Control
  <2>2. count'[w] = count[w] + 1 /\ kind'[w] = k /\ ~failed'[w]
    BY <2>1, Observed
  <2> QED
    BY <1>2, <1>t, <2>1, <2>2 DEF StartTransaction, Goto, sinkVars
<1>3. CASE Prepare(w)
  BY <1>3, <1>t, <1>f DEF Prepare, Goto, callVars, stmtVars, diagVars, txVars, sinkVars
<1>4. CASE ExecuteSucceeds(w)
  BY <1>4, <1>t, <1>f DEF ExecuteSucceeds, Goto, Ran, callVars, stmtVars, diagVars, txVars,
     sinkVars
<1>5. CASE ExecuteFails(w)
  BY <1>5, <1>t, <1>f DEF ExecuteFails, Goto, Ran, callVars, stmtVars, diagVars, txVars,
     sinkVars
<1>6. CASE CloseRows(w)
  BY <1>6, <1>t, <1>f DEF CloseRows, Goto, callVars, stmtVars, diagVars, txVars, sinkVars
<1>7. CASE ScanPanics(w)
  BY <1>7, <1>t, <1>f DEF ScanPanics, Goto, stmtVars, txVars, sinkVars
<1>8. CASE Collect(w)
  BY <1>8, <1>t, <1>f DEF Collect, Goto, ProbeSession, callVars, stmtVars, txVars, sinkVars
<1>9. CASE Release(w)
  BY <1>9, <1>t, <1>f DEF Release, Goto, callVars, stmtVars, txVars, sinkVars
<1>10. CASE Capture(w)
  BY <1>10, <1>t, <1>f DEF Capture, Goto, callVars, stmtVars, diagVars, txVars
<1>11. CASE Notify(w)
  <2>1. PICK b \in BOOLEAN : Continue(w, b)
    BY <1>11 DEF Notify
  <2>2. /\ call' = call /\ kind' = kind /\ txVars' = txVars /\ failed' = failed
        /\ cancelled' = cancelled /\ callback' = callback /\ pc[w] = "notify"
    BY <1>11 DEF Notify, stmtVars, txVars
  <2>3. kind[w] \in DML \cup Control
    BY DEF TypeOK
  <2>4. answer'[w] = "nil" /\ pc'[w] \in {"idle", "deferred"} /\ InTx(w) => kind[w] = "commit" /\ ~failed[w]
    BY <1>t, <2>1, <2>2, <2>3 DEF Continue, Goto, Outcome, Control
  <2>5. CASE ~InTx(w) \/ (kind[w] = "begin" /\ failed[w])
    BY <1>t, <2>1, <2>2, <2>4, <2>5 DEF Continue, Goto, txVars
  <2>6. CASE InTx(w) /\ kind[w] \in {"commit", "rollback"}
    BY <1>t, <2>1, <2>2, <2>4, <2>6 DEF Continue, Goto, txVars
  <2>7. CASE InTx(w) /\ ~(kind[w] = "begin" /\ failed[w]) /\ kind[w] \notin {"commit", "rollback"}
    BY <1>t, <2>1, <2>2, <2>4, <2>7 DEF Continue, Goto, txVars
  <2> QED
    BY <2>5, <2>6, <2>7
<1>12. CASE Begin(w)
  <2>1. /\ call'[w] = call[w] /\ kind'[w] = kind[w] /\ callback'[w] = callback[w]
        /\ cancelled'[w] = cancelled[w] /\ txDone'[w] = txDone[w] /\ answer'[w] = answer[w]
        /\ pc'[w] = "record" /\ pc[w] = "execute" /\ kind[w] = "begin"
    BY <1>12, <1>t DEF Begin, Goto, callVars, stmtVars
  <2>2. InTx(w) /\ tx[w] = "none" /\ txc[w] = NoConn /\ ~txDone[w]
    BY <1>12 DEF Begin
  <2>3. CASE tx' = [tx EXCEPT ![w] = "open"] /\ failed' = failed /\ \E c \in free : txc' = [txc EXCEPT ![w] = c]
    <3>1. tx'[w] = "open" /\ txc'[w] # NoConn /\ failed'[w] = failed[w]
      BY <1>t, <1>f, <2>3
    <3>2. ~failed[w]
      BY <1>12 DEF Begin
    <3> QED
      BY <2>1, <2>2, <3>1, <3>2
  <2>4. CASE UNCHANGED <<txc, tx>>
    BY <2>1, <2>2, <2>4
  <2> QED
    BY <1>12, <2>3, <2>4 DEF Begin
<1>13. CASE CallbackStatement(w)
  <2>1. PICK k \in DML \cup Control, s \in Setting :
             Observe(w, k, s) /\ setting'[w] = s /\ k \in DML
    BY <1>13, SettingsAssumption DEF CallbackStatement, TypeOK, DML, Control, callVars
  <2>2. count'[w] = count[w] + 1 /\ kind'[w] = k /\ ~failed'[w]
    BY <2>1, Observed
  <2> QED
    BY <1>13, <1>t, <2>1, <2>2 DEF CallbackStatement, Goto, callVars, txVars, sinkVars
<1>14. CASE CallbackReturns(w)
  <2>1. PICK k \in DML \cup Control, s \in Setting :
             Observe(w, k, s) /\ setting'[w] = s /\ k \in {"commit", "rollback"}
    BY <1>14, SettingsAssumption DEF CallbackReturns, TypeOK, DML, Control
  <2>2. count'[w] = count[w] + 1 /\ kind'[w] = k /\ ~failed'[w]
    BY <2>1, Observed
  <2>3. kind'[w] = "commit" => callback'[w] = "nil"
    BY <1>14, <1>t DEF CallbackReturns, Observe, TypeOK
  <2> QED
    BY <1>14, <1>t, <2>1, <2>2, <2>3 DEF CallbackReturns, Goto, txVars, sinkVars
<1>15. CASE Unwind(w)
  <2>1. PICK k \in DML \cup Control, s \in Setting :
             Observe(w, k, s) /\ setting'[w] = s /\ k = "rollback"
    BY <1>15, SettingsAssumption DEF Unwind, TypeOK, DML, Control
  <2>2. count'[w] = count[w] + 1 /\ kind'[w] = k /\ ~failed'[w]
    BY <2>1, Observed
  <2> QED
    BY <1>15, <1>t, <2>1, <2>2 DEF Unwind, Goto, txVars, sinkVars
<1>16. CASE Commit(w)
  BY <1>16, <1>t, <1>f DEF Commit, Goto, End, callVars, stmtVars, diagVars, txVars, sinkVars
<1>17. CASE Rollback(w)
  BY <1>17, <1>t, <1>f DEF Rollback, Goto, End, callVars, stmtVars, diagVars, txVars, sinkVars
<1>18. CASE Deferred(w)
  BY <1>18, <1>t, <1>f DEF Deferred, Goto, End, callVars, stmtVars, diagVars, txVars, sinkVars
<1>19. CASE Cancel(w)
  BY <1>19, <1>t, <1>f DEF Cancel, callVars, stmtVars, diagVars, txVars, sinkVars
<1>20. CASE AwaitDone(w)
  BY <1>20, <1>t, <1>f DEF AwaitDone, callVars, stmtVars, diagVars, sinkVars
<1>21. CASE Closed(w)
  BY <1>21, <1>t, <1>f DEF Closed, callVars, stmtVars, diagVars, sinkVars
<1> QED
  BY <1>1, <1>2, <1>3, <1>4, <1>5, <1>6, <1>7, <1>8, <1>9, <1>10, <1>11, <1>12, <1>13, <1>14,
     <1>15, <1>16, <1>17, <1>18, <1>19, <1>20, <1>21 DEF Acts, Start, Proceed

---------------------------------------------------------------------------
(* The pool.                                                               *)

LEMMA HeldStep ==
    ASSUME TypeOK, NEW w \in Workers, PlaceInv(w), HeldInv(w), Acts(w)
    PROVE  HeldInv(w)'
<1>t. /\ pc \in [Workers -> PCs] /\ call \in [Workers -> {"terminal", "transaction"}]
      /\ pin \in [Workers -> MaybeConn] /\ rows \in [Workers -> MaybeConn]
      /\ txc \in [Workers -> MaybeConn]
  BY DEF TypeOK
<1>f. \A c \in free : c \in Conns /\ c # NoConn
  BY PoolAssumption DEF TypeOK
<1> USE DEF HeldInv, PlaceInv, Busy, Ending, InTx, DML, PCs
<1>1. CASE StartTerminal(w)
  BY <1>1, <1>t, <1>f DEF StartTerminal, Observe, Goto, sinkVars
<1>2. CASE StartTransaction(w)
  BY <1>2, <1>t, <1>f DEF StartTransaction, Observe, Goto, sinkVars
<1>3. CASE Prepare(w)
  BY <1>3, <1>t, <1>f DEF Prepare, Goto, callVars, stmtVars, diagVars, txVars, sinkVars
<1>4. CASE ExecuteSucceeds(w)
  BY <1>4, <1>t, <1>f DEF ExecuteSucceeds, Goto, Ran, callVars, stmtVars, diagVars, txVars,
     sinkVars, Targets
<1>5. CASE ExecuteFails(w)
  BY <1>5, <1>t, <1>f DEF ExecuteFails, Goto, Ran, callVars, stmtVars, diagVars, txVars,
     sinkVars
<1>6. CASE CloseRows(w)
  BY <1>6, <1>t, <1>f DEF CloseRows, Goto, callVars, stmtVars, diagVars, txVars, sinkVars
<1>7. CASE ScanPanics(w)
  BY <1>7, <1>t, <1>f DEF ScanPanics, Goto, stmtVars, txVars, sinkVars
<1>8. CASE Collect(w)
  BY <1>8, <1>t, <1>f DEF Collect, Goto, ProbeSession, callVars, stmtVars, txVars, sinkVars
<1>9. CASE Release(w)
  BY <1>9, <1>t, <1>f DEF Release, Goto, callVars, stmtVars, txVars, sinkVars
<1>10. CASE Capture(w)
  BY <1>10, <1>t, <1>f DEF Capture, Goto, callVars, stmtVars, diagVars, txVars
<1>11. CASE Notify(w)
  BY <1>11, <1>t, <1>f DEF Notify, Goto, Continue, stmtVars, txVars
<1>12. CASE Begin(w)
  BY <1>12, <1>t, <1>f DEF Begin, Goto, callVars, stmtVars, diagVars, sinkVars
<1>13. CASE CallbackStatement(w)
  BY <1>13, <1>t, <1>f DEF CallbackStatement, Observe, Goto, callVars, txVars, sinkVars
<1>14. CASE CallbackReturns(w)
  BY <1>14, <1>t, <1>f DEF CallbackReturns, Observe, Goto, txVars, sinkVars
<1>15. CASE Unwind(w)
  BY <1>15, <1>t, <1>f DEF Unwind, Observe, Goto, txVars, sinkVars
<1>16. CASE Commit(w)
  BY <1>16, <1>t, <1>f DEF Commit, Goto, End, callVars, stmtVars, diagVars, txVars, sinkVars
<1>17. CASE Rollback(w)
  BY <1>17, <1>t, <1>f DEF Rollback, Goto, End, callVars, stmtVars, diagVars, txVars, sinkVars
<1>18. CASE Deferred(w)
  BY <1>18, <1>t, <1>f DEF Deferred, Goto, End, callVars, stmtVars, diagVars, txVars, sinkVars
<1>19. CASE Cancel(w)
  BY <1>19, <1>t, <1>f DEF Cancel, callVars, stmtVars, diagVars, txVars, sinkVars
<1>20. CASE AwaitDone(w)
  BY <1>20, <1>t, <1>f DEF AwaitDone, callVars, stmtVars, diagVars, sinkVars
<1>21. CASE Closed(w)
  BY <1>21, <1>t, <1>f DEF Closed, callVars, stmtVars, diagVars, sinkVars
<1> QED
  BY <1>1, <1>2, <1>3, <1>4, <1>5, <1>6, <1>7, <1>8, <1>9, <1>10, <1>11, <1>12, <1>13, <1>14,
     <1>15, <1>16, <1>17, <1>18, <1>19, <1>20, <1>21 DEF Acts, Start, Proceed

LEMMA HandsStep ==
    ASSUME TypeOK, NEW w \in Workers, PlaceInv(w), TxInv(w), HeldInv(w), HandsInv(w),
           InPool(w), Acts(w)
    PROVE  HandsInv(w)'
<1>t. /\ pc \in [Workers -> PCs] /\ call \in [Workers -> {"terminal", "transaction"}]
      /\ pin \in [Workers -> MaybeConn] /\ rows \in [Workers -> MaybeConn]
      /\ txc \in [Workers -> MaybeConn] /\ kind[w] \in DML \cup Control
  BY DEF TypeOK
<1>f. \A c \in free : c # NoConn /\ c \notin {pin[w], rows[w], txc[w]}
  BY PoolAssumption DEF TypeOK, InPool, Holds
<1>s. ASSUME pin'[w] \in {pin[w], NoConn}, rows'[w] \in {rows[w], NoConn}, txc'[w] = txc[w],
             call'[w] = call[w]
      PROVE  HandsInv(w)'
  BY <1>s DEF HandsInv, InTx
<1>e. ASSUME pin'[w] = pin[w], rows'[w] = NoConn, txc'[w] = NoConn
      PROVE  HandsInv(w)'
  BY <1>e DEF HandsInv
<1>1. CASE StartTerminal(w)
  <2>1. pin'[w] = NoConn /\ rows'[w] = NoConn /\ call'[w] = "terminal"
    BY <1>1, <1>t DEF StartTerminal, HeldInv
  <2> QED
    BY <2>1 DEF HandsInv, InTx
<1>2. CASE StartTransaction(w)
  <2>1. pin'[w] = NoConn /\ rows'[w] = NoConn /\ call'[w] = "transaction"
    BY <1>2, <1>t DEF StartTransaction, HeldInv
  <2> QED
    BY <2>1 DEF HandsInv, InTx
<1>3. CASE Prepare(w)
  <2>1. rows'[w] = NoConn /\ txc' = txc /\ call' = call /\ pin[w] = NoConn
    BY <1>3 DEF Prepare, HeldInv, callVars, txVars
  <2>2. CASE pin' = pin
    BY <2>1, <2>2 DEF HandsInv, InTx
  <2>3. CASE \E c \in free : pin' = [pin EXCEPT ![w] = c]
    BY <1>t, <1>f, <2>1, <2>3 DEF HandsInv, InTx
  <2> QED
    BY <1>3, <2>2, <2>3 DEF Prepare, diagVars
<1>4. CASE ExecuteSucceeds(w)
  <2>1. txc' = txc /\ call' = call /\ pin' = pin
    BY <1>4 DEF ExecuteSucceeds, callVars, diagVars, txVars
  <2>2. CASE rows' = rows
    BY <1>s, <2>1, <2>2
  <2>3. CASE \E c \in Targets(w) : rows' = [rows EXCEPT ![w] = c]
    <3>1. PICK c \in Targets(w) : rows'[w] = c
      BY <1>t, <2>3
    <3>2. InTx(w) => c = txc[w]
      BY DEF Targets
    <3>3. pin[w] # NoConn => c = pin[w]
      BY DEF Targets, HeldInv
    <3>4. ~InTx(w) /\ txc[w] # NoConn => txc[w] # c
      BY <1>f DEF Targets, HandsInv
    <3> QED
      BY <2>1, <3>1, <3>2, <3>3, <3>4 DEF HandsInv, InTx
  <2> QED
    BY <1>4, <2>2, <2>3 DEF ExecuteSucceeds
<1>5. CASE ExecuteFails(w)
  BY <1>5, <1>s DEF ExecuteFails, callVars, diagVars, txVars
<1>6. CASE CloseRows(w)
  BY <1>6, <1>t, <1>s DEF CloseRows, callVars, diagVars, txVars
<1>7. CASE ScanPanics(w)
  BY <1>7, <1>t, <1>s DEF ScanPanics, txVars
<1>8. CASE Collect(w)
  BY <1>8, <1>s DEF Collect, callVars, txVars
<1>9. CASE Release(w)
  BY <1>9, <1>t, <1>s DEF Release, callVars, txVars
<1>10. CASE Capture(w)
  BY <1>10, <1>s DEF Capture, callVars, diagVars, txVars
<1>11. CASE Notify(w)
  BY <1>11, <1>s DEF Notify, txVars
<1>12. CASE Begin(w)
  <2>1. rows'[w] = NoConn /\ pin' = pin /\ call' = call /\ InTx(w)
    BY <1>12, <1>t DEF Begin, HeldInv, PlaceInv, Busy, DML, callVars, diagVars
  <2> QED
    BY <2>1 DEF HandsInv, InTx, HeldInv
<1>13. CASE CallbackStatement(w)
  BY <1>13, <1>s DEF CallbackStatement, callVars, txVars
<1>14. CASE CallbackReturns(w)
  BY <1>14, <1>s DEF CallbackReturns, txVars
<1>15. CASE Unwind(w)
  BY <1>15, <1>s DEF Unwind, txVars
<1>16. CASE Commit(w)
  <2>1. rows'[w] = NoConn /\ pin' = pin /\ call' = call
    BY <1>16, <1>t DEF Commit, HeldInv, callVars, diagVars
  <2> QED
    BY <1>16, <1>t, <1>s, <1>e, <2>1 DEF Commit, End, txVars
<1>17. CASE Rollback(w)
  <2>1. rows'[w] = NoConn /\ pin' = pin /\ call' = call
    BY <1>17, <1>t DEF Rollback, HeldInv, callVars, diagVars
  <2> QED
    BY <1>17, <1>t, <1>s, <1>e, <2>1 DEF Rollback, End, txVars
<1>18. CASE Deferred(w)
  <2>1. rows'[w] = NoConn /\ pin' = pin /\ call' = call
    BY <1>18, <1>t DEF Deferred, HeldInv, callVars, diagVars
  <2> QED
    BY <1>18, <1>t, <1>s, <1>e, <2>1 DEF Deferred, End, txVars
<1>19. CASE Cancel(w)
  BY <1>19, <1>s DEF Cancel, callVars, diagVars, txVars
<1>20. CASE AwaitDone(w)
  BY <1>20, <1>s DEF AwaitDone, callVars, diagVars
<1>21. CASE Closed(w)
  <2>1. /\ txc'[w] = NoConn /\ pin' = pin /\ call' = call
        /\ rows'[w] = IF InTx(w) THEN NoConn ELSE rows[w]
    BY <1>21, <1>t DEF Closed, callVars, diagVars
  <2> QED
    BY <2>1 DEF HandsInv, InTx
<1> QED
  BY <1>1, <1>2, <1>3, <1>4, <1>5, <1>6, <1>7, <1>8, <1>9, <1>10, <1>11, <1>12, <1>13, <1>14,
     <1>15, <1>16, <1>17, <1>18, <1>19, <1>20, <1>21 DEF Acts, Start, Proceed

\* A step of a worker moves at most one connection: out of the pool into its hand,
\* or out of its hand into the pool.  A panicking Scanner may drop one.
Takes(w, c) == c \in free /\ free' = free \ {c} /\ Holds(w)' = Holds(w) \cup {c}
Returns(w, c) == c \in Holds(w) /\ free' = free \cup {c} /\ Holds(w)' = Holds(w) \ {c}
Moves(w) ==
    \/ free' = free /\ Holds(w)' = Holds(w)
    \/ \E c \in Conns : Takes(w, c) \/ Returns(w, c)
    \/ free' = free /\ Holds(w)' \subseteq Holds(w) /\ May("scan")

LEMMA MoveStep ==
    ASSUME TypeOK, NEW w \in Workers, PlaceInv(w), TxInv(w), HeldInv(w), HandsInv(w),
           InPool(w), Acts(w)
    PROVE  Moves(w)
<1>t. /\ pc \in [Workers -> PCs] /\ pin \in [Workers -> MaybeConn]
      /\ rows \in [Workers -> MaybeConn] /\ txc \in [Workers -> MaybeConn]
      /\ kind[w] \in DML \cup Control /\ free \subseteq Conns
  BY DEF TypeOK
<1>f. \A c \in free : c \in Conns /\ c # NoConn /\ c \notin {pin[w], rows[w], txc[w]}
  BY <1>t, PoolAssumption DEF InPool, Holds
<1>s. ASSUME pin'[w] = pin[w], rows'[w] = rows[w], txc'[w] = txc[w], free' = free
      PROVE  Moves(w)
  BY <1>s DEF Moves, Holds
<1>r. ASSUME NEW c \in {pin[w], rows[w], txc[w]}, PutBack(c), Holds(w)' = Holds(w) \ {c}
      PROVE  Moves(w)
  <2>1. CASE c = NoConn
    BY <1>r, <2>1 DEF Moves, Holds, PutBack
  <2>2. CASE c # NoConn
    <3>1. c \in Conns /\ c \in Holds(w) /\ free' = free \cup {c}
      BY <1>t, <1>r, <2>2 DEF PutBack, MaybeConn, Holds
    <3> QED
      BY <1>r, <3>1 DEF Moves, Returns
  <2> QED
    BY <2>1, <2>2
<1>e. ASSUME InTx(w), pc[w] # "rows", End(w, "rolledback") \/ End(w, "committed"),
             rows'[w] = rows[w], pin'[w] = pin[w]
      PROVE  Moves(w)
  <2>1. pin[w] = NoConn /\ rows[w] = NoConn
    BY <1>e DEF HeldInv
  <2>2. txc'[w] = NoConn /\ PutBack(txc[w])
    BY <1>t, <1>e DEF End
  <2>3. Holds(w)' = Holds(w) \ {txc[w]}
    BY <1>e, <2>1, <2>2 DEF Holds
  <2> QED
    BY <1>r, <2>2, <2>3
<1>1. CASE StartTerminal(w)
  BY <1>1, <1>s DEF StartTerminal
<1>2. CASE StartTransaction(w)
  BY <1>2, <1>s DEF StartTransaction
<1>3. CASE Prepare(w)
  <2>1. rows' = rows /\ txc' = txc /\ pin[w] = NoConn
    BY <1>3 DEF Prepare, HeldInv, txVars
  <2>2. CASE pin' = pin /\ free' = free
    BY <1>s, <2>1, <2>2
  <2>3. CASE \E c \in free : pin' = [pin EXCEPT ![w] = c] /\ free' = free \ {c}
    <3>1. PICK c \in free : pin' = [pin EXCEPT ![w] = c] /\ free' = free \ {c}
      BY <2>3
    <3>2. Holds(w)' = Holds(w) \cup {c}
      BY <1>t, <1>f, <2>1, <3>1 DEF Holds
    <3> QED
      BY <1>f, <3>1, <3>2 DEF Moves, Takes
  <2> QED
    BY <1>3, <2>2, <2>3 DEF Prepare, diagVars
<1>4. CASE ExecuteSucceeds(w)
  <2>1. txc' = txc /\ pin' = pin /\ rows[w] = NoConn
    BY <1>4 DEF ExecuteSucceeds, HeldInv, diagVars, txVars
  <2>2. CASE rows' = rows /\ free' = free
    BY <1>s, <2>1, <2>2
  <2>3. CASE \E c \in Targets(w) : rows' = [rows EXCEPT ![w] = c] /\ free' = free \ {c}
    <3>1. PICK c \in Targets(w) : rows' = [rows EXCEPT ![w] = c] /\ free' = free \ {c}
      BY <2>3
    <3>2. c \in free \/ (c \in {pin[w], txc[w]} /\ c # NoConn)
      BY <3>1 DEF Targets
    <3>3. c # NoConn
      BY <1>f, <3>2
    <3>4. Holds(w)' = Holds(w) \cup {c}
      BY <1>t, <2>1, <3>1, <3>3 DEF Holds
    <3>5. CASE c \in free
      BY <1>f, <3>1, <3>4, <3>5 DEF Moves, Takes
    <3>6. CASE c \in Holds(w)
      BY <3>1, <3>4, <3>6 DEF Moves, InPool
    <3> QED
      BY <3>2, <3>5, <3>6 DEF Holds
  <2> QED
    BY <1>4, <2>2, <2>3 DEF ExecuteSucceeds
<1>5. CASE ExecuteFails(w)
  BY <1>5, <1>s DEF ExecuteFails, diagVars, txVars
<1>6. CASE CloseRows(w)
  <2>1. txc'[w] = txc[w] /\ pin'[w] = pin[w] /\ rows'[w] = NoConn
    BY <1>6, <1>t DEF CloseRows, diagVars, txVars
  <2>2. CASE InTx(w) \/ pin[w] # NoConn
    <3>1. free' = free /\ rows[w] \in {txc[w], pin[w], NoConn}
      BY <1>6, <2>2 DEF CloseRows, HandsInv
    <3>2. Holds(w)' = Holds(w)
      BY <2>1, <3>1 DEF Holds
    <3> QED
      BY <3>1, <3>2 DEF Moves
  <2>3. CASE ~InTx(w) /\ pin[w] = NoConn
    <3>1. PutBack(rows[w]) /\ rows[w] # NoConn /\ txc[w] # rows[w]
      BY <1>6, <2>3 DEF CloseRows, HeldInv, HandsInv
    <3>2. Holds(w)' = Holds(w) \ {rows[w]}
      BY <2>1, <2>3, <3>1 DEF Holds
    <3> QED
      BY <1>r, <3>1, <3>2
  <2> QED
    BY <2>2, <2>3
<1>7. CASE ScanPanics(w)
  <2>1. txc'[w] = txc[w] /\ pin'[w] = NoConn /\ rows'[w] = NoConn /\ May("scan")
    BY <1>7, <1>t DEF ScanPanics, txVars
  <2>2. CASE free' = free
    BY <2>1, <2>2 DEF Moves, Holds
  <2>3. CASE ~InTx(w) /\ pin[w] = NoConn /\ PutBack(rows[w])
    <3>1. rows[w] # NoConn /\ txc[w] # rows[w]
      BY <1>7, <2>3 DEF ScanPanics, HeldInv, HandsInv
    <3>2. Holds(w)' = Holds(w) \ {rows[w]}
      BY <2>1, <2>3, <3>1 DEF Holds
    <3> QED
      BY <1>r, <2>3, <3>2
  <2> QED
    BY <1>7, <2>2, <2>3 DEF ScanPanics
<1>8. CASE Collect(w)
  BY <1>8, <1>s DEF Collect, txVars
<1>9. CASE Release(w)
  <2>1. /\ txc'[w] = txc[w] /\ pin'[w] = NoConn /\ rows'[w] = rows[w] /\ rows[w] = NoConn
        /\ PutBack(pin[w])
    BY <1>9, <1>t DEF Release, HeldInv, txVars
  <2>2. pin[w] # NoConn => txc[w] # pin[w]
    BY DEF HeldInv, HandsInv
  <2>3. Holds(w)' = Holds(w) \ {pin[w]}
    BY <2>1, <2>2 DEF Holds
  <2> QED
    BY <1>r, <2>1, <2>3
<1>10. CASE Capture(w)
  BY <1>10, <1>s DEF Capture, diagVars, txVars
<1>11. CASE Notify(w)
  BY <1>11, <1>s DEF Notify, txVars
<1>12. CASE Begin(w)
  <2>1. rows' = rows /\ pin' = pin
    BY <1>12 DEF Begin, diagVars
  <2>2. CASE txc' = txc /\ free' = free
    BY <1>s, <2>1, <2>2
  <2>3. CASE \E c \in free : txc' = [txc EXCEPT ![w] = c] /\ free' = free \ {c}
    <3>1. PICK c \in free : txc' = [txc EXCEPT ![w] = c] /\ free' = free \ {c}
      BY <2>3
    <3>2. InTx(w) /\ txc[w] = NoConn
      BY <1>12, <1>t DEF Begin, PlaceInv, TxInv, Busy, DML
    <3>3. Holds(w)' = Holds(w) \cup {c}
      BY <1>t, <1>f, <2>1, <3>1, <3>2 DEF Holds
    <3> QED
      BY <1>f, <3>1, <3>3 DEF Moves, Takes
  <2> QED
    BY <1>12, <2>2, <2>3 DEF Begin
<1>13. CASE CallbackStatement(w)
  BY <1>13, <1>s DEF CallbackStatement, txVars
<1>14. CASE CallbackReturns(w)
  BY <1>14, <1>s DEF CallbackReturns, txVars
<1>15. CASE Unwind(w)
  BY <1>15, <1>s DEF Unwind, txVars
<1>16. CASE Commit(w)
  <2>1. InTx(w) /\ pc[w] # "rows" /\ rows' = rows /\ pin' = pin
    BY <1>16 DEF Commit, PlaceInv, Busy, DML, diagVars
  <2>2. UNCHANGED <<txVars, free>> \/ End(w, "committed") \/ End(w, "rolledback")
    BY <1>16 DEF Commit
  <2> QED
    BY <1>s, <1>e, <2>1, <2>2 DEF txVars
<1>17. CASE Rollback(w)
  <2>1. InTx(w) /\ pc[w] # "rows" /\ rows' = rows /\ pin' = pin
    BY <1>17 DEF Rollback, PlaceInv, Busy, DML, diagVars
  <2>2. UNCHANGED <<txVars, free>> \/ End(w, "rolledback")
    BY <1>17 DEF Rollback
  <2> QED
    BY <1>s, <1>e, <2>1, <2>2 DEF txVars
<1>18. CASE Deferred(w)
  <2>1. InTx(w) /\ pc[w] # "rows" /\ rows' = rows /\ pin' = pin
    BY <1>18 DEF Deferred, PlaceInv, Busy, DML, diagVars
  <2>2. UNCHANGED <<txVars, free>> \/ End(w, "rolledback")
    BY <1>18 DEF Deferred
  <2> QED
    BY <1>s, <1>e, <2>1, <2>2 DEF txVars
<1>19. CASE Cancel(w)
  BY <1>19, <1>s DEF Cancel, diagVars, txVars
<1>20. CASE AwaitDone(w)
  BY <1>20, <1>s DEF AwaitDone, diagVars
<1>21. CASE Closed(w)
  <2>1. /\ txc'[w] = NoConn /\ pin'[w] = pin[w] /\ PutBack(txc[w]) /\ txc[w] # NoConn
        /\ rows'[w] = IF InTx(w) THEN NoConn ELSE rows[w]
    BY <1>21, <1>t DEF Closed, TxInv, diagVars
  <2>2. Holds(w)' = Holds(w) \ {txc[w]}
    <3>1. CASE InTx(w)
      BY <2>1, <3>1 DEF Holds, HeldInv, HandsInv
    <3>2. CASE ~InTx(w)
      BY <2>1, <3>2 DEF Holds, HandsInv
    <3> QED
      BY <3>1, <3>2
  <2> QED
    BY <1>r, <2>1, <2>2
<1> QED
  BY <1>1, <1>2, <1>3, <1>4, <1>5, <1>6, <1>7, <1>8, <1>9, <1>10, <1>11, <1>12, <1>13, <1>14,
     <1>15, <1>16, <1>17, <1>18, <1>19, <1>20, <1>21 DEF Acts, Start, Proceed

LEMMA LedgerStep ==
    ASSUME TypeOK, NEW w \in Workers, Acts(w), Moves(w), Disjoint, Ledger
    PROVE  Disjoint' /\ Ledger'
<1>1. \A v \in Workers \ {w} : Holds(v)' = Holds(v)
  BY OthersStay DEF Same, Holds
<1>2. \A v \in Workers : Holds(v) \cap free = {}
  BY DEF Ledger, InPool
<1>3. CASE free' = free /\ Holds(w)' = Holds(w)
  BY <1>1, <1>3 DEF Disjoint, Ledger, InPool
<1>4. ASSUME NEW c \in Conns, Takes(w, c)
      PROVE  Disjoint' /\ Ledger'
  <2>1. Disjoint'
    BY <1>1, <1>2, <1>4 DEF Disjoint, Takes
  <2>2. \A v \in Workers : InPool(v)'
    BY <1>1, <1>2, <1>4 DEF InPool, Takes
  <2>3. \A d \in Conns : (d \in free \/ \E v \in Workers : d \in Holds(v))
            => (d \in free' \/ \E v \in Workers : d \in Holds(v)')
    BY <1>1, <1>4 DEF Takes
  <2> QED
    BY <2>1, <2>2, <2>3 DEF Ledger
<1>5. ASSUME NEW c \in Conns, Returns(w, c)
      PROVE  Disjoint' /\ Ledger'
  <2>1. Disjoint'
    BY <1>1, <1>5 DEF Disjoint, Returns
  <2>2. \A v \in Workers : InPool(v)'
    BY <1>1, <1>2, <1>5 DEF Disjoint, InPool, Returns
  <2>3. \A d \in Conns : (d \in free \/ \E v \in Workers : d \in Holds(v))
            => (d \in free' \/ \E v \in Workers : d \in Holds(v)')
    BY <1>1, <1>5 DEF Returns
  <2> QED
    BY <2>1, <2>2, <2>3 DEF Ledger
<1>6. CASE free' = free /\ Holds(w)' \subseteq Holds(w) /\ May("scan")
  <2>1. May("scan")'
    BY <1>6 DEF May
  <2> QED
    BY <1>1, <1>6, <2>1 DEF Disjoint, Ledger, InPool
<1> QED
  BY <1>3, <1>4, <1>5, <1>6 DEF Moves

\* What the ledger says of the hands taken together.
LEMMA Accountable ==
    ASSUME TypeOK, Ledger
    PROVE  free \cap Held = {} /\ (May("scan") \/ Lost = {})
<1>1. \A c \in Conns : c \in Held <=> \E w \in Workers : c \in Holds(w)
  BY PoolAssumption DEF Held, Holds
<1> QED
  BY <1>1 DEF Ledger, InPool, TypeOK, Lost

---------------------------------------------------------------------------
(* Diagnostics.                                                            *)

LEMMA DiagStep ==
    ASSUME TypeOK, NEW w \in Workers, PlaceInv(w), DiagInv(w), Acts(w)
    PROVE  DiagInv(w)'
<1>t. /\ pc \in [Workers -> PCs] /\ collector \in [Workers -> BOOLEAN]
      /\ probe \in [Workers -> [Probes -> Observation]] /\ kind \in [Workers -> DML \cup Control]
  BY DEF TypeOK
<1>1. CASE StartTerminal(w)
  <2>1. PICK k \in DML \cup Control, s \in Setting : Observe(w, k, s) /\ k \in DML
    BY <1>1, SettingsAssumption DEF StartTerminal, TypeOK, DML, Control
  <2>2. probe'[w] = Requested(s, k) /\ kind'[w] = k
    BY <2>1, Observed
  <2>3. collector' = collector /\ ~collector[w]
    BY <1>1 DEF StartTerminal, DiagInv
  <2>4. pc'[w] = "prepare"
    BY <1>1, <1>t DEF StartTerminal, Goto
  <2>5. \A p \in Probes : ~Requested(s, k)[p].known
    BY RequestedIs
  <2>6. Requested(s, k)["ru"].on /\ Requested(s, k)["warnings"].on => Requested(s, k)["warnings"].failed
    BY RequestedIs
  <2> QED
    BY <2>2, <2>3, <2>4, <2>5, <2>6 DEF DiagInv
<1>2. CASE StartTransaction(w)
  <2>1. PICK k \in DML \cup Control, s \in Setting : Observe(w, k, s) /\ k = "begin"
    BY <1>2, SettingsAssumption DEF StartTransaction, TypeOK, DML, Control
  <2>2. probe'[w] = Requested(s, k) /\ kind'[w] = k
    BY <2>1, Observed
  <2>3. collector' = collector /\ ~collector[w]
    BY <1>2 DEF StartTransaction, DiagInv
  <2>4. pc'[w] = "execute"
    BY <1>2, <1>t DEF StartTransaction, Goto
  <2>5. \A p \in Probes : ~Requested(s, k)[p].known
    BY RequestedIs
  <2>6. Requested(s, k)["ru"].on /\ Requested(s, k)["warnings"].on => Requested(s, k)["warnings"].failed
    BY RequestedIs
  <2>7. \A p \in Probes : ~Requested(s, k)[p].on
    BY <2>1, RequestedIs DEF DML
  <2> QED
    BY <2>2, <2>3, <2>4, <2>5, <2>6, <2>7 DEF DiagInv
<1>3. CASE Prepare(w)
  <2>1. pc[w] = "prepare" /\ pc'[w] = "execute" /\ kind' = kind
    BY <1>3, <1>t DEF Prepare, Goto, stmtVars
  <2>2. /\ \A p \in Probes : ~probe[w][p].known
        /\ probe[w]["ru"].on /\ probe[w]["warnings"].on => probe[w]["warnings"].failed
        /\ ~collector[w] /\ kind[w] \in DML
    BY <2>1 DEF DiagInv, PlaceInv
  <2>3. CASE ~Collecting(w) /\ probe' = probe /\ collector' = collector
    <3>1. \A p \in Probes : ~probe[w][p].on
      BY <2>3 DEF Collecting, Wants, Probes
    <3> QED
      BY <2>1, <2>2, <2>3, <3>1 DEF DiagInv
  <2>4. CASE collector' = [collector EXCEPT ![w] = TRUE] /\ probe' = probe
    <3>1. collector'[w]
      BY <1>t, <2>4
    <3> QED
      BY <2>1, <2>2, <2>4, <3>1 DEF DiagInv
  <2>5. CASE Collecting(w) /\ probe' = [probe EXCEPT ![w] = WithError(probe[w])] /\ collector' = collector
    <3>1. probe'[w] = WithError(probe[w]) /\ probe[w] \in [Probes -> Observation]
      BY <1>t, <2>5
    <3>2. \A p \in Probes : ~probe'[w][p].known
      BY <2>2, <3>1, WithErrorIs
    <3>3. \A p \in Probes : probe'[w][p].on => probe'[w][p].failed
      <4>1. probe'[w]["ru"].on = probe[w]["ru"].on
            /\ probe'[w]["warnings"].on = probe[w]["warnings"].on
            /\ (probe[w]["warnings"].failed => probe'[w]["warnings"].failed)
        BY <3>1, WithErrorIs DEF Probes
      <4>2. IF probe[w]["ru"].on THEN probe'[w]["ru"].failed ELSE probe'[w]["warnings"].failed
        BY <3>1, WithErrorIs
      <4> QED
        BY <2>2, <4>1, <4>2 DEF Probes
    <3> QED
      BY <2>1, <2>2, <2>5, <3>2, <3>3 DEF DiagInv
  <2> QED
    BY <1>3, <2>3, <2>4, <2>5 DEF Prepare, diagVars
<1>4. CASE ExecuteSucceeds(w)
  BY <1>4, <1>t DEF ExecuteSucceeds, Goto, Ran, DiagInv, callVars, stmtVars, diagVars
<1>5. CASE ExecuteFails(w)
  BY <1>5, <1>t DEF ExecuteFails, Goto, Ran, DiagInv, callVars, stmtVars, diagVars
<1>6. CASE CloseRows(w)
  BY <1>6, <1>t DEF CloseRows, Goto, DiagInv, callVars, stmtVars, diagVars
<1>7. CASE ScanPanics(w)
  BY <1>7, <1>t DEF ScanPanics, Goto, DiagInv, stmtVars
<1>8. CASE Collect(w)
  <2>1. pc[w] = "collect" /\ pc'[w] = "release" /\ ~collector'[w]
    BY <1>8, <1>t DEF Collect, Goto
  <2>2. \A p \in Probes : ~probe[w][p].known
    BY <2>1 DEF DiagInv
  <2>3. \A p \in Probes : probe'[w][p].on => Valid(probe'[w][p])
    <3>1. CASE ~collector[w]
      BY <1>8, <2>1, <2>2, <3>1 DEF Collect, DiagInv, Valid
    <3>2. CASE collector[w] /\ Wants(w, "ru")
      <4>1. "ru" \in Probes /\ \A p \in Probes \ {"ru"} : p = "warnings"
        BY DEF Probes
      <4>2. ProbeSession(w, "ru")
        BY <1>8, <3>2 DEF Collect
      <4>3. Valid(probe'[w]["ru"]) /\ \A p \in Probes \ {"ru"} : probe'[w][p] = probe[w][p]
        BY <4>1, <4>2, ProbedIs
      <4>4. probe[w]["warnings"].on => probe[w]["warnings"].failed
        BY <3>2 DEF DiagInv, Wants
      <4> QED
        BY <2>2, <4>1, <4>3, <4>4 DEF Valid
    <3>3. CASE collector[w] /\ ~Wants(w, "ru") /\ failed[w]
      <4>1. probe' = [probe EXCEPT ![w]["warnings"].failed = TRUE]
        BY <1>8, <3>3 DEF Collect
      <4>2. /\ probe'[w]["ru"] = probe[w]["ru"] /\ probe'[w]["warnings"].failed
            /\ probe'[w]["warnings"].known = probe[w]["warnings"].known
        BY <4>1, FailedIs
      <4> QED
        BY <2>2, <3>3, <4>2 DEF Valid, Wants, Probes
    <3>4. CASE collector[w] /\ ~Wants(w, "ru") /\ ~failed[w]
      <4>1. "warnings" \in Probes /\ \A p \in Probes \ {"warnings"} : p = "ru"
        BY DEF Probes
      <4>2. ProbeSession(w, "warnings")
        BY <1>8, <3>4 DEF Collect
      <4>3. Valid(probe'[w]["warnings"]) /\ \A p \in Probes \ {"warnings"} : probe'[w][p] = probe[w][p]
        BY <4>1, <4>2, ProbedIs
      <4> QED
        BY <3>4, <4>1, <4>3 DEF Wants
    <3> QED
      BY <3>1, <3>2, <3>3, <3>4
  <2> QED
    BY <2>1, <2>3 DEF DiagInv
<1>9. CASE Release(w)
  <2>1. pc[w] = "release" /\ pc'[w] = "record" /\ collector' = collector
    BY <1>9, <1>t DEF Release, Goto
  <2>2. \A p \in Probes : probe'[w][p].on => Valid(probe'[w][p])
    <3>1. CASE probe' = probe
      BY <2>1, <3>1 DEF DiagInv
    <3>2. CASE probe' = [probe EXCEPT ![w] = WithError(probe[w])]
      <4>1. probe'[w] = WithError(probe[w]) /\ probe[w] \in [Probes -> Observation]
        BY <1>t, <3>2
      <4>2. \A p \in Probes : /\ probe'[w][p].on = probe[w][p].on
                              /\ probe'[w][p].known = probe[w][p].known
                              /\ probe'[w][p].aux = probe[w][p].aux
                              /\ probe[w][p].failed => probe'[w][p].failed
        BY <4>1, WithErrorIs
      <4> QED
        BY <2>1, <4>2 DEF DiagInv, Valid
    <3> QED
      BY <1>9, <3>1, <3>2 DEF Release
  <2> QED
    BY <2>1, <2>2 DEF DiagInv
<1>10. CASE Capture(w)
  BY <1>10, <1>t DEF Capture, Goto, DiagInv, callVars, stmtVars, diagVars
<1>11. CASE Notify(w)
  <2>1. PICK b \in BOOLEAN : Continue(w, b)
    BY <1>11 DEF Notify
  <2>2. pc'[w] \in {"idle", "deferred", "unwind", "body"} /\ ~collector'[w]
    BY <1>11, <1>t, <2>1 DEF Notify, Continue, Goto, DiagInv
  <2> QED
    BY <2>2 DEF DiagInv
<1>12. CASE Begin(w)
  <2>1. pc[w] = "execute" /\ pc'[w] = "record" /\ ~collector[w]
    BY <1>12, <1>t DEF Begin, Goto, DiagInv, DML
  <2>2. probe' = probe /\ collector' = collector
    BY <1>12 DEF Begin, diagVars
  <2>3. \A p \in Probes : ~probe[w][p].known /\ (probe[w][p].on => probe[w][p].failed)
    BY <2>1 DEF DiagInv
  <2> QED
    BY <2>1, <2>2, <2>3 DEF DiagInv, Valid
<1>13. CASE CallbackStatement(w)
  <2>1. PICK k \in DML \cup Control, s \in Setting : Observe(w, k, s) /\ k \in DML
    BY <1>13, SettingsAssumption DEF CallbackStatement, TypeOK, DML, Control, callVars
  <2>2. probe'[w] = Requested(s, k) /\ kind'[w] = k
    BY <2>1, Observed
  <2>3. collector' = collector /\ ~collector[w]
    BY <1>13 DEF CallbackStatement, DiagInv
  <2>4. pc'[w] = "prepare"
    BY <1>13, <1>t DEF CallbackStatement, Goto
  <2>5. \A p \in Probes : ~Requested(s, k)[p].known
    BY RequestedIs
  <2>6. Requested(s, k)["ru"].on /\ Requested(s, k)["warnings"].on => Requested(s, k)["warnings"].failed
    BY RequestedIs
  <2> QED
    BY <2>2, <2>3, <2>4, <2>5, <2>6 DEF DiagInv
<1>14. CASE CallbackReturns(w)
  <2>1. PICK k \in DML \cup Control, s \in Setting : Observe(w, k, s) /\ k \in {"commit", "rollback"}
    BY <1>14, SettingsAssumption DEF CallbackReturns, TypeOK, DML, Control
  <2>2. probe'[w] = Requested(s, k) /\ kind'[w] = k
    BY <2>1, Observed
  <2>3. collector' = collector /\ ~collector[w]
    BY <1>14 DEF CallbackReturns, DiagInv
  <2>4. pc'[w] = "execute"
    BY <1>14, <1>t DEF CallbackReturns, Goto
  <2>5. \A p \in Probes : ~Requested(s, k)[p].known
    BY RequestedIs
  <2>6. Requested(s, k)["ru"].on /\ Requested(s, k)["warnings"].on => Requested(s, k)["warnings"].failed
    BY RequestedIs
  <2>7. \A p \in Probes : ~Requested(s, k)[p].on
    BY <2>1, RequestedIs DEF DML
  <2> QED
    BY <2>2, <2>3, <2>4, <2>5, <2>6, <2>7 DEF DiagInv
<1>15. CASE Unwind(w)
  <2>1. PICK k \in DML \cup Control, s \in Setting : Observe(w, k, s) /\ k = "rollback"
    BY <1>15, SettingsAssumption DEF Unwind, TypeOK, DML, Control
  <2>2. probe'[w] = Requested(s, k) /\ kind'[w] = k
    BY <2>1, Observed
  <2>3. collector' = collector /\ ~collector[w]
    BY <1>15 DEF Unwind, DiagInv
  <2>4. pc'[w] = "execute"
    BY <1>15, <1>t DEF Unwind, Goto
  <2>5. \A p \in Probes : ~Requested(s, k)[p].known
    BY RequestedIs
  <2>6. Requested(s, k)["ru"].on /\ Requested(s, k)["warnings"].on => Requested(s, k)["warnings"].failed
    BY RequestedIs
  <2>7. \A p \in Probes : ~Requested(s, k)[p].on
    BY <2>1, RequestedIs DEF DML
  <2> QED
    BY <2>2, <2>3, <2>4, <2>5, <2>6, <2>7 DEF DiagInv
<1>16. CASE Commit(w)
  <2>1. pc[w] = "execute" /\ pc'[w] = "record" /\ ~collector[w]
    BY <1>16, <1>t DEF Commit, Goto, DiagInv, DML
  <2>2. probe' = probe /\ collector' = collector
    BY <1>16 DEF Commit, diagVars
  <2>3. \A p \in Probes : ~probe[w][p].known /\ (probe[w][p].on => probe[w][p].failed)
    BY <2>1 DEF DiagInv
  <2> QED
    BY <2>1, <2>2, <2>3 DEF DiagInv, Valid
<1>17. CASE Rollback(w)
  <2>1. pc[w] = "execute" /\ pc'[w] = "record" /\ ~collector[w]
    BY <1>17, <1>t DEF Rollback, Goto, DiagInv, DML
  <2>2. probe' = probe /\ collector' = collector
    BY <1>17 DEF Rollback, diagVars
  <2>3. \A p \in Probes : ~probe[w][p].known /\ (probe[w][p].on => probe[w][p].failed)
    BY <2>1 DEF DiagInv
  <2> QED
    BY <2>1, <2>2, <2>3 DEF DiagInv, Valid
<1>18. CASE Deferred(w)
  BY <1>18, <1>t DEF Deferred, Goto, End, DiagInv, callVars, stmtVars, diagVars
<1>19. CASE Cancel(w)
  BY <1>19, <1>t DEF Cancel, DiagInv, callVars, stmtVars, diagVars
<1>20. CASE AwaitDone(w)
  BY <1>20, <1>t DEF AwaitDone, DiagInv, callVars, stmtVars, diagVars
<1>21. CASE Closed(w)
  BY <1>21, <1>t DEF Closed, DiagInv, callVars, stmtVars, diagVars
<1> QED
  BY <1>1, <1>2, <1>3, <1>4, <1>5, <1>6, <1>7, <1>8, <1>9, <1>10, <1>11, <1>12, <1>13, <1>14,
     <1>15, <1>16, <1>17, <1>18, <1>19, <1>20, <1>21 DEF Acts, Start, Proceed

\* Every statement that is attempted reaches the server, unless its context has ended.
NothingRejected == "reject" \notin Faults

LEMMA SessionStep ==
    ASSUME NothingRejected, TypeOK, NEW w \in Workers, PlaceInv(w), TxInv(w), DiagInv(w),
           SessionInv(w), Acts(w)
    PROVE  SessionInv(w)'
<1>t. /\ pc \in [Workers -> PCs] /\ cancelled \in [Workers -> BOOLEAN]
      /\ txc \in [Workers -> MaybeConn] /\ pin \in [Workers -> MaybeConn]
      /\ probe \in [Workers -> [Probes -> Observation]] /\ last \in [Conns -> Ids \cup {NoId}]
  BY DEF TypeOK
<1>1. CASE StartTerminal(w)
  BY <1>1, <1>t DEF StartTerminal, Goto, SessionInv
<1>2. CASE StartTransaction(w)
  BY <1>2, <1>t DEF StartTransaction, Goto, SessionInv
<1>3. CASE Prepare(w)
  BY <1>3, <1>t DEF Prepare, Goto, SessionInv
<1>4. CASE ExecuteSucceeds(w)
  <2>1. pc[w] = "execute" /\ kind[w] \in DML /\ pc'[w] \in {"rows", "collect"}
    BY <1>4, <1>t DEF ExecuteSucceeds, Goto
  <2>2. /\ Me(w)' = Me(w) /\ Session(w)' = Session(w) /\ cancelled' = cancelled
        /\ Session(w) # NoConn => Targets(w) = {Session(w)} /\ Session(w) \in Conns
    BY <1>4, <1>t DEF ExecuteSucceeds, Me, Session, InTx, Targets, MaybeConn, callVars,
       stmtVars, diagVars, txVars
  <2>3. Session(w) # NoConn => last'[Session(w)] = Me(w)
    BY <1>4, <1>t, <2>2 DEF ExecuteSucceeds, Ran
  <2> QED
    BY <2>1, <2>2, <2>3 DEF SessionInv
<1>5. CASE ExecuteFails(w)
  <2>1. pc[w] = "execute" /\ kind[w] \in DML /\ pc'[w] \in {"rows", "collect"}
    BY <1>5, <1>t DEF ExecuteFails, Goto
  <2>2. /\ Me(w)' = Me(w) /\ Session(w)' = Session(w) /\ cancelled' = cancelled
        /\ Session(w) # NoConn => Targets(w) = {Session(w)} /\ Session(w) \in Conns
    BY <1>5, <1>t DEF ExecuteFails, Me, Session, InTx, Targets, MaybeConn, callVars, stmtVars,
       diagVars, txVars
  <2>3. InTx(w) /\ txDone[w] => cancelled[w]
    BY <2>1 DEF TxInv, Busy, Ending, DML
  <2>4. Session(w) # NoConn /\ ~cancelled[w] => last'[Session(w)] = Me(w)
    <3>1. CASE \E c \in Targets(w) : Ran(w, c)
      BY <1>t, <2>2, <3>1 DEF Ran
    <3>2. CASE cancelled[w] \/ (InTx(w) /\ txDone[w])
      BY <2>3, <3>2
    <3> QED
      BY <1>5, <3>1, <3>2 DEF ExecuteFails, NothingRejected, May
  <2> QED
    BY <2>1, <2>2, <2>4 DEF SessionInv
<1>6. CASE CloseRows(w)
  <2>1. /\ Me(w)' = Me(w) /\ Session(w)' = Session(w) /\ cancelled' = cancelled
        /\ last' = last /\ collector' = collector /\ probe' = probe
    BY <1>6 DEF CloseRows, Me, Session, InTx, callVars, stmtVars, diagVars, txVars
  <2>2. pc[w] = "rows" /\ pc'[w] = "collect"
    BY <1>6, <1>t DEF CloseRows, Goto
  <2> QED
    BY <2>1, <2>2 DEF SessionInv
<1>7. CASE ScanPanics(w)
  BY <1>7, <1>t DEF ScanPanics, Goto, SessionInv
<1>8. CASE Collect(w)
  <2>1. pc[w] = "collect" /\ pc'[w] = "release" /\ Me(w)' = Me(w)
    BY <1>8, <1>t DEF Collect, Goto, Me, stmtVars
  <2>2. \A p \in Probes : ~probe[w][p].known
    BY <2>1 DEF DiagInv
  <2>3. ASSUME NEW p \in Probes, collector[w], ProbeSession(w, p)
        PROVE  \A q \in Probes : probe'[w][q].known => probe'[w][q].of = Me(w)
    <3>1. \A q \in Probes \ {p} : probe'[w][q] = probe[w][q]
      BY <2>3, ProbedIs
    <3>2. probe'[w][p].known => ~cancelled[w] /\ Session(w) \in Conns /\ probe'[w][p].of = last[Session(w)]
      BY <2>2, <2>3, ProbedIs
    <3>3. ~cancelled[w] /\ Session(w) \in Conns => last[Session(w)] = Me(w)
      BY <2>1, <2>3, PoolAssumption DEF SessionInv
    <3> QED
      BY <2>2, <3>1, <3>2, <3>3
  <2>4. \A q \in Probes : probe'[w][q].known => probe'[w][q].of = Me(w)
    <3>1. CASE probe' = probe
      BY <2>2, <3>1
    <3>2. CASE collector[w] /\ \E p \in Probes : ProbeSession(w, p)
      BY <2>3, <3>2
    <3>3. CASE probe' = [probe EXCEPT ![w]["warnings"].failed = TRUE]
      <4>1. /\ probe'[w]["ru"] = probe[w]["ru"]
            /\ probe'[w]["warnings"].known = probe[w]["warnings"].known
        BY <3>3, FailedIs
      <4> QED
        BY <2>2, <4>1 DEF Probes
    <3> QED
      BY <1>8, <3>1, <3>2, <3>3 DEF Collect, Probes
  <2> QED
    BY <2>1, <2>4 DEF SessionInv
<1>9. CASE Release(w)
  <2>1. pc[w] = "release" /\ pc'[w] = "record" /\ Me(w)' = Me(w)
    BY <1>9, <1>t DEF Release, Goto, Me, stmtVars
  <2>2. \A p \in Probes : probe'[w][p].known = probe[w][p].known /\ probe'[w][p].of = probe[w][p].of
    <3>1. CASE probe' = probe
      BY <3>1
    <3>2. CASE probe' = [probe EXCEPT ![w] = WithError(probe[w])]
      <4>1. probe'[w] = WithError(probe[w]) /\ probe[w] \in [Probes -> Observation]
        BY <1>t, <3>2
      <4> QED
        BY <4>1, WithErrorIs
    <3> QED
      BY <1>9, <3>1, <3>2 DEF Release
  <2> QED
    BY <2>1, <2>2 DEF SessionInv
<1>10. CASE Capture(w)
  <2>1. /\ Me(w)' = Me(w) /\ Session(w)' = Session(w) /\ cancelled' = cancelled
        /\ last' = last /\ collector' = collector /\ probe' = probe
    BY <1>10 DEF Capture, Me, Session, InTx, callVars, stmtVars, diagVars, txVars
  <2>2. pc[w] = "record" /\ pc'[w] = "notify"
    BY <1>10, <1>t DEF Capture, Goto
  <2> QED
    BY <2>1, <2>2 DEF SessionInv
<1>11. CASE Notify(w)
  <2>1. PICK b \in BOOLEAN : Continue(w, b)
    BY <1>11 DEF Notify
  <2>2. pc'[w] \in {"idle", "deferred", "unwind", "body"}
    BY <1>11, <1>t, <2>1 DEF Notify, Continue, Goto
  <2> QED
    BY <2>2 DEF SessionInv
<1>12. CASE Begin(w)
  <2>1. pc[w] = "execute" /\ pc'[w] = "record" /\ probe' = probe
    BY <1>12, <1>t DEF Begin, Goto, diagVars
  <2> QED
    BY <2>1 DEF SessionInv, DiagInv
<1>13. CASE CallbackStatement(w)
  BY <1>13, <1>t DEF CallbackStatement, Goto, SessionInv
<1>14. CASE CallbackReturns(w)
  BY <1>14, <1>t DEF CallbackReturns, Goto, SessionInv
<1>15. CASE Unwind(w)
  BY <1>15, <1>t DEF Unwind, Goto, SessionInv
<1>16. CASE Commit(w)
  <2>1. pc[w] = "execute" /\ pc'[w] = "record" /\ probe' = probe
    BY <1>16, <1>t DEF Commit, Goto, diagVars
  <2> QED
    BY <2>1 DEF SessionInv, DiagInv
<1>17. CASE Rollback(w)
  <2>1. pc[w] = "execute" /\ pc'[w] = "record" /\ probe' = probe
    BY <1>17, <1>t DEF Rollback, Goto, diagVars
  <2> QED
    BY <2>1 DEF SessionInv, DiagInv
<1>18. CASE Deferred(w)
  BY <1>18, <1>t DEF Deferred, Goto, SessionInv
<1>19. CASE Cancel(w)
  <2>1. cancelled'[w] /\ Me(w)' = Me(w) /\ probe' = probe /\ pc' = pc
    BY <1>19, <1>t DEF Cancel, Me, stmtVars, diagVars
  <2> QED
    BY <2>1 DEF SessionInv
<1>20. CASE AwaitDone(w)
  <2>1. /\ Me(w)' = Me(w) /\ Session(w)' = Session(w) /\ cancelled' = cancelled
        /\ last' = last /\ collector' = collector /\ probe' = probe
    BY <1>20 DEF AwaitDone, Me, Session, InTx, callVars, stmtVars, diagVars
  <2>2. pc' = pc
    BY <1>20, <1>t DEF AwaitDone, Goto
  <2> QED
    BY <2>1, <2>2 DEF SessionInv
<1>21. CASE Closed(w)
  <2>1. /\ Me(w)' = Me(w) /\ cancelled' = cancelled /\ pc' = pc /\ last' = last
        /\ collector' = collector /\ probe' = probe
    BY <1>21 DEF Closed, Me, stmtVars, diagVars
  <2>2. Session(w)' \in {Session(w), NoConn}
    BY <1>21, <1>t DEF Closed, Session, InTx, callVars, diagVars
  <2> QED
    BY <2>1, <2>2 DEF SessionInv
<1> QED
  BY <1>1, <1>2, <1>3, <1>4, <1>5, <1>6, <1>7, <1>8, <1>9, <1>10, <1>11, <1>12, <1>13, <1>14,
     <1>15, <1>16, <1>17, <1>18, <1>19, <1>20, <1>21 DEF Acts, Start, Proceed

\* A worker runs statements and probes on connections that are its own or free.
LEMMA LastStep ==
    ASSUME TypeOK, NEW w \in Workers, Acts(w), NEW c \in Conns, c \notin Holds(w), c \notin free
    PROVE  last'[c] = last[c]
<1>t. last \in [Conns -> Ids \cup {NoId}]
  BY DEF TypeOK
<1>1. ASSUME NEW d \in Targets(w), Ran(w, d)
      PROVE  last'[c] = last[c]
  <2>1. d # c
    BY <1>1, PoolAssumption DEF Targets, Holds
  <2> QED
    BY <1>t, <1>1, <2>1 DEF Ran
<1>2. ASSUME NEW p \in Probes, ProbeSession(w, p)
      PROVE  last'[c] = last[c]
  <2>1. Session(w) # c
    BY PoolAssumption DEF Session, Holds
  <2> QED
    BY <1>2, <2>1, ProbedIs
<1>3. CASE StartTerminal(w)
  BY <1>3 DEF StartTerminal
<1>4. CASE StartTransaction(w)
  BY <1>4 DEF StartTransaction
<1>5. CASE Prepare(w)
  BY <1>5 DEF Prepare
<1>6. CASE ExecuteSucceeds(w)
  BY <1>6, <1>1 DEF ExecuteSucceeds
<1>7. CASE ExecuteFails(w)
  BY <1>7, <1>1 DEF ExecuteFails
<1>8. CASE CloseRows(w)
  BY <1>8 DEF CloseRows
<1>9. CASE ScanPanics(w)
  BY <1>9 DEF ScanPanics
<1>10. CASE Collect(w)
  BY <1>10, <1>2 DEF Collect, Probes
<1>11. CASE Release(w)
  BY <1>11 DEF Release
<1>12. CASE Capture(w)
  BY <1>12 DEF Capture
<1>13. CASE Notify(w)
  BY <1>13 DEF Notify
<1>14. CASE Begin(w)
  BY <1>14 DEF Begin
<1>15. CASE CallbackStatement(w)
  BY <1>15 DEF CallbackStatement
<1>16. CASE CallbackReturns(w)
  BY <1>16 DEF CallbackReturns
<1>17. CASE Unwind(w)
  BY <1>17 DEF Unwind
<1>18. CASE Commit(w)
  BY <1>18 DEF Commit
<1>19. CASE Rollback(w)
  BY <1>19 DEF Rollback
<1>20. CASE Deferred(w)
  BY <1>20 DEF Deferred
<1>21. CASE Cancel(w)
  BY <1>21 DEF Cancel
<1>22. CASE AwaitDone(w)
  BY <1>22 DEF AwaitDone
<1>23. CASE Closed(w)
  BY <1>23 DEF Closed
<1> QED
  BY <1>3, <1>4, <1>5, <1>6, <1>7, <1>8, <1>9, <1>10, <1>11, <1>12, <1>13, <1>14, <1>15, <1>16,
     <1>17, <1>18, <1>19, <1>20, <1>21, <1>22, <1>23 DEF Acts, Start, Proceed

LEMMA OtherSession ==
    ASSUME TypeOK, NEW w \in Workers, Acts(w), Disjoint, Ledger, NEW v \in Workers \ {w},
           SessionInv(v)
    PROVE  SessionInv(v)'
<1>1. Same(v)
  BY OthersStay
<1>2. Me(v)' = Me(v) /\ Session(v)' = Session(v)
  BY <1>1 DEF Same, Me, Session, InTx
<1>3. Session(v) # NoConn => last'[Session(v)] = last[Session(v)]
  <2>1. SUFFICES ASSUME Session(v) # NoConn
                 PROVE  last'[Session(v)] = last[Session(v)]
    OBVIOUS
  <2>2. Session(v) \in Conns /\ Session(v) \in Holds(v)
    BY <2>1 DEF Session, Holds, TypeOK, MaybeConn
  <2>3. Session(v) \notin free
    BY <2>2 DEF Ledger, InPool
  <2>4. Session(v) \notin Holds(w)
    BY <2>2 DEF Disjoint
  <2> QED
    BY <2>2, <2>3, <2>4, LastStep
<1> QED
  BY <1>1, <1>2, <1>3 DEF SessionInv, Same

---------------------------------------------------------------------------
(* Deliveries.                                                             *)

LEMMA DeliveryStep ==
    ASSUME TypeOK, NEW w \in Workers, PlaceInv(w), TxInv(w), DeliveryInv(w), Acts(w)
    PROVE  DeliveryInv(w)'
<1>t. /\ pc \in [Workers -> PCs] /\ delivered \in [Ids -> Nat] /\ count[w] \in Nat
      /\ MaxStatements[w] \in Nat
  BY BoundsAssumption DEF TypeOK
<1>p. PlaceInv(w)'
  BY PlaceStep
<1>1. CASE StartTerminal(w)
  <2>1. PICK k \in DML \cup Control, s \in Setting : Observe(w, k, s)
    BY <1>1, SettingsAssumption DEF StartTerminal, TypeOK, DML, Control
  <2>2. count'[w] = count[w] + 1 /\ delivered' = delivered
    BY <1>1, <2>1, Observed DEF StartTerminal, sinkVars
  <2>3. count'[w] \in 1 .. MaxStatements[w] /\ pc'[w] \in {"prepare", "execute"}
    BY <1>1, <1>t, <1>p, <2>2 DEF StartTerminal, Goto, PlaceInv
  <2> QED
    BY <1>t, <2>2, <2>3 DEF DeliveryInv, Me, Returned, InFlight
<1>2. CASE StartTransaction(w)
  <2>1. PICK k \in DML \cup Control, s \in Setting : Observe(w, k, s)
    BY <1>2, SettingsAssumption DEF StartTransaction, TypeOK, DML, Control
  <2>2. count'[w] = count[w] + 1 /\ delivered' = delivered
    BY <1>2, <2>1, Observed DEF StartTransaction, sinkVars
  <2>3. count'[w] \in 1 .. MaxStatements[w] /\ pc'[w] \in {"prepare", "execute"}
    BY <1>2, <1>t, <1>p, <2>2 DEF StartTransaction, Goto, PlaceInv
  <2> QED
    BY <1>t, <2>2, <2>3 DEF DeliveryInv, Me, Returned, InFlight
<1>3. CASE Prepare(w)
  <2>1. delivered' = delivered /\ count' = count /\ setting' = setting
    BY <1>3 DEF Prepare, callVars, stmtVars, sinkVars
  <2>2. pc[w] \in InFlight /\ pc'[w] \in InFlight \cup {"notify"}
    BY <1>3, <1>t DEF Prepare, Goto, InFlight
  <2> QED
    BY <2>1, <2>2 DEF DeliveryInv, Me, Returned, InFlight
<1>4. CASE ExecuteSucceeds(w)
  <2>1. delivered' = delivered /\ count' = count /\ setting' = setting
    BY <1>4 DEF ExecuteSucceeds, callVars, stmtVars, sinkVars
  <2>2. pc[w] \in InFlight /\ pc'[w] \in InFlight \cup {"notify"}
    BY <1>4, <1>t DEF ExecuteSucceeds, Goto, InFlight
  <2> QED
    BY <2>1, <2>2 DEF DeliveryInv, Me, Returned, InFlight
<1>5. CASE ExecuteFails(w)
  <2>1. delivered' = delivered /\ count' = count /\ setting' = setting
    BY <1>5 DEF ExecuteFails, callVars, stmtVars, sinkVars
  <2>2. pc[w] \in InFlight /\ pc'[w] \in InFlight \cup {"notify"}
    BY <1>5, <1>t DEF ExecuteFails, Goto, InFlight
  <2> QED
    BY <2>1, <2>2 DEF DeliveryInv, Me, Returned, InFlight
<1>6. CASE CloseRows(w)
  <2>1. delivered' = delivered /\ count' = count /\ setting' = setting
    BY <1>6 DEF CloseRows, callVars, stmtVars, sinkVars
  <2>2. pc[w] \in InFlight /\ pc'[w] \in InFlight \cup {"notify"}
    BY <1>6, <1>t DEF CloseRows, Goto, InFlight
  <2> QED
    BY <2>1, <2>2 DEF DeliveryInv, Me, Returned, InFlight
<1>7. CASE ScanPanics(w)
  <2>1. delivered' = delivered /\ count' = count /\ May("scan") /\ pc'[w] \in {"unwind", "idle"}
    BY <1>7, <1>t DEF ScanPanics, Goto, stmtVars, sinkVars
  <2> QED
    BY <2>1 DEF DeliveryInv, Me, Returned, InFlight
<1>8. CASE Collect(w)
  <2>1. delivered' = delivered /\ count' = count /\ setting' = setting
    BY <1>8 DEF Collect, callVars, stmtVars, sinkVars
  <2>2. pc[w] \in InFlight /\ pc'[w] \in InFlight \cup {"notify"}
    BY <1>8, <1>t DEF Collect, Goto, InFlight
  <2> QED
    BY <2>1, <2>2 DEF DeliveryInv, Me, Returned, InFlight
<1>9. CASE Release(w)
  <2>1. delivered' = delivered /\ count' = count /\ setting' = setting
    BY <1>9 DEF Release, callVars, stmtVars, sinkVars
  <2>2. pc[w] \in InFlight /\ pc'[w] \in InFlight \cup {"notify"}
    BY <1>9, <1>t DEF Release, Goto, InFlight
  <2> QED
    BY <2>1, <2>2 DEF DeliveryInv, Me, Returned, InFlight
<1>10. CASE Capture(w)
  <2>1. delivered' = delivered /\ count' = count /\ setting' = setting
    BY <1>10 DEF Capture, callVars, stmtVars
  <2>2. pc[w] \in InFlight /\ pc'[w] \in InFlight \cup {"notify"}
    BY <1>10, <1>t DEF Capture, Goto, InFlight
  <2> QED
    BY <2>1, <2>2 DEF DeliveryInv, Me, Returned, InFlight
<1>11. CASE Notify(w)
  <2>1. PICK b \in BOOLEAN : Continue(w, b)
    BY <1>11 DEF Notify
  <2>2. pc'[w] \in {"idle", "deferred", "unwind", "body"} /\ pc[w] = "notify" /\ count' = count
        /\ setting' = setting
    BY <1>11, <1>t, <2>1 DEF Notify, Continue, Goto, stmtVars
  <2>3. Me(w) \in Ids /\ Me(w) = <<w, count[w]>> /\ delivered[Me(w)] = 0
    BY <2>2, NameIs DEF Busy, Me, DeliveryInv, InFlight
  <2>4. delivered' = IF setting[w].observer THEN [delivered EXCEPT ![Me(w)] = 1] ELSE delivered
    BY <1>11, <1>t, <2>3 DEF Notify
  <2>5. \A n \in 1 .. MaxStatements[w] :
           delivered'[<<w, n>>] = IF n = count[w] /\ setting[w].observer THEN 1
                                  ELSE delivered[<<w, n>>]
    BY <1>t, <2>3, <2>4, Names
  <2>6. count[w] \in 1 .. MaxStatements[w]
    BY <1>t, <2>2 DEF PlaceInv, Busy
  <2> QED
    BY <1>t, <2>2, <2>3, <2>5, <2>6 DEF DeliveryInv, Me, Returned, InFlight
<1>12. CASE Begin(w)
  <2>1. delivered' = delivered /\ count' = count /\ setting' = setting
    BY <1>12 DEF Begin, callVars, stmtVars, sinkVars
  <2>2. pc[w] \in InFlight /\ pc'[w] \in InFlight \cup {"notify"}
    BY <1>12, <1>t DEF Begin, Goto, InFlight
  <2> QED
    BY <2>1, <2>2 DEF DeliveryInv, Me, Returned, InFlight
<1>13. CASE CallbackStatement(w)
  <2>1. PICK k \in DML \cup Control, s \in Setting : Observe(w, k, s)
    BY <1>13, SettingsAssumption DEF CallbackStatement, TypeOK, DML, Control, callVars
  <2>2. count'[w] = count[w] + 1 /\ delivered' = delivered
    BY <1>13, <2>1, Observed DEF CallbackStatement, sinkVars
  <2>3. count'[w] \in 1 .. MaxStatements[w] /\ pc'[w] \in {"prepare", "execute"}
    BY <1>13, <1>t, <1>p, <2>2 DEF CallbackStatement, Goto, PlaceInv
  <2> QED
    BY <1>t, <2>2, <2>3 DEF DeliveryInv, Me, Returned, InFlight
<1>14. CASE CallbackReturns(w)
  <2>1. PICK k \in DML \cup Control, s \in Setting : Observe(w, k, s)
    BY <1>14, SettingsAssumption DEF CallbackReturns, TypeOK, DML, Control
  <2>2. count'[w] = count[w] + 1 /\ delivered' = delivered
    BY <1>14, <2>1, Observed DEF CallbackReturns, sinkVars
  <2>3. count'[w] \in 1 .. MaxStatements[w] /\ pc'[w] \in {"prepare", "execute"}
    BY <1>14, <1>t, <1>p, <2>2 DEF CallbackReturns, Goto, PlaceInv
  <2> QED
    BY <1>t, <2>2, <2>3 DEF DeliveryInv, Me, Returned, InFlight
<1>15. CASE Unwind(w)
  <2>1. PICK k \in DML \cup Control, s \in Setting : Observe(w, k, s)
    BY <1>15, SettingsAssumption DEF Unwind, TypeOK, DML, Control
  <2>2. count'[w] = count[w] + 1 /\ delivered' = delivered
    BY <1>15, <2>1, Observed DEF Unwind, sinkVars
  <2>3. count'[w] \in 1 .. MaxStatements[w] /\ pc'[w] \in {"prepare", "execute"}
    BY <1>15, <1>t, <1>p, <2>2 DEF Unwind, Goto, PlaceInv
  <2> QED
    BY <1>t, <2>2, <2>3 DEF DeliveryInv, Me, Returned, InFlight
<1>16. CASE Commit(w)
  <2>1. delivered' = delivered /\ count' = count /\ setting' = setting
    BY <1>16 DEF Commit, callVars, stmtVars, sinkVars
  <2>2. pc[w] \in InFlight /\ pc'[w] \in InFlight \cup {"notify"}
    BY <1>16, <1>t DEF Commit, Goto, InFlight
  <2> QED
    BY <2>1, <2>2 DEF DeliveryInv, Me, Returned, InFlight
<1>17. CASE Rollback(w)
  <2>1. delivered' = delivered /\ count' = count /\ setting' = setting
    BY <1>17 DEF Rollback, callVars, stmtVars, sinkVars
  <2>2. pc[w] \in InFlight /\ pc'[w] \in InFlight \cup {"notify"}
    BY <1>17, <1>t DEF Rollback, Goto, InFlight
  <2> QED
    BY <2>1, <2>2 DEF DeliveryInv, Me, Returned, InFlight
<1>18. CASE Deferred(w)
  <2>1. delivered' = delivered /\ count' = count /\ setting' = setting
    BY <1>18 DEF Deferred, callVars, stmtVars, sinkVars
  <2>2. pc[w] = "deferred" /\ pc'[w] = "idle"
    BY <1>18, <1>t DEF Deferred, Goto, InFlight
  <2> QED
    BY <2>1, <2>2 DEF DeliveryInv, Me, Returned, InFlight
<1>19. CASE Cancel(w)
  <2>1. delivered' = delivered /\ count' = count /\ setting' = setting
    BY <1>19 DEF Cancel, callVars, stmtVars, sinkVars
  <2>2. pc' = pc
    BY <1>19, <1>t DEF Cancel, Goto, InFlight
  <2> QED
    BY <2>1, <2>2 DEF DeliveryInv, Me, Returned, InFlight
<1>20. CASE AwaitDone(w)
  <2>1. delivered' = delivered /\ count' = count /\ setting' = setting
    BY <1>20 DEF AwaitDone, callVars, stmtVars, sinkVars
  <2>2. pc' = pc
    BY <1>20, <1>t DEF AwaitDone, Goto, InFlight
  <2> QED
    BY <2>1, <2>2 DEF DeliveryInv, Me, Returned, InFlight
<1>21. CASE Closed(w)
  <2>1. delivered' = delivered /\ count' = count /\ setting' = setting
    BY <1>21 DEF Closed, callVars, stmtVars, sinkVars
  <2>2. pc' = pc
    BY <1>21, <1>t DEF Closed, Goto, InFlight
  <2> QED
    BY <2>1, <2>2 DEF DeliveryInv, Me, Returned, InFlight
<1> QED
  BY <1>1, <1>2, <1>3, <1>4, <1>5, <1>6, <1>7, <1>8, <1>9, <1>10, <1>11, <1>12, <1>13, <1>14,
     <1>15, <1>16, <1>17, <1>18, <1>19, <1>20, <1>21 DEF Acts, Start, Proceed

LEMMA OtherDelivery ==
    ASSUME TypeOK, NEW w \in Workers, Acts(w), PlaceInv(w), NEW v \in Workers \ {w}, DeliveryInv(v),
           PlaceInv(v)
    PROVE  DeliveryInv(v)'
<1>1. Same(v)
  BY OthersStay
<1>2. \A n \in 1 .. MaxStatements[v] : delivered'[<<v, n>>] = delivered[<<v, n>>]
  <2>1. delivered' = delivered \/ delivered' = [delivered EXCEPT ![Me(w)] = delivered[Me(w)] + 1]
    <3>1. CASE StartTerminal(w)
      BY <3>1 DEF StartTerminal, sinkVars
    <3>2. CASE StartTransaction(w)
      BY <3>2 DEF StartTransaction, sinkVars
    <3>3. CASE Prepare(w)
      BY <3>3 DEF Prepare, sinkVars
    <3>4. CASE ExecuteSucceeds(w)
      BY <3>4 DEF ExecuteSucceeds, sinkVars
    <3>5. CASE ExecuteFails(w)
      BY <3>5 DEF ExecuteFails, sinkVars
    <3>6. CASE CloseRows(w)
      BY <3>6 DEF CloseRows, sinkVars
    <3>7. CASE ScanPanics(w)
      BY <3>7 DEF ScanPanics, sinkVars
    <3>8. CASE Collect(w)
      BY <3>8 DEF Collect, sinkVars
    <3>9. CASE Release(w)
      BY <3>9 DEF Release, sinkVars
    <3>10. CASE Capture(w)
      BY <3>10 DEF Capture
    <3>11. CASE Notify(w)
    BY <3>11 DEF Notify
    <3>12. CASE Begin(w)
      BY <3>12 DEF Begin, sinkVars
    <3>13. CASE CallbackStatement(w)
      BY <3>13 DEF CallbackStatement, sinkVars
    <3>14. CASE CallbackReturns(w)
      BY <3>14 DEF CallbackReturns, sinkVars
    <3>15. CASE Unwind(w)
      BY <3>15 DEF Unwind, sinkVars
    <3>16. CASE Commit(w)
      BY <3>16 DEF Commit, sinkVars
    <3>17. CASE Rollback(w)
      BY <3>17 DEF Rollback, sinkVars
    <3>18. CASE Deferred(w)
      BY <3>18 DEF Deferred, sinkVars
    <3>19. CASE Cancel(w)
      BY <3>19 DEF Cancel, sinkVars
    <3>20. CASE AwaitDone(w)
      BY <3>20 DEF AwaitDone, sinkVars
    <3>21. CASE Closed(w)
      BY <3>21 DEF Closed, sinkVars
    <3> QED
      BY <3>1, <3>2, <3>3, <3>4, <3>5, <3>6, <3>7, <3>8, <3>9, <3>10, <3>11, <3>12, <3>13,
         <3>14, <3>15, <3>16, <3>17, <3>18, <3>19, <3>20, <3>21 DEF Acts, Start, Proceed
  <2>2. \A n : <<v, n>> # Me(w)
    BY DEF Me
  <2>3. \A n \in 1 .. MaxStatements[v] : <<v, n>> \in Ids
    BY Names
  <2>4. delivered \in [Ids -> Nat]
    BY DEF TypeOK
  <2> QED
    BY <2>1, <2>2, <2>3, <2>4
<1>3. pc[v] # "idle" \/ count[v] > 0 => count[v] \in 1 .. MaxStatements[v]
  BY BoundsAssumption DEF PlaceInv, Busy, TypeOK
<1>4. pc[v] \in InFlight \cup {"notify"} => pc[v] # "idle"
  BY DEF InFlight
<1> QED
  BY <1>1, <1>2, <1>3, <1>4 DEF DeliveryInv, Same, Me

---------------------------------------------------------------------------
(* The artifact.                                                           *)

LEMMA ArtifactStays ==
    ASSUME NEW w \in Workers, Acts(w), ~Capture(w)
    PROVE  UNCHANGED <<file, captureErr>>
<1>1. CASE StartTerminal(w)
  BY <1>1 DEF StartTerminal, sinkVars
<1>2. CASE StartTransaction(w)
  BY <1>2 DEF StartTransaction, sinkVars
<1>3. CASE Prepare(w)
  BY <1>3 DEF Prepare, sinkVars
<1>4. CASE ExecuteSucceeds(w)
  BY <1>4 DEF ExecuteSucceeds, sinkVars
<1>5. CASE ExecuteFails(w)
  BY <1>5 DEF ExecuteFails, sinkVars
<1>6. CASE CloseRows(w)
  BY <1>6 DEF CloseRows, sinkVars
<1>7. CASE ScanPanics(w)
  BY <1>7 DEF ScanPanics, sinkVars
<1>8. CASE Collect(w)
  BY <1>8 DEF Collect, sinkVars
<1>9. CASE Release(w)
  BY <1>9 DEF Release, sinkVars
<1>10. CASE Capture(w)
  BY <1>10
<1>11. CASE Notify(w)
  BY <1>11 DEF Notify
<1>12. CASE Begin(w)
  BY <1>12 DEF Begin, sinkVars
<1>13. CASE CallbackStatement(w)
  BY <1>13 DEF CallbackStatement, sinkVars
<1>14. CASE CallbackReturns(w)
  BY <1>14 DEF CallbackReturns, sinkVars
<1>15. CASE Unwind(w)
  BY <1>15 DEF Unwind, sinkVars
<1>16. CASE Commit(w)
  BY <1>16 DEF Commit, sinkVars
<1>17. CASE Rollback(w)
  BY <1>17 DEF Rollback, sinkVars
<1>18. CASE Deferred(w)
  BY <1>18 DEF Deferred, sinkVars
<1>19. CASE Cancel(w)
  BY <1>19 DEF Cancel, sinkVars
<1>20. CASE AwaitDone(w)
  BY <1>20 DEF AwaitDone, sinkVars
<1>21. CASE Closed(w)
  BY <1>21 DEF Closed, sinkVars
<1> QED
  BY <1>1, <1>2, <1>3, <1>4, <1>5, <1>6, <1>7, <1>8, <1>9, <1>10, <1>11, <1>12, <1>13, <1>14,
     <1>15, <1>16, <1>17, <1>18, <1>19, <1>20, <1>21 DEF Acts, Start, Proceed

\* What a capture does to the artifact: nothing, or one more line; an error stays.
LEMMA CaptureIs ==
    ASSUME TypeOK, NEW w \in Workers, PlaceInv(w), Capture(w)
    PROVE  \/ file' = file /\ captureErr' = captureErr /\ (seq[w] = 0 \/ captureErr)
           \/ file' = file /\ captureErr'
           \/ \E r \in Record : /\ file' = Append(file, r) /\ ~captureErr /\ seq[w] # 0
                                /\ r.id = Me(w) /\ r.kind = kind[w] /\ r.failed = failed[w]
                                /\ r.scope = ScopeOf[w] /\ r.seq = seq[w] /\ r.probe = probe[w]
                                /\ ~r.whole => captureErr'
<1>1. ASSUME NEW b \in BOOLEAN, file' = Append(file, RecordOf(w, b)), ~captureErr, seq[w] # 0,
             ~b => captureErr'
      PROVE  \E r \in Record : /\ file' = Append(file, r) /\ ~captureErr /\ seq[w] # 0
                               /\ r.id = Me(w) /\ r.kind = kind[w] /\ r.failed = failed[w]
                               /\ r.scope = ScopeOf[w] /\ r.seq = seq[w] /\ r.probe = probe[w]
                               /\ ~r.whole => captureErr'
  <2>1. PICK r : r = RecordOf(w, b)
    OBVIOUS
  <2>2. Me(w) \in Ids
    BY NameIs DEF Capture, Busy
  <2>3. r \in Record
    BY <1>1, <2>1, <2>2, RecordIs
  <2>4. /\ r.id = Me(w) /\ r.kind = kind[w] /\ r.failed = failed[w] /\ r.scope = ScopeOf[w]
        /\ r.seq = seq[w] /\ r.probe = probe[w] /\ r.whole = b
    BY <2>1 DEF RecordOf
  <2> QED
    BY <1>1, <2>1, <2>3, <2>4
<1>2. TRUE \in BOOLEAN /\ FALSE \in BOOLEAN
  OBVIOUS
<1>3. CASE (seq[w] = 0 \/ captureErr) /\ UNCHANGED <<file, captureErr>>
  BY <1>3
<1>4. CASE seq[w] # 0 /\ ~captureErr /\ file' = Append(file, RecordOf(w, TRUE))
  BY <1>1, <1>2, <1>4
<1>5. CASE seq[w] # 0 /\ ~captureErr /\ file' = file /\ captureErr' = TRUE
  BY <1>5
<1>6. CASE seq[w] # 0 /\ ~captureErr /\ file' = Append(file, RecordOf(w, FALSE)) /\ captureErr' = TRUE
  BY <1>1, <1>2, <1>6
<1> QED
  BY <1>3, <1>4, <1>5, <1>6 DEF Capture

LEMMA FileStep ==
    ASSUME TypeOK, NEW w \in Workers, PlaceInv(w), DiagInv(w), FileInv, Acts(w)
    PROVE  FileInv'
<1>1. CASE ~Capture(w)
  BY <1>1, ArtifactStays DEF FileInv
<1>2. CASE Capture(w)
  <2>1. CASE file' = file /\ (captureErr' = captureErr \/ captureErr')
    BY <2>1 DEF FileInv
  <2>2. ASSUME NEW r \in Record, file' = Append(file, r), ~captureErr, r.probe = probe[w],
               ~r.whole => captureErr'
        PROVE  FileInv'
    <3>1. file \in Seq(Record)
      BY DEF TypeOK
    <3>2. /\ DOMAIN file' = 1 .. Len(file) + 1 /\ Len(file') = Len(file) + 1 /\ Len(file) \in Nat
          /\ DOMAIN file = 1 .. Len(file)
          /\ file'[Len(file) + 1] = r /\ \A j \in DOMAIN file : file'[j] = file[j]
      BY <2>2, <3>1
    <3>3. \A p \in Probes : r.probe[p].on => Valid(r.probe[p])
      BY <1>2, <2>2 DEF Capture, DiagInv
    <3>4. \A j \in DOMAIN file : file[j].whole
      BY <2>2 DEF FileInv
    <3>5. ASSUME NEW j \in DOMAIN file'
          PROVE  j \in DOMAIN file \/ j = Len(file) + 1
      BY <3>2, <3>5
    <3>6. \A j \in DOMAIN file' : j < Len(file') => file'[j].whole
      BY <3>2, <3>4, <3>5
    <3>7. ~captureErr' => \A j \in DOMAIN file' : file'[j].whole
      BY <2>2, <3>2, <3>4, <3>5
    <3>8. \A j \in DOMAIN file' : \A p \in Probes : file'[j].probe[p].on => Valid(file'[j].probe[p])
      BY <3>2, <3>3, <3>5 DEF FileInv
    <3> QED
      BY <3>6, <3>7, <3>8 DEF FileInv
  <2> QED
    BY <1>2, <2>1, <2>2, CaptureIs
<1> QED
  BY <1>1, <1>2

---------------------------------------------------------------------------
(* Sequence numbers.                                                       *)

\* A worker begins a statement, ends its flight in the capture, or does neither.
Begins(w) ==
    /\ pc[w] \notin InFlight /\ pc'[w] \in InFlight
    /\ UNCHANGED <<file, captureErr>>
    /\ \/ /\ scopeSeq' = [scopeSeq EXCEPT ![ScopeOf[w]] = scopeSeq[ScopeOf[w]] + 1]
          /\ seq' = [seq EXCEPT ![w] = scopeSeq[ScopeOf[w]] + 1]
       \/ seq' = [seq EXCEPT ![w] = 0] /\ scopeSeq' = scopeSeq

Quiet(w) ==
    /\ UNCHANGED <<file, captureErr, scopeSeq, seq>>
    /\ \/ pc'[w] \in InFlight <=> pc[w] \in InFlight
       \/ May("scan") /\ pc'[w] \notin InFlight

LEMMA Flights ==
    ASSUME TypeOK, NEW w \in Workers, Acts(w)
    PROVE  Begins(w) \/ Capture(w) \/ Quiet(w)
<1>t. pc \in [Workers -> PCs]
  BY DEF TypeOK
<1>1. CASE StartTerminal(w)
  BY <1>1, <1>t DEF StartTerminal, Observe, Goto, InFlight, Begins, sinkVars
<1>2. CASE StartTransaction(w)
  BY <1>2, <1>t DEF StartTransaction, Observe, Goto, InFlight, Begins, sinkVars
<1>3. CASE Prepare(w)
  BY <1>3, <1>t DEF Prepare, Goto, Quiet, InFlight, stmtVars, sinkVars
<1>4. CASE ExecuteSucceeds(w)
  BY <1>4, <1>t DEF ExecuteSucceeds, Goto, Quiet, InFlight, stmtVars, sinkVars
<1>5. CASE ExecuteFails(w)
  BY <1>5, <1>t DEF ExecuteFails, Goto, Quiet, InFlight, stmtVars, sinkVars
<1>6. CASE CloseRows(w)
  BY <1>6, <1>t DEF CloseRows, Goto, Quiet, InFlight, stmtVars, sinkVars
<1>7. CASE ScanPanics(w)
  BY <1>7, <1>t DEF ScanPanics, Goto, Quiet, InFlight, stmtVars, sinkVars
<1>8. CASE Collect(w)
  BY <1>8, <1>t DEF Collect, Goto, Quiet, InFlight, stmtVars, sinkVars
<1>9. CASE Release(w)
  BY <1>9, <1>t DEF Release, Goto, Quiet, InFlight, stmtVars, sinkVars
<1>10. CASE Capture(w)
  BY <1>10
<1>11. CASE Notify(w)
  <2>1. PICK b \in BOOLEAN : Continue(w, b)
    BY <1>11 DEF Notify
  <2>2. pc'[w] \in {"idle", "deferred", "unwind", "body"} /\ pc[w] = "notify"
    BY <1>11, <1>t, <2>1 DEF Notify, Continue, Goto
  <2> QED
    BY <1>11, <2>2 DEF Notify, Quiet, InFlight, stmtVars
<1>12. CASE Begin(w)
  BY <1>12, <1>t DEF Begin, Goto, Quiet, InFlight, stmtVars, sinkVars
<1>13. CASE CallbackStatement(w)
  BY <1>13, <1>t DEF CallbackStatement, Observe, Goto, InFlight, Begins, sinkVars
<1>14. CASE CallbackReturns(w)
  BY <1>14, <1>t DEF CallbackReturns, Observe, Goto, InFlight, Begins, sinkVars
<1>15. CASE Unwind(w)
  BY <1>15, <1>t DEF Unwind, Observe, Goto, InFlight, Begins, sinkVars
<1>16. CASE Commit(w)
  BY <1>16, <1>t DEF Commit, Goto, Quiet, InFlight, stmtVars, sinkVars
<1>17. CASE Rollback(w)
  BY <1>17, <1>t DEF Rollback, Goto, Quiet, InFlight, stmtVars, sinkVars
<1>18. CASE Deferred(w)
  BY <1>18, <1>t DEF Deferred, Goto, Quiet, InFlight, stmtVars, sinkVars
<1>19. CASE Cancel(w)
  BY <1>19, <1>t DEF Cancel, Goto, Quiet, InFlight, stmtVars, sinkVars
<1>20. CASE AwaitDone(w)
  BY <1>20, <1>t DEF AwaitDone, Goto, Quiet, InFlight, stmtVars, sinkVars
<1>21. CASE Closed(w)
  BY <1>21, <1>t DEF Closed, Goto, Quiet, InFlight, stmtVars, sinkVars
<1> QED
  BY <1>1, <1>2, <1>3, <1>4, <1>5, <1>6, <1>7, <1>8, <1>9, <1>10, <1>11, <1>12, <1>13, <1>14,
     <1>15, <1>16, <1>17, <1>18, <1>19, <1>20, <1>21 DEF Acts, Start, Proceed

LEMMA Appended ==
    ASSUME file \in Seq(Record), NEW r \in Record, file' = Append(file, r)
    PROVE  /\ Len(file) \in Nat /\ Len(file') = Len(file) + 1
           /\ DOMAIN file = 1 .. Len(file) /\ DOMAIN file' = 1 .. Len(file) + 1
           /\ file'[Len(file) + 1] = r
           /\ \A j \in DOMAIN file : j \in DOMAIN file' /\ file'[j] = file[j]
           /\ \A j \in DOMAIN file' : j \in DOMAIN file \/ j = Len(file) + 1
  OBVIOUS

LEMMA AccountedStep ==
    ASSUME TypeOK, NEW w \in Workers, PlaceInv(w), Accounted, Acts(w)
    PROVE  Accounted'
<1>t. /\ pc \in [Workers -> PCs] /\ seq \in [Workers -> Nat] /\ scopeSeq \in [Scopes -> Nat]
      /\ ScopeOf \in [Workers -> Scopes] /\ file \in Seq(Record)
  BY ScopesAssumption DEF TypeOK
<1>l. \A j \in DOMAIN file : file[j].scope \in Scopes /\ file[j].seq \in Nat \ {0}
  <2>1. \A r \in Record : r.scope \in Scopes /\ r.seq \in Nat \ {0}
    BY DEF Record
  <2>2. \A j \in DOMAIN file : file[j] \in Record
    BY <1>t
  <2> QED
    BY <2>1, <2>2
<1>a. /\ \A j \in DOMAIN file : file[j].seq <= scopeSeq[file[j].scope]
      /\ \A v \in Workers : seq[v] <= scopeSeq[ScopeOf[v]]
  BY DEF Accounted
<1>o. \A v \in Workers \ {w} : pc'[v] = pc[v] /\ seq'[v] = seq[v]
  BY OthersStay DEF Same
<1>1. CASE Begins(w)
  <2>1. PICK n \in Nat, s \in Scopes : s = ScopeOf[w] /\ n = scopeSeq[s]
    BY <1>t
  <2>2. CASE scopeSeq' = [scopeSeq EXCEPT ![s] = n + 1] /\ seq' = [seq EXCEPT ![w] = n + 1]
    <3>1. scopeSeq'[s] = n + 1 /\ seq'[w] = n + 1 /\ \A z \in Scopes \ {s} : scopeSeq'[z] = scopeSeq[z]
      BY <1>t, <2>2
    <3>2. file' = file /\ captureErr' = captureErr /\ pc[w] \notin InFlight /\ pc'[w] \in InFlight
      BY <1>1 DEF Begins
    <3>3. \A z \in Scopes, q \in Nat \ {0} : Flying(w, z, q)' <=> z = s /\ q = n + 1
      BY <2>1, <3>1, <3>2 DEF Flying
    <3>4. \A v \in Workers \ {w} : \A z, q : Flying(v, z, q)' <=> Flying(v, z, q)
      BY <1>o DEF Flying
    <3>5. \A j, z, q : Written(j, z, q)' <=> Written(j, z, q)
      BY <3>2 DEF Written
    <3>6. \A j \in DOMAIN file : ~Written(j, s, n + 1)
      BY <1>l, <2>1 DEF Written, Accounted
    <3>7. \A v \in Workers : ~Flying(v, s, n + 1)
      BY <1>t, <2>1 DEF Flying, Accounted
    <3>8. \A v, z, q : ~Flying(w, z, q)
      BY <3>2 DEF Flying
    <3>9. \A j \in DOMAIN file : file[j].seq <= scopeSeq'[file[j].scope]
      <4> TAKE j \in DOMAIN file
      <4>1. PICK z \in Scopes, q \in Nat : z = file[j].scope /\ q = file[j].seq
        BY <1>l
      <4>2. scopeSeq[z] \in Nat /\ q <= scopeSeq[z] /\ (z # s => scopeSeq'[z] = scopeSeq[z])
        BY <1>t, <1>a, <3>1, <4>1
      <4>3. CASE z = s
        BY <2>1, <3>1, <4>1, <4>2, <4>3
      <4>4. CASE z # s
        BY <4>1, <4>2, <4>4
      <4> QED
        BY <4>3, <4>4
    <3>10. \A v \in Workers : seq'[v] <= scopeSeq'[ScopeOf[v]]
      <4> TAKE v \in Workers
      <4>1. PICK z \in Scopes, q \in Nat : z = ScopeOf[v] /\ q = seq[v]
        BY <1>t
      <4>2. scopeSeq[z] \in Nat /\ q <= scopeSeq[z] /\ (z # s => scopeSeq'[z] = scopeSeq[z])
        BY <1>t, <1>a, <3>1, <4>1
      <4>3. v = w => z = s
        BY <2>1, <4>1
      <4>4. v # w => seq'[v] = q
        BY <1>o, <4>1
      <4>5. CASE z = s
        BY <2>1, <3>1, <4>1, <4>2, <4>4, <4>5
      <4>6. CASE z # s
        BY <4>1, <4>2, <4>3, <4>4, <4>6
      <4> QED
        BY <4>5, <4>6
    <3>11. \A z \in Scopes, q \in Nat \ {0} :
              /\ \A v, u \in Workers : Flying(v, z, q)' /\ Flying(u, z, q)' => v = u
              /\ \A v \in Workers, j \in DOMAIN file : ~(Flying(v, z, q)' /\ Written(j, z, q))
      <4> TAKE z \in Scopes, q \in Nat \ {0}
      <4>1. CASE z = s /\ q = n + 1
        BY <3>3, <3>4, <3>6, <3>7, <4>1
      <4>2. CASE ~(z = s /\ q = n + 1)
        BY <3>3, <3>4, <4>2 DEF Accounted
      <4> QED
        BY <4>1, <4>2
    <3>12. ~captureErr /\ ~May("scan") =>
              \A z \in Scopes : \A q \in 1 .. scopeSeq'[z] :
                  \/ \E j \in DOMAIN file : Written(j, z, q)
                  \/ \E v \in Workers : Flying(v, z, q)'
      <4> SUFFICES ASSUME ~captureErr, ~May("scan"), NEW z \in Scopes, NEW q \in 1 .. scopeSeq'[z]
                   PROVE  \/ \E j \in DOMAIN file : Written(j, z, q)
                          \/ \E v \in Workers : Flying(v, z, q)'
        OBVIOUS
      <4>1. CASE z = s /\ q = n + 1
        BY <3>3, <4>1
      <4>2. CASE ~(z = s /\ q = n + 1)
        <5>1. q \in 1 .. scopeSeq[z]
          BY <1>t, <2>1, <3>1, <4>2
        <5> QED
          BY <3>4, <3>8, <5>1 DEF Accounted
      <4> QED
        BY <4>1, <4>2
    <3> QED
      BY <3>2, <3>5, <3>9, <3>10, <3>11, <3>12 DEF Accounted
  <2>3. CASE scopeSeq' = scopeSeq /\ seq' = [seq EXCEPT ![w] = 0]
    <3>2. file' = file /\ captureErr' = captureErr /\ pc[w] \notin InFlight /\ seq'[w] = 0
      BY <1>t, <1>1, <2>3 DEF Begins
    <3>3. \A v \in Workers, z \in Scopes, q \in Nat \ {0} : Flying(v, z, q)' <=> Flying(v, z, q)
      BY <1>o, <3>2 DEF Flying
    <3>4. \A v \in Workers : seq'[v] <= scopeSeq[ScopeOf[v]]
      BY <1>t, <1>o, <3>2 DEF Accounted
    <3>5. \A z \in Scopes : \A q \in 1 .. scopeSeq[z] : q \in Nat \ {0}
      BY <1>t
    <3> QED
      BY <2>3, <3>2, <3>3, <3>4, <3>5 DEF Accounted, Written
  <2> QED
    BY <1>1, <2>1, <2>2, <2>3 DEF Begins
<1>2. CASE Capture(w)
  <2>1. /\ pc[w] = "record" /\ pc'[w] = "notify" /\ seq' = seq /\ scopeSeq' = scopeSeq
    BY <1>2, <1>t DEF Capture, Goto, stmtVars
  <2>2. /\ pc[w] \in InFlight /\ pc'[w] \notin InFlight
        /\ \A v \in Workers \ {w} : \A z, q : Flying(v, z, q)' <=> Flying(v, z, q)
        /\ \A z, q : ~Flying(w, z, q)'
        /\ \A z, q : Flying(w, z, q) <=> z = ScopeOf[w] /\ q = seq[w]
    BY <1>o, <2>1 DEF Flying, InFlight
  <2>3. CASE file' = file /\ captureErr' = captureErr /\ (seq[w] = 0 \/ captureErr)
    <3>1. \A z \in Scopes, q \in Nat \ {0} : ~captureErr => ~Flying(w, z, q)
      BY <2>2, <2>3
    <3>2. \A z \in Scopes : \A q \in 1 .. scopeSeq[z] : q \in Nat \ {0}
      BY <1>t
    <3> QED
      BY <2>1, <2>2, <2>3, <3>1, <3>2 DEF Accounted, Written
  <2>4. CASE file' = file /\ captureErr'
    BY <2>1, <2>2, <2>4 DEF Accounted, Written
  <2>5. ASSUME NEW r \in Record, file' = Append(file, r), ~captureErr, seq[w] # 0,
               r.scope = ScopeOf[w], r.seq = seq[w]
        PROVE  Accounted'
    <3>1. PICK n \in Nat : n = Len(file) + 1
      BY <1>t
    <3>2. /\ DOMAIN file' = DOMAIN file \cup {n} /\ n \notin DOMAIN file /\ file'[n] = r
          /\ \A j \in DOMAIN file : file'[j] = file[j]
      BY <1>t, <2>5, <3>1, Appended
    <3>3. \A j \in DOMAIN file : \A z, q : Written(j, z, q)' <=> Written(j, z, q)
      BY <3>2 DEF Written
    <3>4. \A z, q : Written(n, z, q)' <=> Flying(w, z, q)
      BY <2>2, <2>5, <3>2 DEF Written
    <3>5. \A j \in DOMAIN file' : file'[j].seq <= scopeSeq'[file'[j].scope]
      BY <2>1, <2>5, <3>2 DEF Accounted
    <3>6. \A v \in Workers : seq'[v] <= scopeSeq'[ScopeOf[v]]
      BY <2>1 DEF Accounted
    <3>7. \A z \in Scopes, q \in Nat \ {0} :
              /\ \A i, j \in DOMAIN file' : Written(i, z, q)' /\ Written(j, z, q)' => i = j
              /\ \A v, u \in Workers : Flying(v, z, q)' /\ Flying(u, z, q)' => v = u
              /\ \A v \in Workers, j \in DOMAIN file' : ~(Flying(v, z, q)' /\ Written(j, z, q)')
      BY <2>2, <3>2, <3>3, <3>4 DEF Accounted
    <3>8. ~May("scan") => \A z \in Scopes : \A q \in 1 .. scopeSeq[z] :
              \/ \E j \in DOMAIN file' : Written(j, z, q)'
              \/ \E v \in Workers : Flying(v, z, q)'
      BY <2>2, <2>5, <3>2, <3>3, <3>4 DEF Accounted
    <3> QED
      BY <2>1, <3>5, <3>6, <3>7, <3>8 DEF Accounted
  <2> QED
    BY <1>2, <2>3, <2>4, <2>5, CaptureIs
<1>3. CASE Quiet(w)
  <2>1. /\ file' = file /\ captureErr' = captureErr /\ scopeSeq' = scopeSeq /\ seq' = seq
    BY <1>3 DEF Quiet
  <2>2. \A v \in Workers : \A z, q : Flying(v, z, q)' => Flying(v, z, q)
    BY <1>3, <1>o, <2>1 DEF Flying, Quiet
  <2>3. ~May("scan") => \A v \in Workers : \A z, q : Flying(v, z, q) => Flying(v, z, q)'
    BY <1>3, <1>o, <2>1 DEF Flying, Quiet
  <2> QED
    BY <2>1, <2>2, <2>3 DEF Accounted, Written
<1> QED
  BY <1>1, <1>2, <1>3, Flights

---------------------------------------------------------------------------
(* BEGIN and its end.                                                      *)

\* Only the capture of a BEGIN or of an end changes what is due.
LEMMA BegunStays ==
    ASSUME TypeOK, NEW w \in Workers, PlaceInv(w), HeldInv(w), Acts(w), ~Capture(w)
    PROVE  Begun(w)' = Begun(w)
<1>t. /\ pc \in [Workers -> PCs] /\ call \in [Workers -> {"terminal", "transaction"}]
      /\ seq[w] \in Nat /\ kind[w] \in DML \cup Control
  BY DEF TypeOK
<1> USE DEF Begun, PlaceInv, Busy, InTx, Ending, DML, PCs
<1>1. CASE StartTerminal(w)
  <2>1. PICK k \in DML \cup Control, s \in Setting : Observe(w, k, s) /\ setting'[w] = s /\ k \in DML
    BY <1>1, SettingsAssumption DEF StartTerminal, TypeOK, DML, Control
  <2>2. kind'[w] = k /\ (seq'[w] # 0 <=> s.capture)
    BY <2>1, Observed
  <2> QED
    BY <1>1, <1>t, <2>1, <2>2 DEF StartTerminal, Goto
<1>2. CASE StartTransaction(w)
  <2>1. PICK k \in DML \cup Control, s \in Setting : Observe(w, k, s) /\ setting'[w] = s /\ k = "begin"
    BY <1>2, SettingsAssumption DEF StartTransaction, TypeOK, DML, Control
  <2>2. kind'[w] = k /\ (seq'[w] # 0 <=> s.capture)
    BY <2>1, Observed
  <2> QED
    BY <1>2, <1>t, <2>1, <2>2 DEF StartTransaction, Goto
<1>3. CASE Prepare(w)
  BY <1>3, <1>t DEF Prepare, Goto, callVars, stmtVars
<1>4. CASE ExecuteSucceeds(w)
  BY <1>4, <1>t DEF ExecuteSucceeds, Goto, Ran, callVars, stmtVars
<1>5. CASE ExecuteFails(w)
  BY <1>5, <1>t DEF ExecuteFails, Goto, Ran, callVars, stmtVars
<1>6. CASE CloseRows(w)
  BY <1>6, <1>t DEF CloseRows, Goto, callVars, stmtVars
<1>7. CASE ScanPanics(w)
  BY <1>7, <1>t DEF ScanPanics, Goto, stmtVars
<1>8. CASE Collect(w)
  BY <1>8, <1>t DEF Collect, Goto, ProbeSession, callVars, stmtVars
<1>9. CASE Release(w)
  BY <1>9, <1>t DEF Release, Goto, callVars, stmtVars
<1>10. CASE Capture(w)
  BY <1>10
<1>11. CASE Notify(w)
  <2>1. PICK b \in BOOLEAN : Continue(w, b)
    BY <1>11 DEF Notify
  <2>2. UNCHANGED <<call, kind, seq, failed>> /\ pc[w] = "notify"
    BY <1>11 DEF Notify, stmtVars
  <2>3. kind[w] \in DML \cup Control
    BY DEF TypeOK
  <2>4. CASE ~InTx(w) \/ (kind[w] = "begin" /\ failed[w])
    BY <1>t, <2>1, <2>2, <2>3, <2>4 DEF Continue, Goto, Control
  <2>5. CASE InTx(w) /\ kind[w] \in {"commit", "rollback"}
    BY <1>t, <2>1, <2>2, <2>3, <2>5 DEF Continue, Goto, Control
  <2>6. CASE InTx(w) /\ ~(kind[w] = "begin" /\ failed[w]) /\ kind[w] \notin {"commit", "rollback"}
    BY <1>t, <2>1, <2>2, <2>3, <2>6 DEF Continue, Goto, Control
  <2> QED
    BY <2>4, <2>5, <2>6
<1>12. CASE Begin(w)
  BY <1>12, <1>t DEF Begin, Goto, callVars, stmtVars
<1>13. CASE CallbackStatement(w)
  <2>1. PICK k \in DML \cup Control, s \in Setting : Observe(w, k, s) /\ setting'[w] = s /\ k \in DML
    BY <1>13, SettingsAssumption DEF CallbackStatement, TypeOK, DML, Control, callVars
  <2>2. kind'[w] = k /\ (seq'[w] # 0 <=> s.capture)
    BY <2>1, Observed
  <2>3. s = setting[w] /\ call' = call /\ pc[w] = "body" /\ pc'[w] = "prepare"
    BY <1>13, <1>t, <2>1 DEF CallbackStatement, Goto, callVars
  <2>4. /\ seq[w] # 0 <=> s.capture
        /\ kind[w] \in DML \/ (kind[w] = "begin" /\ ~failed[w])
    BY <1>t, <2>3 DEF Control
  <2> QED
    BY <2>1, <2>2, <2>3, <2>4
<1>14. CASE CallbackReturns(w)
  <2>1. PICK k \in DML \cup Control, s \in Setting : Observe(w, k, s) /\ setting'[w] = s /\ k \in {"commit", "rollback"}
    BY <1>14, SettingsAssumption DEF CallbackReturns, TypeOK, DML, Control
  <2>2. kind'[w] = k /\ (seq'[w] # 0 <=> s.capture)
    BY <2>1, Observed
  <2>3. s = setting[w] /\ call' = call /\ pc[w] = "body" /\ pc'[w] = "execute"
    BY <1>14, <1>t, <2>1 DEF CallbackReturns, Goto
  <2>4. /\ seq[w] # 0 <=> s.capture
        /\ kind[w] \in DML \/ (kind[w] = "begin" /\ ~failed[w])
    BY <1>t, <2>3 DEF Control
  <2> QED
    BY <2>1, <2>2, <2>3, <2>4
<1>15. CASE Unwind(w)
  <2>1. PICK k \in DML \cup Control, s \in Setting : Observe(w, k, s) /\ setting'[w] = s /\ k = "rollback"
    BY <1>15, SettingsAssumption DEF Unwind, TypeOK, DML, Control
  <2>2. kind'[w] = k /\ (seq'[w] # 0 <=> s.capture)
    BY <2>1, Observed
  <2>3. s = setting[w] /\ call' = call /\ pc[w] = "unwind" /\ pc'[w] = "execute"
    BY <1>15, <1>t, <2>1 DEF Unwind, Goto
  <2>4. /\ seq[w] # 0 <=> s.capture
        /\ kind[w] \in DML \/ (kind[w] = "begin" /\ ~failed[w])
    BY <1>t, <2>3 DEF Control
  <2> QED
    BY <2>1, <2>2, <2>3, <2>4
<1>16. CASE Commit(w)
  BY <1>16, <1>t DEF Commit, Goto, End, callVars, stmtVars
<1>17. CASE Rollback(w)
  BY <1>17, <1>t DEF Rollback, Goto, End, callVars, stmtVars
<1>18. CASE Deferred(w)
  BY <1>18, <1>t DEF Deferred, Goto, End, callVars, stmtVars
<1>19. CASE Cancel(w)
  BY <1>19, <1>t DEF Cancel, callVars, stmtVars
<1>20. CASE AwaitDone(w)
  BY <1>20, <1>t DEF AwaitDone, callVars, stmtVars
<1>21. CASE Closed(w)
  BY <1>21, <1>t DEF Closed, callVars, stmtVars
<1> QED
  BY <1>1, <1>2, <1>3, <1>4, <1>5, <1>6, <1>7, <1>8, <1>9, <1>10, <1>11, <1>12, <1>13, <1>14,
     <1>15, <1>16, <1>17, <1>18, <1>19, <1>20, <1>21 DEF Acts, Start, Proceed

LEMMA AlternateStays ==
    ASSUME NEW w \in Workers, Alternate(w), Begun(w)' = Begun(w), Lifecycle(w)' = Lifecycle(w),
           \A j \in Lifecycle(w) : file'[j].kind = file[j].kind
    PROVE  Alternate(w)'
<1>1. \A i, j : Follows(w, i, j)' <=> Follows(w, i, j)
  BY DEF Follows
<1>2. \A i : Newest(w, i)' <=> Newest(w, i)
  BY DEF Newest
<1> QED
  BY <1>1, <1>2 DEF Alternate

\* A line enters the lifecycle of its worker only.
LEMMA LifecycleStep ==
    ASSUME file \in Seq(Record), NEW r \in Record, file' = Append(file, r), NEW v \in Workers
    PROVE  /\ Lifecycle(v)' = IF /\ r.id[1] = v /\ r.kind \in Control
                                 /\ ~(r.kind = "begin" /\ r.failed)
                              THEN Lifecycle(v) \cup {Len(file) + 1} ELSE Lifecycle(v)
           /\ \A j \in Lifecycle(v) : j \in Nat /\ j < Len(file) + 1 /\ file'[j] = file[j]
           /\ file'[Len(file) + 1] = r
  BY Appended DEF Lifecycle

LEMMA AlternateStep ==
    ASSUME TypeOK, NEW w \in Workers, PlaceInv(w), HeldInv(w), Acts(w), ~captureErr',
           NEW v \in Workers, ~captureErr => Alternate(v)
    PROVE  Alternate(v)'
<1>t. /\ file \in Seq(Record) /\ pc \in [Workers -> PCs] /\ kind \in [Workers -> DML \cup Control]
  BY DEF TypeOK
<1>1. CASE ~Capture(w)
  <2>1. UNCHANGED <<file, captureErr>>
    BY <1>1, ArtifactStays
  <2>2. Begun(v)' = Begun(v)
    <3>1. CASE v = w
      BY <1>1, <3>1, BegunStays
    <3>2. CASE v # w
      BY <3>2, OthersStay DEF Same, Begun, Busy, InTx, Ending
    <3> QED
      BY <3>1, <3>2
  <2>3. Lifecycle(v)' = Lifecycle(v)
    BY <2>1 DEF Lifecycle
  <2> QED
    BY <2>1, <2>2, <2>3, AlternateStays
<1>2. CASE Capture(w)
  <2>1. /\ pc[w] = "record" /\ pc'[w] = "notify"
        /\ UNCHANGED <<call, kind, seq, failed>>
    BY <1>2, <1>t DEF Capture, Goto, callVars, stmtVars
  <2>2. v # w => Begun(v)' = Begun(v)
    BY OthersStay DEF Same, Begun, Busy, InTx, Ending
  <2>3. CASE file' = file /\ captureErr' = captureErr /\ (seq[w] = 0 \/ captureErr)
    <3>1. Begun(v)' = Begun(v)
      BY <2>1, <2>2, <2>3 DEF Begun
    <3>2. Lifecycle(v)' = Lifecycle(v)
      BY <2>3 DEF Lifecycle
    <3> QED
      BY <2>3, <3>1, <3>2, AlternateStays
  <2>4. ASSUME NEW r \in Record, file' = Append(file, r), ~captureErr, seq[w] # 0,
               r.id = Me(w), r.kind = kind[w], r.failed = failed[w]
        PROVE  Alternate(v)'
    <3>1. PICK n \in Nat : n = Len(file) + 1
      BY <1>t
    <3>2. /\ Lifecycle(v)' = IF v = w /\ kind[w] \in Control /\ ~(kind[w] = "begin" /\ failed[w])
                             THEN Lifecycle(v) \cup {n} ELSE Lifecycle(v)
          /\ \A j \in Lifecycle(v) : j \in Nat /\ j < n /\ file'[j] = file[j]
          /\ file'[n].kind = kind[w]
      <4>1. r.id[1] = w
        BY <2>4 DEF Me
      <4>2. /\ Lifecycle(v)' = IF r.id[1] = v /\ r.kind \in Control /\ ~(r.kind = "begin" /\ r.failed)
                                THEN Lifecycle(v) \cup {n} ELSE Lifecycle(v)
            /\ \A j \in Lifecycle(v) : j \in Nat /\ j < n /\ file'[j] = file[j]
            /\ file'[n] = r
        BY <1>t, <2>4, <3>1, LifecycleStep
      <4> QED
        BY <2>4, <4>1, <4>2
    <3>3. CASE v # w \/ kind[w] \in DML \/ (kind[w] = "begin" /\ failed[w])
      <4>1. Lifecycle(v)' = Lifecycle(v)
        BY <3>2, <3>3 DEF DML, Control
      <4>2. Begun(v)' = Begun(v)
        BY <2>1, <2>2, <3>3 DEF Begun, Busy, InTx, Ending, DML
      <4> QED
        BY <2>4, <3>2, <4>1, <4>2, AlternateStays
    <3>4. CASE v = w /\ kind[w] = "begin" /\ ~failed[w]
      <4>1. Lifecycle(w)' = Lifecycle(w) \cup {n} /\ Alternate(w)
        BY <2>4, <3>2, <3>4 DEF Control
      <4>2. ~Begun(w) /\ Begun(w)'
        BY <2>1, <2>4, <3>4 DEF Begun, Busy, InTx, Ending, DML, PlaceInv
      <4>3. \A i, j \in Lifecycle(w) : Follows(w, i, j) => Follows(w, i, j)'
        BY <3>2, <3>4, <4>1 DEF Follows
      <4>4. Newest(w, n)'
        BY <3>2, <3>4, <4>1 DEF Newest
      <4>5. \A i \in Lifecycle(w)' : file'[i].kind = "begin" =>
                \/ \E j \in Lifecycle(w)' : file'[j].kind # "begin" /\ Follows(w, i, j)'
                \/ Newest(w, i)' /\ Begun(w)'
        BY <3>2, <3>4, <4>1, <4>2, <4>3, <4>4 DEF Alternate
      <4>6. \A j \in Lifecycle(w)' : file'[j].kind # "begin" =>
                \E i \in Lifecycle(w)' : file'[i].kind = "begin" /\ Follows(w, i, j)'
        BY <3>2, <3>4, <4>1, <4>3 DEF Alternate
      <4> QED
        BY <3>2, <3>4, <4>1, <4>4, <4>5, <4>6 DEF Alternate
    <3>5. CASE v = w /\ kind[w] \in {"commit", "rollback"}
      <4>1. Lifecycle(w)' = Lifecycle(w) \cup {n} /\ Alternate(w)
        BY <2>4, <3>2, <3>5 DEF Control
      <4>2. Begun(w) /\ ~Begun(w)'
        BY <2>1, <2>4, <3>5 DEF Begun, Busy, InTx, Ending, DML, PlaceInv
      <4>3. \A i, j \in Lifecycle(w) : Follows(w, i, j) => Follows(w, i, j)'
        BY <3>2, <3>5, <4>1 DEF Follows
      <4>4. \A i \in Lifecycle(w) : Newest(w, i) => Follows(w, i, n)'
        BY <3>2, <3>5, <4>1 DEF Newest, Follows
      <4>5. \A i \in Lifecycle(w)' : file'[i].kind = "begin" =>
                \E j \in Lifecycle(w)' : file'[j].kind # "begin" /\ Follows(w, i, j)'
        BY <3>2, <3>5, <4>1, <4>3, <4>4 DEF Alternate
      <4>6. \A j \in Lifecycle(w)' : file'[j].kind # "begin" =>
                \E i \in Lifecycle(w)' : file'[i].kind = "begin" /\ Follows(w, i, j)'
        BY <3>2, <3>5, <4>1, <4>2, <4>3, <4>4 DEF Alternate
      <4> QED
        BY <3>5, <4>2, <4>5, <4>6 DEF Alternate
    <3> QED
      BY <1>t, <3>3, <3>4, <3>5 DEF Control
  <2> QED
    BY <1>2, <2>3, <2>4, CaptureIs
<1> QED
  BY <1>1, <1>2

---------------------------------------------------------------------------
(* The invariant.                                                          *)

Own(w) == PlaceInv(w) /\ TxInv(w) /\ HeldInv(w) /\ HandsInv(w) /\ DiagInv(w)

StatementInv ==
    /\ TypeOK
    /\ \A w \in Workers : Own(w) /\ DeliveryInv(w)
    /\ Disjoint /\ Ledger
    /\ FileInv
    /\ Accounted
    /\ ~captureErr => \A w \in Workers : Alternate(w)

LEMMA OthersKeep ==
    ASSUME NEW v \in Workers, Same(v), Own(v)
    PROVE  Own(v)'
<1>1. PlaceInv(v)'
  BY DEF Same, Own, PlaceInv, Busy, InTx, Ending
<1>2. TxInv(v)'
  BY DEF Same, Own, TxInv, Busy, InTx, Ending
<1>3. HeldInv(v)'
  BY DEF Same, Own, HeldInv, InTx
<1>4. DiagInv(v)'
  BY DEF Same, Own, DiagInv
<1>5. HandsInv(v)'
  BY DEF Same, Own, HandsInv, InTx
<1> QED
  BY <1>1, <1>2, <1>3, <1>4, <1>5 DEF Own

LEMMA StatementInit ==
    ASSUME Init
    PROVE  StatementInv /\ \A w \in Workers : SessionInv(w)
<1>1. TypeOK
  <2>1. probe \in [Workers -> [Probes -> Observation]]
    <3>1. [p \in Probes |-> NotAsked] \in [Probes -> Observation]
      BY NotAskedIs
    <3> QED
      BY <3>1 DEF Init
  <2>2. setting \in [Workers -> Setting]
    BY SettingsAssumption DEF Init
  <2>3. kind \in [Workers -> DML \cup Control]
    BY DEF Init, DML
  <2>4. file \in Seq(Record) /\ scopeSeq \in [Scopes -> Nat] /\ delivered \in [Ids -> Nat]
    BY DEF Init
  <2> QED
    BY <2>1, <2>2, <2>3, <2>4 DEF Init, TypeOK, PCs, MaybeConn
<1>2. ASSUME NEW w \in Workers
      PROVE  /\ Own(w) /\ DeliveryInv(w) /\ SessionInv(w) /\ Alternate(w)
             /\ pc[w] = "idle" /\ Holds(w) = {}
  <2>1. /\ pc[w] = "idle" /\ call[w] = "terminal" /\ count[w] = 0 /\ ~collector[w]
        /\ pin[w] = NoConn /\ rows[w] = NoConn /\ txc[w] = NoConn /\ tx[w] = "none"
        /\ MaxStatements[w] \in Nat /\ file = <<>>
    BY BoundsAssumption DEF Init
  <2>2. Own(w)
    BY <2>1 DEF Own, PlaceInv, TxInv, HeldInv, HandsInv, DiagInv, Busy, InTx
  <2>3. DeliveryInv(w)
    <3>1. \A n \in 1 .. MaxStatements[w] : delivered[<<w, n>>] = 0
      BY Names DEF Init
    <3> QED
      BY <2>1, <3>1 DEF DeliveryInv, InFlight
  <2>4. SessionInv(w)
    BY <2>1 DEF SessionInv
  <2>5. Lifecycle(w) = {}
    BY <2>1 DEF Lifecycle
  <2>6. Alternate(w)
    BY <2>1, <2>5 DEF Alternate, Begun, Busy
  <2> QED
    BY <2>1, <2>2, <2>3, <2>4, <2>6 DEF Holds
<1>3. Disjoint /\ Ledger
  BY <1>2 DEF Disjoint, Ledger, InPool, Init
<1>4. file = <<>> /\ DOMAIN file = {}
  BY DEF Init
<1>5. FileInv
  BY <1>4 DEF FileInv
<1>6. Accounted
  <2>1. \A w, s, q : w \in Workers => ~Flying(w, s, q)
    BY <1>2 DEF Flying, InFlight
  <2>2. /\ \A w \in Workers : seq[w] = 0 /\ scopeSeq[ScopeOf[w]] = 0
        /\ \A s \in Scopes : scopeSeq[s] = 0
    BY ScopesAssumption DEF Init
  <2> QED
    BY <1>4, <2>1, <2>2 DEF Accounted
<1> QED
  BY <1>1, <1>2, <1>3, <1>5, <1>6 DEF StatementInv

LEMMA StatementStep ==
    ASSUME StatementInv, [Next]_vars
    PROVE  StatementInv'
<1>1. CASE UNCHANGED vars
  <2>1. /\ \A w \in Workers : Same(w)
        /\ UNCHANGED <<file, captureErr, delivered, scopeSeq, last, free, seq, pc>>
    BY <1>1 DEF vars, callVars, stmtVars, diagVars, txVars, sinkVars, Same
  <2>2. TypeOK'
    BY <1>1 DEF vars, callVars, stmtVars, diagVars, txVars, sinkVars, TypeOK, StatementInv
  <2>3. \A w \in Workers : Own(w)'
    BY <2>1, OthersKeep DEF StatementInv
  <2>4. \A w \in Workers : DeliveryInv(w)'
    BY <2>1 DEF StatementInv, DeliveryInv, Same, Me
  <2>5. Disjoint' /\ Ledger'
    <3>1. \A w \in Workers : Holds(w)' = Holds(w)
      BY <2>1 DEF Holds, Same
    <3> QED
      BY <2>1, <3>1 DEF StatementInv, Disjoint, Ledger, InPool
  <2>6. FileInv' /\ Accounted'
    BY <2>1 DEF StatementInv, FileInv, Accounted, Written, Flying
  <2>7. ASSUME ~captureErr', NEW w \in Workers
        PROVE  Alternate(w)'
    <3>1. Alternate(w)
      BY <2>1, <2>7 DEF StatementInv
    <3>2. Begun(w)' = Begun(w)
      BY <2>1 DEF Begun, Same, Busy, InTx, Ending
    <3>3. Lifecycle(w)' = Lifecycle(w)
      BY <2>1 DEF Lifecycle
    <3> QED
      BY <2>1, <3>1, <3>2, <3>3, AlternateStays
  <2> QED
    BY <2>2, <2>3, <2>4, <2>5, <2>6, <2>7 DEF StatementInv
<1>2. CASE Next
  <2>1. PICK w \in Workers : Acts(w)
    BY <1>2 DEF Next, Acts
  <2>2. /\ TypeOK /\ Disjoint /\ Ledger /\ FileInv /\ Accounted
        /\ PlaceInv(w) /\ TxInv(w) /\ HeldInv(w) /\ HandsInv(w) /\ DiagInv(w) /\ DeliveryInv(w)
        /\ InPool(w)
    BY DEF StatementInv, Own, Ledger
  <2>3. TypeOK' /\ FileInv' /\ Accounted'
    BY <2>1, <2>2, TypeStep, FileStep, AccountedStep
  <2>6. Disjoint' /\ Ledger'
    BY <2>1, <2>2, MoveStep, LedgerStep
  <2>4. ASSUME NEW v \in Workers
        PROVE  Own(v)' /\ DeliveryInv(v)'
    <3>1. CASE v = w
      BY <2>1, <2>2, <3>1, PlaceStep, TxStep, HeldStep, HandsStep, DiagStep,
         DeliveryStep DEF Own
    <3>2. CASE v # w
      <4>1. Same(v)
        BY <2>1, <2>2, <3>2, OthersStay
      <4>2. Own(v) /\ DeliveryInv(v) /\ PlaceInv(v)
        BY DEF StatementInv, Own
      <4> QED
        BY <2>1, <2>2, <3>2, <4>1, <4>2, OthersKeep, OtherDelivery
    <3> QED
      BY <3>1, <3>2
  <2>5. ASSUME ~captureErr', NEW v \in Workers
        PROVE  Alternate(v)'
    <3>1. ~captureErr => Alternate(v)
      BY DEF StatementInv
    <3> QED
      BY <2>1, <2>2, <2>5, <3>1, AlternateStep
  <2> QED
    BY <2>3, <2>4, <2>5, <2>6 DEF StatementInv
<1> QED
  BY <1>1, <1>2

\* The invariant, for every set of workers, connections, scopes and settings and
\* whatever faults occur.
THEOREM StatementInvariant == Spec => []StatementInv
<1>1. Init => StatementInv
  BY StatementInit
<1>2. StatementInv /\ [Next]_vars => StatementInv'
  BY StatementStep
<1> QED
  BY <1>1, <1>2, PTL DEF Spec

---------------------------------------------------------------------------
(* What follows.                                                           *)

\* Every variable keeps its type, whatever the requests, the faults and the order.
THEOREM TypesHold == Spec => []TypeOK
<1>1. StatementInv => TypeOK
  BY DEF StatementInv
<1> QED
  BY <1>1, StatementInvariant, PTL

\* Every way out of a terminal and of Transaction gives the connections back, once
\* and after their last use, and no connection is ever used by two goroutines.
THEOREM PoolIsRestored == Spec => []PoolRestored
<1>1. StatementInv => PoolRestored
  <2> SUFFICES ASSUME StatementInv
               PROVE  PoolRestored
    OBVIOUS
  <2>1. ASSUME NEW w \in Workers, pc[w] = "idle"
        PROVE  /\ pin[w] = NoConn /\ rows[w] = NoConn
               /\ txc[w] = NoConn \/ tx[w] = "closing"
    BY <2>1 DEF StatementInv, Own, HeldInv, TxInv, Busy
  <2>2. ASSUME NEW v \in Workers, NEW w \in Workers, v # w
        PROVE  {pin[v], rows[v], txc[v]} \cap {pin[w], rows[w], txc[w]} \subseteq {NoConn}
    BY <2>2 DEF StatementInv, Disjoint, Holds
  <2>3. free \cap Held = {} /\ (May("scan") \/ Lost = {})
    BY Accountable DEF StatementInv
  <2> QED
    BY <2>1, <2>2, <2>3 DEF PoolRestored
<1> QED
  BY <1>1, StatementInvariant, PTL

\* Whatever fails, the artifact holds records that the offline reader accepts, and is
\* torn at its end only.
THEOREM ArtifactIsReadable == Spec => []ArtifactReadable
<1>1. StatementInv => ArtifactReadable
  BY DEF StatementInv, FileInv, ArtifactReadable
<1> QED
  BY <1>1, StatementInvariant, PTL

\* Transaction commits what a callback that returned nil did, answers nil only then
\* and leaves nothing open, whoever panics, cancels or fails.
THEOREM TransactionsEnd == Spec => []TransactionOutcome
<1>1. StatementInv => TransactionOutcome
  BY DEF StatementInv, Own, TxInv, Busy, TransactionOutcome
<1> QED
  BY <1>1, StatementInvariant, PTL

\* The BEGIN, COMMIT and ROLLBACK lines of every worker pair up.
THEOREM LinesAreBracketed == Spec => []TransactionsAreBracketed
<1>1. StatementInv => TransactionsAreBracketed
  <2> SUFFICES ASSUME StatementInv, NEW w \in Workers, pc[w] = "idle", ~captureErr
               PROVE  /\ \A i \in Lifecycle(w) : file[i].kind = "begin" =>
                            \E j \in Lifecycle(w) : file[j].kind # "begin" /\ Follows(w, i, j)
                      /\ \A j \in Lifecycle(w) : file[j].kind # "begin" =>
                            \E i \in Lifecycle(w) : file[i].kind = "begin" /\ Follows(w, i, j)
    BY DEF TransactionsAreBracketed
  <2>1. Alternate(w) /\ ~Begun(w)
    BY DEF StatementInv, Begun, Busy
  <2> QED
    BY <2>1 DEF Alternate
<1> QED
  BY <1>1, StatementInvariant, PTL

\* No Scanner of the application panics.
ScannersReturn == "scan" \notin Faults

\* Observers see each statement at most once, and all that were attempted.
THEOREM EachSeenOnce ==
    ASSUME ScannersReturn
    PROVE  Spec => []ObserverSeesEachOnce
<1>1. StatementInv => ObserverSeesEachOnce
  <2> SUFFICES ASSUME StatementInv
               PROVE  ObserverSeesEachOnce
    OBVIOUS
  <2>1. \A i \in Ids : delivered[i] <= 1
    <3> SUFFICES ASSUME NEW i \in Ids
                 PROVE  delivered[i] <= 1
      OBVIOUS
    <3>1. PICK w \in Workers : i \in {w} \X (1 .. MaxStatements[w])
      BY Zenon DEF Ids
    <3>2. PICK n \in 1 .. MaxStatements[w] : i = <<w, n>>
      BY <3>1
    <3> QED
      BY <3>2 DEF StatementInv, DeliveryInv
  <2>2. \A w \in Workers :
           pc[w] \in Returned /\ count[w] > 0 /\ setting[w].observer => delivered[Me(w)] = 1
    BY DEF StatementInv, DeliveryInv, ScannersReturn, May
  <2> QED
    BY <2>1, <2>2 DEF ObserverSeesEachOnce
<1> QED
  BY <1>1, StatementInvariant, PTL

\* While the capture reports no error, each number a scope has given out belongs to
\* exactly one whole line or to one statement in flight.
THEOREM CaptureIsComplete ==
    ASSUME ScannersReturn
    PROVE  Spec => []CaptureComplete
<1>1. StatementInv => CaptureComplete
  <2> SUFFICES ASSUME StatementInv, ~captureErr, NEW s \in Scopes, NEW q \in 1 .. scopeSeq[s]
               PROVE  Cardinality({j \in DOMAIN file :
                                     file[j].whole /\ file[j].scope = s /\ file[j].seq = q})
                      + Cardinality({w \in Workers :
                                     pc[w] \in InFlight /\ ScopeOf[w] = s /\ seq[w] = q}) = 1
    BY DEF CaptureComplete, Lines
  <2> DEFINE L == {j \in DOMAIN file : file[j].whole /\ file[j].scope = s /\ file[j].seq = q}
             F == {w \in Workers : pc[w] \in InFlight /\ ScopeOf[w] = s /\ seq[w] = q}
  <2>1. q \in Nat \ {0}
    BY DEF StatementInv, TypeOK
  <2>2. L = {j \in DOMAIN file : Written(j, s, q)}
    BY DEF StatementInv, FileInv, Written
  <2>3. F = {w \in Workers : Flying(w, s, q)}
    BY DEF Flying
  <2> HIDE DEF L, F
  <2>4. /\ \A i, j \in L : i = j
        /\ \A v, w \in F : v = w
        /\ L = {} \/ F = {}
        /\ L # {} \/ F # {}
    BY <2>1, <2>2, <2>3 DEF StatementInv, Accounted, ScannersReturn, May
  <2>5. Cardinality({}) = 0
    BY FS_EmptySet
  <2>6. \A x : Cardinality({x}) = 1
    BY FS_Singleton
  <2>7. ASSUME L = {}
        PROVE  Cardinality(L) + Cardinality(F) = 1
    <3>1. PICK w \in F : F = {w}
      BY <2>4, <2>7
    <3>2. Cardinality(L) = 0
      BY <2>5, <2>7, Zenon
    <3>3. Cardinality(F) = 1
      BY <2>6, <3>1, Zenon
    <3> QED
      BY <3>2, <3>3
  <2>8. ASSUME F = {}
        PROVE  Cardinality(L) + Cardinality(F) = 1
    <3>1. PICK j \in L : L = {j}
      BY <2>4, <2>8
    <3>2. Cardinality(F) = 0
      BY <2>5, <2>8, Zenon
    <3>3. Cardinality(L) = 1
      BY <2>6, <3>1, Zenon
    <3> QED
      BY <3>2, <3>3
  <2>9. Cardinality(L) + Cardinality(F) = 1
    BY <2>4, <2>7, <2>8
  <2> QED
    BY <2>9 DEF L, F
<1> QED
  BY <1>1, StatementInvariant, PTL

\* Only a panicking Scanner costs the pool a connection: on every other path of a
\* statement and of a transaction, failed pins, statements, probes and releases, ended
\* contexts, lost answers and panics of observers and callbacks included, what was
\* taken from the pool is in it again or still in the hand of a worker.
THEOREM OnlyScannersLoseConnections ==
    ASSUME ScannersReturn
    PROVE  Spec => []NoConnectionIsLost
<1>1. StatementInv => NoConnectionIsLost
  BY Accountable DEF StatementInv, ScannersReturn, May, NoConnectionIsLost
<1> QED
  BY <1>1, StatementInvariant, PTL

\* A value reported as known describes the statement it is attached to.
THEOREM DiagnosticsAreOwn ==
    ASSUME NothingRejected
    PROVE  Spec => []ProbesDescribeTheirStatement
<1> DEFINE Inv == StatementInv /\ \A w \in Workers : SessionInv(w)
<1>1. Init => Inv
  BY StatementInit
<1>2. Inv /\ [Next]_vars => Inv'
  <2> SUFFICES ASSUME StatementInv, \A w \in Workers : SessionInv(w), [Next]_vars,
                      NEW v \in Workers
               PROVE  SessionInv(v)'
    BY StatementStep
  <2>1. CASE UNCHANGED vars
    BY <2>1 DEF vars, callVars, stmtVars, diagVars, txVars, SessionInv, Me, Session, InTx
  <2>2. CASE Next
    <3>1. PICK w \in Workers : Acts(w)
      BY <2>2 DEF Next, Acts
    <3>2. TypeOK /\ Disjoint /\ Ledger /\ PlaceInv(w) /\ TxInv(w) /\ DiagInv(w)
      BY DEF StatementInv, Own
    <3> QED
      BY <3>1, <3>2, SessionStep, OtherSession
  <2> QED
    BY <2>1, <2>2
<1>3. Inv => ProbesDescribeTheirStatement
  BY DEF SessionInv, ProbesDescribeTheirStatement
<1> QED
  BY <1>1, <1>2, <1>3, PTL DEF Spec

=============================================================================
