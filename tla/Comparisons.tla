----------------------------- MODULE Comparisons -----------------------------
(***************************************************************************)
(* AggregateQuery.Compare: the auto, tikv and tiflash_mpp variants of one    *)
(* aggregate take turns on one pinned session, every SELECT followed by the  *)
(* probe of its RU; then one EXPLAIN ANALYZE each, the release, and only then *)
(* the observers.  The data changes under it, other goroutines use the pool,  *)
(* the context ends, and every statement and the release can fail.           *)
(***************************************************************************)
EXTENDS Readiness, Captures

CONSTANTS
    Warmup,          \* aggregateCompareWarmup (2 in the code)
    Samples,         \* AggregateCompareOptions.Samples of the call
    Cost,            \* RU of the statement with a given number
    MaxVersion,      \* bound: changes of the data, each with an answer of its own
    Executors,       \* subset of {"db", "borrowed"}: *sql.DB, or *sql.Conn and *sql.Tx
    Plans,           \* rows an EXPLAIN ANALYZE can return: sets of operators
    Source           \* table of the aggregate

ASSUME ComparisonsAssumption ==
    /\ Samples \in Nat /\ Samples >= MinimumSamples
    /\ Warmup \in Nat \ {0}
    /\ MaxVersion \in Nat
    /\ Cost \in [1..(3 * (Warmup + Samples)) -> Nat]
    /\ Executors \subseteq {"db", "borrowed"}

VARIABLES
    data,    \* version of the data, and so the answer of the query now
    last,    \* the statement that tidb_last_query_info of a session tells of
    compare  \* the call of Compare

compareVars == <<data, last, compare>>

Variants == 1..3
Policy == <<[engine |-> "", mpp |-> FALSE], [engine |-> "tikv", mpp |-> FALSE],
            [engine |-> "tiflash", mpp |-> TRUE]>>
Rounds == Warmup + Samples
NoStatement == 0

\* step counts the SELECTs so far; ref and buf point into arrays (0 is nil).
NoCompare ==
    [pc |-> "rest", kind |-> "", conn |-> NoConn, step |-> 0, arrays |-> <<>>, ref |-> 0, buf |-> 0,
     samples |-> [v \in Variants |-> <<>>], status |-> [v \in Variants |-> "unknown"],
     failed |-> [v \in Variants |-> FALSE], pending |-> <<>>, err |-> FALSE, complete |-> FALSE,
     answers |-> {}, delivered |-> <<>>]

CompareInit ==
    /\ data = 0
    /\ last = [c \in Connections |-> NoStatement]
    /\ compare = NoCompare

Round(step) == step \div 3
Variant(step) == ((Round(step) + (step % 3)) % 3) + 1

---------------------------------------------------------------------------
(* Starting: nothing is sent before every check passed.                       *)

\* Mode, case, tolerances, ordering, executor and arguments are checked first.
RefuseCompare ==
    /\ compare.pc = "rest"
    /\ compare' = [NoCompare EXCEPT !.pc = "returned", !.err = TRUE]
    /\ UNCHANGED <<sessionVars, readyVars, data, last>>

StartCompare(kind) ==
    /\ compare.pc = "rest" /\ ~cancelled
    /\ compare' = [NoCompare EXCEPT !.pc = IF kind = "db" THEN "pin" ELSE "borrow", !.kind = kind]
    /\ UNCHANGED <<sessionVars, readyVars, data, last>>

\* DB.Conn waits for a connection; with a borrowed one the caller has it.
Pin(c) ==
    /\ compare.pc \in {"pin", "borrow"}
    /\ Take(c)
    /\ compare' = [compare EXCEPT !.pc = "select", !.conn = c]
    /\ UNCHANGED <<others, home, zone, lock, cancelled, run, readyVars, data, last>>

\* It returns before the deferred function exists: no observation to deliver.
PinFails ==
    /\ compare.pc = "pin"
    /\ compare' = [compare EXCEPT !.pc = "returned", !.err = TRUE]
    /\ UNCHANGED <<sessionVars, readyVars, data, last>>

---------------------------------------------------------------------------
(* The rounds.                                                                *)

Fails(v) == [compare EXCEPT !.pc = "release", !.failed[v] = TRUE, !.err = TRUE]

\* The observation of a statement: its number, and whether its RU is known.
Observed(step, known) == [of |-> step, known |-> known]

CompareStops ==
    /\ compare.pc = "select" /\ compare.step < 3 * Rounds /\ cancelled
    /\ compare' = Fails(Variant(compare.step))
    /\ UNCHANGED <<sessionVars, readyVars, data, last>>

\* A failing query, a scan or row error, or more than MaxRows: no RU probe.
SelectFails ==
    /\ compare.pc = "select" /\ compare.step < 3 * Rounds
    /\ LET step == compare.step + 1
       IN  compare' = [Fails(Variant(compare.step)) EXCEPT
                          !.pending = Append(@, Observed(step, FALSE))]
    /\ UNCHANGED <<sessionVars, readyVars, data, last>>

\* readAggregateComparisonRows refills the buffer it is given, or a new array.
Select ==
    /\ compare.pc = "select" /\ compare.step < 3 * Rounds /\ ~cancelled
    /\ last' = [last EXCEPT ![compare.conn] = compare.step + 1]
    /\ compare' =
          [compare EXCEPT
             !.pc = "probe", !.step = @ + 1, !.answers = @ \cup {data},
             !.arrays = IF compare.buf = 0 THEN Append(@, data) ELSE [@ EXCEPT ![compare.buf] = data],
             !.buf = IF @ = 0 THEN Len(compare.arrays) + 1 ELSE @]
    /\ UNCHANGED <<sessionVars, readyVars, data>>

ProbeFails ==
    /\ compare.pc = "probe"
    /\ compare' = [Fails(Variant(compare.step - 1)) EXCEPT
                      !.pending = Append(@, Observed(compare.step, FALSE))]
    /\ UNCHANGED <<sessionVars, readyVars, data, last>>

\* Mutant: the probe is sent through the pool, not on the session of the SELECT.
ProbeAnySession == IF idle = {} THEN compare.conn ELSE CHOOSE c \in idle : TRUE

\* readLastServerRU runs on the session of the SELECT.
ProbeSession == compare.conn

\* Mutant: the reference stays in the buffer the next SELECT refills.
AdoptedKept == [ref |-> compare.buf, buf |-> compare.buf]

\* The first result becomes the reference, and gets its array for itself.
Adopted == IF compare.ref = 0 THEN [ref |-> compare.buf, buf |-> 0]
                              ELSE [ref |-> compare.ref, buf |-> compare.buf]

\* Equal values in the same order, within the tolerances.
Differs == compare.ref # 0 /\ compare.arrays[compare.ref] # compare.arrays[compare.buf]

\* One sample per SELECT of a measured round that equals the reference.
Probe ==
    /\ compare.pc = "probe"
    /\ LET v    == Variant(compare.step - 1)
           kept == [compare EXCEPT !.pending = Append(@, Observed(compare.step, TRUE))]
       IN  compare' =
             IF Differs
             THEN [kept EXCEPT !.pc = "release", !.failed[v] = TRUE, !.err = TRUE]
             ELSE [kept EXCEPT
                     !.pc = IF compare.step = 3 * Rounds THEN "plan" ELSE "select",
                     !.ref = Adopted.ref, !.buf = Adopted.buf,
                     !.samples[v] = IF Round(compare.step - 1) < Warmup THEN @
                                    ELSE Append(@, [of |-> compare.step, by |-> last[ProbeSession]])]
    /\ UNCHANGED <<sessionVars, readyVars, data, last>>

---------------------------------------------------------------------------
(* The plans: statements of their own, none of them a sample.                 *)

Accesses(rows) == {r \in rows : r.engine # "" /\ r.access # "none"}

\* aggregateComparisonPlanStatus.
PlanStatus(v, rows) ==
    LET p == Policy[v]
        mismatch == p.engine # "" /\ \E r \in Accesses(rows) : r.engine # p.engine
        found    == \E r \in Accesses(rows) : r.access = Source
        unknown  == \/ \E r \in rows : ~r.known
                    \/ \E r \in Accesses(rows) : r.access = "unbound"
    IN  IF p.engine = "" /\ ~p.mpp THEN "unrequested"
        ELSE IF mismatch THEN "mismatch"
        ELSE IF ~found \/ unknown THEN "unknown"
        ELSE IF p.mpp /\ ~\E r \in rows : r.mpp THEN "mismatch" ELSE "matched"

\* EXPLAIN ANALYZE and SHOW WARNINGS of one variant; a failure does not keep
\* the other variants from theirs, the end of the context does, also one that
\* came while the plan was read and did not make it fail.
Explain ==
    /\ compare.pc = "plan"
    /\ cancelled' \in {cancelled, TRUE}
    /\ LET v == compare.step - 3 * Rounds + 1
           ends(ok, status) ==
              compare' = [compare EXCEPT
                            !.step = @ + 1, !.pending = Append(@, Observed(compare.step + 1, FALSE)),
                            !.status[v] = status, !.failed[v] = ~ok, !.err = @ \/ ~ok \/ cancelled',
                            !.pc = IF v = 3 \/ cancelled' THEN "release" ELSE "plan"]
       IN  \/ ends(FALSE, "unknown")
           \/ /\ ~cancelled
              /\ \E rows \in Plans :
                    ends(PlanStatus(v, rows) \in {"matched", "unrequested"}, PlanStatus(v, rows))
    /\ last' = [last EXCEPT ![compare.conn] = NoStatement]
    /\ UNCHANGED <<idle, others, home, zone, lock, run, readyVars, data>>

---------------------------------------------------------------------------
(* The deferred function: release, then the verdict, then the observers.      *)

\* Mutant: the pinned connection is kept until the observers have run.
ReleasedLate == idle

Released == IF compare.kind = "db" THEN idle \cup {compare.conn} ELSE idle

Release ==
    /\ compare.pc = "release"
    /\ idle' = Released
    /\ \E ok \in {TRUE} \cup (IF compare.kind = "db" THEN {FALSE} ELSE {}) :
          compare' = [compare EXCEPT !.pc = "deliver", !.err = @ \/ ~ok,
                                     !.complete = ok /\ ~compare.err,
                                     !.arrays = <<>>, !.ref = 0, !.buf = 0]
    /\ UNCHANGED <<others, home, zone, lock, cancelled, run, readyVars, data, last>>

\* An observer may use the pool the comparison's connection came from.
Deliver ==
    /\ compare.pc = "deliver" /\ compare.pending # <<>>
    /\ compare.kind = "db" => idle # {}
    /\ compare' = [compare EXCEPT !.pending = Tail(@), !.delivered = Append(@, Head(compare.pending).of)]
    /\ UNCHANGED <<sessionVars, readyVars, data, last>>

Return ==
    /\ compare.pc = "deliver" /\ compare.pending = <<>>
    /\ compare' = [compare EXCEPT !.pc = "returned"]
    /\ idle' = IF compare.kind = "borrowed" THEN idle \cup {compare.conn} ELSE idle
    /\ UNCHANGED <<others, home, zone, lock, cancelled, run, readyVars, data, last>>

---------------------------------------------------------------------------
(* AggregateComparison.WriteCapture.                                          *)

\* The variants are statements with hints of their own; a sample is a scope.
SampleRecord(v, i) ==
    [scope |-> <<"export", i>>, op |-> "SELECT", source |-> "typed_aggregate",
     terminal |-> "aggregate_compare", fp |-> v, failed |-> FALSE, metadata |-> TRUE, batched |-> FALSE,
     ru |-> [known |-> TRUE, value |-> Cost[compare.samples[v][i].by], failed |-> FALSE],
     pattern |-> {}, index |-> "", warned |-> {}, torn |-> FALSE]

Exportable(v) ==
    /\ compare.complete /\ ~compare.failed[v]
    /\ compare.status[v] \in {"matched", "unrequested"}
    /\ Samples >= MinimumSamples /\ Len(compare.samples[v]) = Samples

\* The caller's writer can fail after any of the records.
WriteCapture(v) ==
    /\ compare.pc = "returned" /\ log = <<>>
    /\ Exportable(v)
    /\ \E n \in 0..Samples : log' = [i \in 1..n |-> SampleRecord(v, i)]
    /\ fresh' = FALSE /\ report' = NoReport
    /\ UNCHANGED <<sessionVars, readyVars, compareVars, later, baseline>>

CompareStep ==
    \/ (\E c \in Connections : Pin(c)) \/ PinFails
    \/ CompareStops \/ SelectFails \/ Select \/ ProbeFails \/ Probe
    \/ Explain \/ Release \/ Deliver \/ Return

\* Other writers, and other goroutines' statements on their own connections.
DataChanges ==
    /\ data < MaxVersion /\ compare.pc \in {"select", "probe"} /\ data' = data + 1
    /\ UNCHANGED <<sessionVars, readyVars, last, compare>>

OthersUse(c) ==
    /\ OthersTake(c)
    /\ last' = [last EXCEPT ![c] = NoStatement]
    /\ UNCHANGED <<readyVars, data, compare>>

---------------------------------------------------------------------------

\* The RU of a sample is that of its own SELECT: nothing else ran on the session
\* between the two, whoever else used the pool meanwhile.
SamplesAreTheirSelects ==
    \A v \in Variants, i \in 1..Samples :
        i <= Len(compare.samples[v]) => compare.samples[v][i].by = compare.samples[v][i].of

\* A complete report rests on every round, plan and release having succeeded:
\* all the results it compared had equal values, warm-ups included, and every
\* variant has its samples and a plan that is not against its request.  Whatever
\* failed, each statement was observed exactly once and in order.
CompleteReportIsWhole ==
    /\ compare.complete =>
          /\ Cardinality(compare.answers) = 1
          /\ compare.step = 3 * Rounds + 3
          /\ \A v \in Variants : /\ Len(compare.samples[v]) = Samples
                                 /\ compare.status[v] \in {"matched", "unrequested"}
                                 /\ ~compare.failed[v]
    /\ compare.pc = "returned" =>
          /\ compare.pending = <<>>
          /\ compare.delivered = [i \in 1..Len(compare.delivered) |-> i]
          /\ compare.complete => Len(compare.delivered) = 3 * Rounds + 3
=============================================================================
