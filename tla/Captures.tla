------------------------------ MODULE Captures ------------------------------
(***************************************************************************)
(* What tidbgo makes of a runtime capture: analyze and baseline read the      *)
(* records of a file one by one, in whatever order concurrent scopes wrote     *)
(* them, and answer with diagnostics, a saved ServerRU baseline, or a          *)
(* comparison with one.  RU values are exact here: a mean is a total and a     *)
(* number of samples.                                                          *)
(***************************************************************************)
EXTENDS Integers, Sequences, FiniteSetsExt, SequencesExt, Bags

CONSTANTS
    MinimumSamples,  \* ServerRUComparisonMinimumSamples (5 in the code)
    Scopes,          \* capture_id and scope_id of a record
    Kinds,           \* what a record can tell beside its scope
    LaterKinds,      \* the same for the captures that follow the first
    MaxRecords, MaxLater, \* bounds: records of the first and of a later capture
    Requests,        \* command lines of tidbgo analyze
    Workloads,       \* values of --workload for tidbgo baseline; "" is none
    SavedBaselines   \* baseline files of earlier sessions, edited ones included

\* Codes that only the analysis itself gives; the checks of a statement's shape
\* and its warnings have codes of their own.
AnalysisCodes == {"RUN001", "RUN002", "RUN003", "RUN004", "RUN005", "RU001", "RU002", "RU003", "RU004"}

RecordFields == {"op", "source", "terminal", "fp", "ru", "failed", "metadata", "pattern",
                 "index", "warned", "batched", "torn"}

\* The Go types of a record and of the numbers in a baseline.
RecordTypes(r) ==
    /\ r.ru \in [known : BOOLEAN, value : Int, failed : BOOLEAN] /\ r.failed \in BOOLEAN
    /\ AnalysisCodes \cap (r.warned \cup r.pattern \cup {r.index}) = {}

EntryTypes(m) == m.samples \in Int /\ m.total \in Int /\ m.max \in Int

ASSUME CapturesAssumption ==
    /\ MinimumSamples \in Nat \ {0} /\ MaxRecords \in Nat /\ MaxLater \in Nat
    /\ \A kind \in Kinds \cup LaterKinds : RecordFields \subseteq DOMAIN kind /\ RecordTypes(kind)
    /\ \A b \in SavedBaselines : \A fp \in DOMAIN b.entries : EntryTypes(b.entries[fp])

\* A fingerprint is a digest of the mutation's shape or SQL: one index verdict.
ASSUME FingerprintAssumption ==
    \A k, l \in Kinds \cup LaterKinds :
        k.source = "typed_mutation" /\ l.source = k.source /\ l.fp = k.fp => l.index = k.index

VARIABLES
    log,       \* the records of the capture file
    later,     \* another capture was started
    baseline,  \* the saved baseline file
    fresh,     \* history: the baseline was made from this very capture
    report     \* what the last command answered

captureVars == <<log, later, baseline, fresh, report>>

NoRU == [known |-> FALSE, value |-> 0, failed |-> FALSE]
NoWorkload == [name |-> ""]
NoBaseline == [entries |-> <<>>, workload |-> NoWorkload]
NoReport == [of |-> "nothing", err |-> "none", request |-> "", found |-> {}, ok |-> TRUE]

CapturesInit ==
    /\ log = <<>> /\ later = FALSE
    /\ baseline \in {NoBaseline} \cup SavedBaselines
    /\ fresh = FALSE
    /\ report = NoReport

At(f, x, default) == IF x \in DOMAIN f THEN f[x] ELSE default
With(f, x, value) == [y \in DOMAIN f \cup {x} |-> IF y = x THEN value ELSE f[y]]

---------------------------------------------------------------------------
(* One record: analyzer.add.                                                  *)

\* The terminals and statements of a conditional write.
ConditionalWrites ==
    {<<"update_where", "UPDATE">>, <<"delete_where", "DELETE">>, <<"delete_where", "UPDATE">>}

\* Record.Validate: an RU result is a value or an error, the shape of a mutation is
\* that of a conditional write.  Torn is also a record refused for a field that no
\* verdict reads: version, numbering, durations, counts of probes, batch position.
ValidRecord(r) ==
    /\ ~r.torn
    /\ r.ru # NoRU => \/ r.ru.known /\ r.ru.value >= 0
                      \/ ~r.ru.known /\ r.ru.failed /\ r.ru.value = 0
    /\ r.index \in {"QRY008", "QRY009"} =>
          r.source = "typed_mutation" /\ ~r.batched /\ <<r.terminal, r.op>> \in ConditionalWrites

\* A scope is one of one capture: numbers start again in every process.
ScopeKey(r) == r.scope

\* Mutant: scopes of different captures with one number are one scope.
RepeatKeyByNumber(r) == <<r.scope[2], r.op, r.fp, r.terminal>>

RepeatKey(r) == <<ScopeKey(r), r.op, r.fp, r.terminal>>

nPlusOneCandidate(r) == r.op = "SELECT" /\ r.source # "preload"

repeatedWriteCandidate(r) ==
    /\ r.source = "typed_mutation" /\ ~r.batched
    /\ <<r.op, r.terminal>> \in {<<"INSERT", "insert">>, <<"UPSERT", "upsert">>}

repeatedUpdateCandidate(r) ==
    /\ r.source = "typed_mutation" /\ ~r.batched
    /\ r.op = "UPDATE" /\ r.terminal \in {"update", "update_where"}

RepeatCode(r) ==
    CASE nPlusOneCandidate(r)       -> "RUN002"
      [] repeatedWriteCandidate(r)  -> "RUN004"
      [] repeatedUpdateCandidate(r) -> "RUN005"
      [] OTHER                      -> ""

NoSamples == [samples |-> 0, errors |-> 0, total |-> 0, min |-> 0, max |-> 0]

\* fingerprintServerRUAccumulator.add: a value and an error can come together.
AddRU(a, ru) ==
    [samples |-> IF ru.known THEN a.samples + 1 ELSE a.samples,
     errors  |-> IF ru.failed THEN a.errors + 1 ELSE a.errors,
     total   |-> a.total + ru.value,
     min     |-> IF ru.known /\ (a.samples = 0 \/ ru.value < a.min) THEN ru.value ELSE a.min,
     max     |-> IF ru.known /\ ru.value > a.max THEN ru.value ELSE a.max]

NoScope == [statements |-> 0, samples |-> 0, failures |-> 0, unsupported |-> 0, transactions |-> 0, ru |-> 0]

Dml == {"SELECT", "INSERT", "UPSERT", "UPDATE", "DELETE"}
TransactionControl == {"BEGIN", "COMMIT", "ROLLBACK"}

\* workloadAccumulator.add; failures are those of statements and of collections.
AddToScope(s, r) ==
    LET failed == IF r.failed THEN s.failures + 1 ELSE s.failures IN
    CASE r.op \in Dml ->
            [s EXCEPT !.statements = @ + 1, !.samples = IF r.ru.known THEN @ + 1 ELSE @,
                      !.ru = @ + r.ru.value, !.failures = IF r.ru.failed THEN failed + 1 ELSE failed]
      [] r.op \in TransactionControl -> [s EXCEPT !.transactions = @ + 1, !.failures = failed]
      [] OTHER -> [s EXCEPT !.unsupported = @ + 1, !.failures = failed]

\* Findings of the record alone; the index check needs --schema.
RecordFindings(r, schema) ==
    {<<code, r.fp>> : code \in r.warned \cup r.pattern
                               \cup (IF r.metadata THEN {} ELSE {"RUN001"})
                               \cup (IF r.ru.failed THEN {"RUN003"} ELSE {})
                               \cup (IF schema /\ r.index # "" THEN {r.index} ELSE {})}

EmptyAnalysis ==
    [counts |-> EmptyBag, ru |-> <<>>, repeats |-> EmptyBag, scopes |-> <<>>, found |-> {}]

\* A query is checked once per pattern (fingerprint, limit, offset, compiler), a
\* mutation once per fingerprint: what is found is a set, and those that agree in
\* it are of one shape and find the same.
AddRecord(a, r, schema) ==
    [counts  |-> a.counts (+) SetToBag({r.fp}),
     ru      |-> IF r.ru = NoRU THEN a.ru
                 ELSE With(a.ru, r.fp, AddRU(At(a.ru, r.fp, NoSamples), r.ru)),
     repeats |-> IF RepeatCode(r) = "" THEN a.repeats
                 ELSE a.repeats (+) SetToBag({<<RepeatCode(r), RepeatKey(r)>>}),
     scopes  |-> With(a.scopes, ScopeKey(r), AddToScope(At(a.scopes, ScopeKey(r), NoScope), r)),
     found   |-> a.found \cup RecordFindings(r, schema)]

---------------------------------------------------------------------------
(* The whole file: AnalyzeReader, analyzer.finish, workloadAccumulator.finish. *)

ReadableFile(records) == \A i \in DOMAIN records : ValidRecord(records[i])

Analysis(records, schema) == FoldLeft(LAMBDA a, r : AddRecord(a, r, schema), EmptyAnalysis, records)

\* Repetitions are reported when the file has ended.
Findings(a) ==
    a.found \cup {key \in BagToSet(a.repeats) : a.repeats[key] > 1}

\* ServerRUByFingerprint: the fingerprints with an RU result.
Entries(a) ==
    [fp \in DOMAIN a.ru |->
        [count |-> a.counts[fp], samples |-> a.ru[fp].samples, errors |-> a.ru[fp].errors,
         total |-> a.ru[fp].total, min |-> a.ru[fp].min, max |-> a.ru[fp].max]]

\* ScopeMetric: one value per scope.
Metric(values) ==
    IF DOMAIN values = {} THEN [samples |-> 0, total |-> 0, min |-> 0, max |-> 0]
    ELSE [samples |-> Cardinality(DOMAIN values),
          total   |-> MapThenSumSet(LAMBDA s : values[s], DOMAIN values),
          min     |-> Min({values[s] : s \in DOMAIN values}),
          max     |-> Max({values[s] : s \in DOMAIN values})]

CompleteScope(s) ==
    s.statements > 0 /\ s.samples = s.statements /\ s.failures = 0 /\ s.unsupported = 0

\* WorkloadServerRU, with its coverage as one value: workloadCoverageProblem.
Workload(a, name) ==
    [name       |-> name,
     ru         |-> Metric([s \in DOMAIN a.scopes |-> a.scopes[s].ru]),
     statements |-> Metric([s \in DOMAIN a.scopes |-> a.scopes[s].statements]),
     covered    |-> /\ \A s \in DOMAIN a.scopes : CompleteScope(a.scopes[s])
                    /\ Cardinality(DOMAIN a.scopes) >= MinimumSamples]

Analyzed(records, request) ==
    LET a == Analysis(records, request.schema)
    IN  [findings |-> Findings(a), entries |-> Entries(a),
         workload |-> IF request.workload = "" THEN NoWorkload ELSE Workload(a, request.workload)]

---------------------------------------------------------------------------
(* Baselines: NewServerRUBaseline, Validate, Encode and Decode.                *)

\* The mean of a metric lies between its extremes.
Consistent(m) == 0 <= m.min /\ m.min * m.samples <= m.total /\ m.total <= m.max * m.samples

ValidEntry(e) ==
    /\ e.samples = e.count /\ e.samples >= MinimumSamples
    /\ Consistent(e)

\* ScopeMetric.validate: nothing without scopes, no scope above the total of all.
ValidMetric(m) ==
    /\ Consistent(m)
    /\ IF m.samples = 0 THEN m.total = 0 /\ m.min = 0 /\ m.max = 0 ELSE m.max <= m.total

\* The metrics of a workload are about the same scopes.
ValidMetrics(w) == ValidMetric(w.ru) /\ ValidMetric(w.statements) /\ w.ru.samples = w.statements.samples

TotalOver(entries, field) == MapThenSumSet(LAMBDA fp : entries[fp][field], DOMAIN entries)

\* validateBaseline: at least one statement in every scope, and the same totals.
ValidWorkload(w, entries) ==
    /\ ValidMetrics(w) /\ w.ru.samples >= MinimumSamples
    /\ w.statements.min >= 1
    /\ w.statements.total = TotalOver(entries, "count")
    /\ w.ru.total = TotalOver(entries, "total")

ValidBaseline(b) ==
    /\ b.entries # <<>>
    /\ \A fp \in DOMAIN b.entries : ValidEntry(b.entries[fp])
    /\ b.workload.name # "" => ValidWorkload(b.workload, b.entries)

\* What a saved workload keeps: its coverage is a condition for saving it.
SavedWorkload(w) ==
    IF w.name = "" THEN NoWorkload ELSE [name |-> w.name, ru |-> w.ru, statements |-> w.statements]

BaselineOf(a) ==
    [entries  |-> [fp \in DOMAIN a.entries |->
                     LET e == a.entries[fp]
                     IN  [count |-> e.count, samples |-> e.samples, total |-> e.total,
                          min |-> e.min, max |-> e.max]],
     workload |-> SavedWorkload(a.workload)]

Saveable(a) ==
    /\ a.workload.name # "" => a.workload.covered
    /\ \A fp \in DOMAIN a.entries : a.entries[fp].errors = 0
    /\ ValidBaseline(BaselineOf(a))

---------------------------------------------------------------------------
(* Comparison: CompareServerRU and compareWorkload.                            *)

\* validateCurrentServerRU: a statement need not be measured, but what is must add up.
ValidCurrentEntry(e) ==
    /\ e.count > 0 /\ e.samples <= e.count /\ e.errors <= e.count
    /\ IF e.samples = 0 THEN e.total = 0 /\ e.min = 0 /\ e.max = 0 ELSE Consistent(e)

\* Covered scopes have statements.
ValidCurrentWorkload(w) == ValidMetrics(w) /\ (w.covered => w.statements.min >= 1)

Comparable(a) ==
    /\ \A fp \in DOMAIN a.entries : ValidCurrentEntry(a.entries[fp])
    /\ a.workload.name # "" => ValidCurrentWorkload(a.workload)

\* Above both 130 percent of the baseline's mean and its maximum.
Exceeds(current, base) ==
    /\ 10 * current.total * base.samples > 13 * base.total * current.samples
    /\ current.total > base.max * current.samples

FingerprintStatus(fp, current, base) ==
    IF fp \notin DOMAIN base THEN "missing_baseline"
    ELSE IF fp \notin DOMAIN current THEN "missing_current"
    ELSE CASE current[fp].errors # 0 -> "collection_error"
           [] current[fp].errors = 0 /\ current[fp].samples # current[fp].count -> "incomplete_coverage"
           [] OTHER -> IF current[fp].samples < MinimumSamples THEN "insufficient_samples"
                       ELSE IF Exceeds(current[fp], base[fp]) THEN "regression" ELSE "pass"

WorkloadStatus(current, base) ==
    IF current.name = "" /\ base.name = "" THEN "pass"
    ELSE IF current.name # base.name \/ ~current.covered THEN "unavailable"
    ELSE IF Exceeds(current.ru, base.ru) \/ Exceeds(current.statements, base.statements)
         THEN "regression" ELSE "pass"

\* ServerRUComparison.Diagnostics: errors, and none of them suppressible.
ComparisonFindings(a, b) ==
    LET statuses == {FingerprintStatus(fp, a.entries, b.entries) : fp \in DOMAIN a.entries \cup DOMAIN b.entries}
        whole    == WorkloadStatus(a.workload, b.workload)
    IN  {<<code, "">> : code \in
            (IF "regression" \in statuses THEN {"RU001"} ELSE {})
            \cup (IF statuses \subseteq {"pass", "regression"} THEN {} ELSE {"RU002"})
            \cup (CASE whole = "pass" -> {} [] whole = "regression" -> {"RU003"}
                     [] whole = "unavailable" -> {"RU004"})}

---------------------------------------------------------------------------
(* The report: diagnosticreport.New and the exit status.                       *)

ErrorCodes == {"RU001", "RU002", "RU003", "RU004", "QRY006"}
NotSuppressible == ErrorCodes \cup {"RUN001", "RUN003"}

\* Every suppression names, once, a code that was found and may be accepted.
Acceptable(suppressed, found) ==
    /\ IsInjective(suppressed)
    /\ \A i \in DOMAIN suppressed :
          suppressed[i] \in {f[1] : f \in found} \ NotSuppressible

Refusal(err, request) == [NoReport EXCEPT !.of = "analyze", !.err = err, !.request = request, !.ok = FALSE]

AnalyzeReport(request) ==
    LET a     == Analyzed(log, request)
        found == a.findings \cup (IF request.baseline THEN ComparisonFindings(a, baseline) ELSE {})
    IN  IF request.baseline /\ ~ValidBaseline(baseline) THEN Refusal("baseline", request)
        ELSE IF ~ReadableFile(log) THEN Refusal("input", request)
        ELSE IF request.baseline /\ ~Comparable(a) THEN Refusal("comparison", request)
        ELSE IF ~Acceptable(request.suppress, found) THEN Refusal("suppress", request)
        ELSE [of |-> "analyze", err |-> "none", request |-> request, found |-> found,
              ok |-> \A f \in found : f[1] \notin ErrorCodes]

---------------------------------------------------------------------------
(* Actions.                                                                    *)

\* A statement of some scope ends: the writer appends its record.
Capture(scope, kind) ==
    /\ Len(log) < (IF later THEN MaxLater ELSE MaxRecords)
    /\ kind \in (IF later THEN LaterKinds ELSE Kinds)
    /\ log' = Append(log, With(kind, "scope", scope))
    /\ fresh' = FALSE /\ report' = NoReport
    /\ UNCHANGED <<later, baseline>>

NewCapture ==
    /\ ~later
    /\ later' = TRUE
    /\ log' = <<>> /\ fresh' = FALSE /\ report' = NoReport
    /\ UNCHANGED baseline

\* tidbgo baseline: what cannot be compared later is not saved.
MakeBaseline(workload) ==
    /\ LET a     == Analyzed(log, [schema |-> FALSE, workload |-> workload])
           saved == ReadableFile(log) /\ Saveable(a)
       IN  /\ baseline' = IF saved THEN BaselineOf(a) ELSE baseline
           /\ fresh' = IF saved THEN TRUE ELSE fresh
           /\ report' = [NoReport EXCEPT !.of = "baseline", !.ok = saved,
                                         !.err = IF saved THEN "none" ELSE "input"]
    /\ UNCHANGED <<log, later>>

\* Its output ends early: no JSON value that can be decoded.
WriteBaselineFails(workload) ==
    /\ ReadableFile(log) /\ Saveable(Analyzed(log, [schema |-> FALSE, workload |-> workload]))
    /\ baseline' = NoBaseline /\ fresh' = FALSE
    /\ report' = [NoReport EXCEPT !.of = "baseline", !.err = "write", !.ok = FALSE]
    /\ UNCHANGED <<log, later>>

Analyze(request) ==
    /\ report' \in {AnalyzeReport(request)}
                   \cup (IF AnalyzeReport(request).err = "none" THEN {Refusal("write", request)} ELSE {})
    /\ UNCHANGED <<log, later, baseline, fresh>>

---------------------------------------------------------------------------

Answered == report.of = "analyze" /\ report.err = "none"
RecordsOf(fp) == {i \in DOMAIN log : log[i].fp = fp}
MeasuredCleanly(r) == r.ru.known /\ ~r.ru.failed
TotalRU(records) == MapThenSumSet(LAMBDA i : log[i].ru.value, records)

\* Repetition is a matter of one scope of one capture, however the records of
\* concurrent scopes are mixed in the file.
RepeatsStayInScope ==
    \A i \in DOMAIN log : RepeatCode(log[i]) # "" =>
        (<<RepeatCode(log[i]), RepeatKey(log[i])>> \in report.found
            <=> \E j \in DOMAIN log \ {i} :
                    /\ RepeatCode(log[j]) = RepeatCode(log[i])
                    /\ \A field \in {"scope", "op", "fp", "terminal"} : log[j][field] = log[i][field])

\* Success against a baseline means that every statement of every fingerprint
\* of the baseline was measured, often enough and within its limit, and that
\* nothing measured is missing from it.
SuccessIsMeasured ==
    report.ok /\ report.request.baseline =>
        /\ \A fp \in DOMAIN baseline.entries :
              LET own == RecordsOf(fp)  base == baseline.entries[fp]
              IN  /\ Cardinality(own) >= MinimumSamples
                  /\ base.samples >= MinimumSamples
                  /\ \A i \in own : MeasuredCleanly(log[i])
                  /\ \/ 10 * TotalRU(own) * base.samples <= 13 * base.total * Cardinality(own)
                     \/ TotalRU(own) <= base.max * Cardinality(own)
        /\ \A i \in DOMAIN log : log[i].ru # NoRU => log[i].fp \in DOMAIN baseline.entries

\* The same for a declared workload: scope by scope, no statement without its
\* RU, none that failed and none whose RU nobody could have measured.
WorkloadIsMeasured ==
    report.ok /\ report.request.baseline /\ report.request.workload # "" =>
        /\ baseline.workload.name = report.request.workload
        /\ \A i \in DOMAIN log :
              /\ ~log[i].failed
              /\ \/ log[i].op \in Dml /\ MeasuredCleanly(log[i])
                 \/ log[i].op \in TransactionControl
              /\ \E j \in DOMAIN log : log[j].scope = log[i].scope /\ log[j].op \in Dml

\* A capture is no regression from the baseline it was made into.
OwnBaselinePasses ==
    fresh /\ report.request.baseline /\ report.request.workload = baseline.workload.name =>
        \A f \in report.found : f[1] \notin {"RU001", "RU002", "RU003", "RU004"}

\* What tidbgo analyze answers follows from the raw records of the file.
VerdictsFollowTheRecords ==
    Answered => /\ RepeatsStayInScope
                /\ SuccessIsMeasured /\ WorkloadIsMeasured /\ OwnBaselinePasses
=============================================================================
