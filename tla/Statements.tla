----------------------------- MODULE Statements -----------------------------
(***************************************************************************)
(* The life of an ORM statement: observation, the connection pinned for an *)
(* automatic diagnostic, execution, the rows, the diagnostic probe, the    *)
(* runtime capture and the observer; and orm.Transaction, whose BEGIN,     *)
(* COMMIT and ROLLBACK are observed the same way.                          *)
(*                                                                         *)
(* Workers are goroutines.  Each makes calls one after the other: a        *)
(* terminal that reads rows, a terminal that does not, or a Transaction    *)
(* whose callback makes such calls.  They meet in the connection pool, in  *)
(* the scopes of the capture and in its writer.  A statement is named by   *)
(* the worker and its number; `tidb_last_query_info' and SHOW WARNINGS are *)
(* the name of the statement they describe.                                *)
(*                                                                         *)
(* External and modelled from their use: database/sql (pool, Tx, the       *)
(* goroutine that rolls back when a context ends), the server's sessions,  *)
(* the writer under the capture and the observer.                          *)
(***************************************************************************)
EXTENDS Naturals, Sequences, FiniteSets

CONSTANTS Workers, Conns,
          NoConn,          \* no connection
          Scopes, ScopeOf, \* the capture scopes and the one of each worker's context
          Settings,        \* the observation settings a call may have
          Calls,           \* the kinds of calls that are made
          MaxStatements,   \* bound: statements of each worker
          ObserverQueries, \* the observer itself uses the pool, outside its own transactions
          Faults           \* the kinds of fault that may occur

DML     == {"query", "exec"}
Control == {"begin", "commit", "rollback"}
Probes  == {"ru", "warnings"}
\* The observer, the capture and the diagnostics each of them asks for.
Setting == [observer : BOOLEAN, capture : BOOLEAN,
            observerWants : SUBSET Probes, captureWants : SUBSET Probes]

ASSUME PoolAssumption     == NoConn \notin Conns
ASSUME ScopesAssumption   == ScopeOf \in [Workers -> Scopes]
ASSUME SettingsAssumption == Settings \subseteq Setting
ASSUME CallsAssumption    == Calls \subseteq DML \cup {"transaction"}
ASSUME BoundsAssumption   == MaxStatements \in [Workers -> Nat] /\ ObserverQueries \in BOOLEAN
ASSUME StatementFaultsAssumption ==
    Faults \subseteq {"pin", "exec", "reject", "probe", "release", "write", "observer",
                      "scan", "commit", "cancel"}

VARIABLES
    pc,        \* what the worker does next
    call,      \* its current call: a terminal or a Transaction
    setting,   \* the settings of its current call
    count,     \* the statements it has begun
    kind,      \* the current statement
    seq,       \* its sequence number in the scope, 0 when not captured
    failed,    \* the statement's own error
    probe,     \* its ServerRU and its WarningObservation
    collector, \* a diagnostic session is prepared
    pin,       \* the connection pinned for it
    rows,      \* the connection its open rows hold
    txc,       \* the connection of the worker's transaction
    tx,        \* the state of that transaction on the server
    txDone,    \* sql.Tx.done
    callback,  \* how the callback ended, "panic" also for a panic before it
    answer,    \* how the latest call ended
    cancelled, \* its context has ended
    last,      \* per session: the statement its diagnostics describe
    free,      \* the connections in the pool
    scopeSeq,  \* statementRuntimeScope.sequence
    file,      \* what the capture's writer received
    captureErr,\* RuntimeCapture.err
    delivered  \* how often the observer was called with a statement

callVars  == <<call, setting, callback, answer>>
stmtVars  == <<count, kind, seq>>
diagVars  == <<probe, collector, pin>>
txVars    == <<txc, tx, txDone>>
sinkVars  == <<file, captureErr, delivered>>
vars      == <<pc, callVars, stmtVars, scopeSeq, failed, diagVars, rows, txVars, last, free,
               cancelled, sinkVars>>

---------------------------------------------------------------------------
(* Types.                                                                  *)

PCs    == {"idle", "prepare", "execute", "rows", "collect", "release", "record", "notify",
           "body", "unwind", "deferred"}
Ids    == UNION {{w} \X (1 .. MaxStatements[w]) : w \in Workers}
NoId   == <<>>
\* One observation: requested, attempted, what it describes, an error is attached.
Observation == [on : BOOLEAN, aux : 0 .. 1, known : BOOLEAN, of : Ids \cup {NoId},
                failed : BOOLEAN]
NotAsked == [on |-> FALSE, aux |-> 0, known |-> FALSE, of |-> NoId, failed |-> FALSE]
Asked    == [NotAsked EXCEPT !.on = TRUE]
Record   == [id : Ids, kind : DML \cup Control, scope : Scopes, seq : Nat \ {0},
             failed : BOOLEAN, probe : [Probes -> Observation], whole : BOOLEAN]
MaybeConn == Conns \cup {NoConn}

TypeOK ==
    /\ pc \in [Workers -> PCs]
    /\ call \in [Workers -> {"terminal", "transaction"}]
    /\ setting \in [Workers -> Setting]
    /\ count \in [Workers -> Nat]
    /\ kind \in [Workers -> DML \cup Control]
    /\ seq \in [Workers -> Nat]
    /\ failed \in [Workers -> BOOLEAN]
    /\ probe \in [Workers -> [Probes -> Observation]]
    /\ collector \in [Workers -> BOOLEAN]
    /\ pin \in [Workers -> MaybeConn]
    /\ rows \in [Workers -> MaybeConn]
    /\ txc \in [Workers -> MaybeConn]
    /\ tx \in [Workers -> {"none", "open", "closing", "committed", "rolledback"}]
    /\ txDone \in [Workers -> BOOLEAN]
    /\ callback \in [Workers -> {"none", "nil", "error", "panic"}]
    /\ answer \in [Workers -> {"none", "nil", "error", "panic"}]
    /\ cancelled \in [Workers -> BOOLEAN]
    /\ last \in [Conns -> Ids \cup {NoId}]
    /\ free \subseteq Conns
    /\ scopeSeq \in [Scopes -> Nat]
    /\ file \in Seq(Record)
    /\ captureErr \in BOOLEAN
    /\ delivered \in [Ids -> Nat]

Me(w)  == <<w, count[w]>>
InTx(w) == call[w] = "transaction"
Held   == {pin[w] : w \in Workers} \cup {rows[w] : w \in Workers} \cup {txc[w] : w \in Workers}
Lost   == Conns \ (free \cup Held)
\* Close of a session, of rows or of a transaction, when there is one
PutBack(c) == free' = free \cup ({c} \ {NoConn})
May(f) == f \in Faults

Init ==
    /\ pc = [w \in Workers |-> "idle"]
    /\ call = [w \in Workers |-> "terminal"]
    /\ setting \in [Workers -> Settings]
    /\ count = [w \in Workers |-> 0]
    /\ kind = [w \in Workers |-> "exec"]
    /\ seq = [w \in Workers |-> 0]
    /\ failed = [w \in Workers |-> FALSE]
    /\ probe = [w \in Workers |-> [p \in Probes |-> NotAsked]]
    /\ collector = [w \in Workers |-> FALSE]
    /\ pin = [w \in Workers |-> NoConn]
    /\ rows = [w \in Workers |-> NoConn]
    /\ txc = [w \in Workers |-> NoConn]
    /\ tx = [w \in Workers |-> "none"]
    /\ txDone = [w \in Workers |-> FALSE]
    /\ callback = [w \in Workers |-> "none"]
    /\ answer = [w \in Workers |-> "none"]
    /\ cancelled = [w \in Workers |-> FALSE]
    /\ last = [c \in Conns |-> NoId]
    /\ free = Conns
    /\ scopeSeq = [s \in Scopes |-> 0]
    /\ file = <<>>
    /\ captureErr = FALSE
    /\ delivered = [i \in Ids |-> 0]

---------------------------------------------------------------------------
(* Begin of an observation.                                                *)

Collects(s, p) ==
    \/ s.observer /\ p \in s.observerWants
    \/ s.capture /\ p \in s.captureWants

\* ServerRU takes precedence: the warnings then carry ErrWarningsWithServerRU.
Requested(s, k) ==
    [p \in Probes |-> IF k \in DML /\ Collects(s, p)
                      THEN [Asked EXCEPT !.failed = p = "warnings" /\ Collects(s, "ru")]
                      ELSE NotAsked]

Observe(w, k, s) ==
    /\ count' = [count EXCEPT ![w] = @ + 1]
    /\ kind' = [kind EXCEPT ![w] = k]
    /\ failed' = [failed EXCEPT ![w] = FALSE]
    /\ probe' = [probe EXCEPT ![w] = Requested(s, k)]
    /\ IF s.capture
       THEN /\ scopeSeq' = [scopeSeq EXCEPT ![ScopeOf[w]] = @ + 1]
            /\ seq' = [seq EXCEPT ![w] = scopeSeq[ScopeOf[w]] + 1]
       ELSE seq' = [seq EXCEPT ![w] = 0] /\ UNCHANGED scopeSeq

Goto(w, l) == pc' = [pc EXCEPT ![w] = l]

\* A terminal called outside a transaction.
StartTerminal(w) ==
    /\ pc[w] = "idle" /\ count[w] < MaxStatements[w]
    /\ \E k \in Calls \cap DML, s \in Settings :
          setting' = [setting EXCEPT ![w] = s] /\ Observe(w, k, s)
    /\ call' = [call EXCEPT ![w] = "terminal"]
    /\ callback' = [callback EXCEPT ![w] = "none"]
    /\ answer' = [answer EXCEPT ![w] = "none"]
    /\ tx' = [tx EXCEPT ![w] = IF @ = "closing" THEN @ ELSE "none"]
    /\ Goto(w, "prepare")
    /\ UNCHANGED <<collector, pin, rows, txc, txDone, last, free, cancelled, sinkVars>>

\* Transaction begins; its end takes one more statement.
StartTransaction(w) ==
    /\ pc[w] = "idle" /\ count[w] + 2 <= MaxStatements[w]
    /\ "transaction" \in Calls /\ tx[w] # "closing"
    /\ \E s \in Settings : setting' = [setting EXCEPT ![w] = s] /\ Observe(w, "begin", s)
    /\ call' = [call EXCEPT ![w] = "transaction"]
    /\ callback' = [callback EXCEPT ![w] = "none"]
    /\ answer' = [answer EXCEPT ![w] = "none"]
    /\ tx' = [tx EXCEPT ![w] = "none"]
    /\ txDone' = [txDone EXCEPT ![w] = FALSE]
    /\ Goto(w, "execute")
    /\ UNCHANGED <<collector, pin, rows, txc, last, free, cancelled, sinkVars>>

---------------------------------------------------------------------------
(* The connection of an automatic diagnostic.                              *)

Wants(w, p)  == probe[w][p].on
Collecting(w) == Wants(w, "ru") \/ Wants(w, "warnings")
\* mutant: the error of a failed pin is dropped
WithoutError(pr) == pr

\* addDiagnosticError: to ServerRU when it is on, otherwise to the warnings.
WithError(pr) == [pr EXCEPT ![IF pr["ru"].on THEN "ru" ELSE "warnings"].failed = TRUE]

Prepare(w) ==
    /\ pc[w] = "prepare"
    /\ Goto(w, "execute")
    /\ \/ ~Collecting(w) /\ UNCHANGED <<diagVars, free>>
       \/ \* an active transaction is a session already
          /\ Collecting(w) /\ InTx(w)
          /\ collector' = [collector EXCEPT ![w] = TRUE]
          /\ UNCHANGED <<probe, pin, free>>
       \/ /\ Collecting(w) /\ ~InTx(w) /\ ~cancelled[w]
          /\ \E c \in free : pin' = [pin EXCEPT ![w] = c] /\ free' = free \ {c}
          /\ collector' = [collector EXCEPT ![w] = TRUE]
          /\ UNCHANGED probe
       \/ \* no connection, or an executor without sessions
          /\ Collecting(w) /\ ~InTx(w) /\ (cancelled[w] \/ May("pin"))
          /\ probe' = [probe EXCEPT ![w] = WithError(@)]
          /\ UNCHANGED <<collector, pin, free>>
    /\ UNCHANGED <<callVars, stmtVars, scopeSeq, failed, rows, txVars, last, cancelled,
                   sinkVars>>

---------------------------------------------------------------------------
(* The statement itself.                                                   *)

\* mutant: the statement still runs on the pool, only the probe on the pin
TargetsOfPool(w) == IF InTx(w) THEN {txc[w]} \ {NoConn} ELSE free

\* The connections the statement may run on.
Targets(w) ==
    IF InTx(w) THEN {txc[w]} \ {NoConn} ELSE IF pin[w] # NoConn THEN {pin[w]} ELSE free

\* The server ran it: the session's diagnostics describe it from now on.
Ran(w, c) == last' = [last EXCEPT ![c] = Me(w)]

ExecuteSucceeds(w) ==
    /\ pc[w] = "execute" /\ kind[w] \in DML
    /\ ~cancelled[w] /\ ~(InTx(w) /\ txDone[w])
    /\ \E c \in Targets(w) :
          /\ Ran(w, c)
          /\ IF kind[w] = "query"
             THEN rows' = [rows EXCEPT ![w] = c] /\ free' = free \ {c} /\ Goto(w, "rows")
             ELSE UNCHANGED <<rows, free>> /\ Goto(w, "collect")
    /\ UNCHANGED <<callVars, stmtVars, scopeSeq, failed, diagVars, txVars, cancelled, sinkVars>>

\* Refused by the server, or before it was sent (an argument without a driver
\* value, an ended context, a finished transaction).
ExecuteFails(w) ==
    /\ pc[w] = "execute" /\ kind[w] \in DML
    /\ \/ May("exec") /\ \E c \in Targets(w) : Ran(w, c)
       \/ May("reject") /\ Targets(w) # {} /\ UNCHANGED last
       \/ (cancelled[w] \/ (InTx(w) /\ txDone[w])) /\ UNCHANGED last
    /\ failed' = [failed EXCEPT ![w] = TRUE]
    /\ Goto(w, "collect")
    /\ UNCHANGED <<callVars, stmtVars, scopeSeq, diagVars, rows, txVars, free, cancelled,
                   sinkVars>>

\* Every row is scanned, or one of them fails; then the rows are closed.  Rows of a
\* session or a transaction leave the connection to it.
CloseRows(w) ==
    /\ pc[w] = "rows"
    /\ rows' = [rows EXCEPT ![w] = NoConn]
    /\ IF InTx(w) \/ pin[w] # NoConn THEN UNCHANGED free ELSE PutBack(rows[w])
    /\ \E bad \in BOOLEAN :
          /\ bad => (May("exec") \/ cancelled[w])
          /\ failed' = [failed EXCEPT ![w] = bad]
    /\ Goto(w, "collect")
    /\ UNCHANGED <<callVars, stmtVars, scopeSeq, diagVars, txVars, last, cancelled, sinkVars>>

\* A Scanner of the application panics: nothing on the way up closes the rows
\* or finishes the observation.  A transaction closes its rows when it ends, and
\* the rows of a pool query are closed if its context ends; nothing closes a pin.
ScanPanics(w) ==
    /\ pc[w] = "rows" /\ May("scan")
    /\ rows' = [rows EXCEPT ![w] = NoConn]
    /\ pin' = [pin EXCEPT ![w] = NoConn]
    /\ collector' = [collector EXCEPT ![w] = FALSE]
    /\ IF InTx(w)
       THEN Goto(w, "unwind") /\ UNCHANGED <<free, answer>>
       ELSE /\ \/ UNCHANGED free
               \/ pin[w] = NoConn /\ PutBack(rows[w])
            /\ answer' = [answer EXCEPT ![w] = "panic"]
            /\ Goto(w, "idle")
    /\ UNCHANGED <<call, setting, callback, stmtVars, scopeSeq, failed, probe, txVars, last,
                   cancelled, sinkVars>>

---------------------------------------------------------------------------
(* Finish of an observation: diagnostics, release, capture, observer.      *)

\* What the session answers to a probe; the answer is about the latest statement
\* it ran, and afterwards about the probe.
Answered(w, p, c) ==
    IF p = "ru" /\ last[c] = NoId
    THEN [probe[w] EXCEPT ![p].aux = 1, ![p].failed = TRUE]
    ELSE [probe[w] EXCEPT ![p].aux = 1, ![p].known = TRUE, ![p].of = last[c],
                          ![p].failed = FALSE]
Session(w) == IF InTx(w) THEN txc[w] ELSE pin[w]

ProbeSession(w, p) ==
    \/ /\ ~cancelled[w] /\ Session(w) # NoConn
       /\ probe' = [probe EXCEPT ![w] = Answered(w, p, Session(w))]
       /\ last' = [last EXCEPT ![Session(w)] = NoId]
    \/ /\ cancelled[w] \/ May("probe") \/ Session(w) = NoConn
       /\ probe' = [probe EXCEPT ![w][p].aux = 1, ![w][p].failed = TRUE]
       /\ UNCHANGED last

\* collectDiagnostics: ServerRU even after a failure, warnings only after success.
Collect(w) ==
    /\ pc[w] = "collect"
    /\ IF ~collector[w] THEN UNCHANGED <<probe, last>>
       ELSE IF Wants(w, "ru") THEN ProbeSession(w, "ru")
       ELSE IF failed[w]
       THEN probe' = [probe EXCEPT ![w]["warnings"].failed = TRUE] /\ UNCHANGED last
       ELSE ProbeSession(w, "warnings")
    /\ collector' = [collector EXCEPT ![w] = FALSE]
    /\ Goto(w, "release")
    /\ UNCHANGED <<callVars, stmtVars, scopeSeq, failed, pin, rows, txVars, free, cancelled,
                   sinkVars>>

\* mutant: a diagnostic that failed returns before the release
ReleaseKnown(w) ==
    /\ pc[w] = "release"
    /\ IF \E p \in Probes : probe[w][p].known
       THEN pin' = [pin EXCEPT ![w] = NoConn] /\ PutBack(pin[w])
       ELSE UNCHANGED <<pin, free>>
    /\ Goto(w, "record")
    /\ UNCHANGED <<callVars, stmtVars, scopeSeq, failed, probe, collector, rows, txVars, last,
                   cancelled, sinkVars>>

\* A connection of the pool goes back, an error of Close is attached.
Release(w) ==
    /\ pc[w] = "release"
    /\ pin' = [pin EXCEPT ![w] = NoConn]
    /\ PutBack(pin[w])
    /\ \/ UNCHANGED probe
       \/ /\ pin[w] # NoConn /\ May("release")
          /\ probe' = [probe EXCEPT ![w] = WithError(@)]
    /\ Goto(w, "record")
    /\ UNCHANGED <<callVars, stmtVars, scopeSeq, failed, collector, rows, txVars, last,
                   cancelled, sinkVars>>

RecordOf(w, whole) ==
    [id |-> Me(w), kind |-> kind[w], scope |-> ScopeOf[w], seq |-> seq[w],
     failed |-> failed[w], probe |-> probe[w], whole |-> whole]

\* mutant: a short write is taken for a success
CaptureUnchecked(w) ==
    /\ pc[w] = "record"
    /\ \/ (seq[w] = 0 \/ captureErr) /\ UNCHANGED file
       \/ /\ seq[w] # 0 /\ ~captureErr
          /\ file' \in {Append(file, RecordOf(w, TRUE))} \cup
                 (IF May("write") THEN {Append(file, RecordOf(w, FALSE))} ELSE {})
    /\ Goto(w, "notify")
    /\ UNCHANGED <<callVars, stmtVars, scopeSeq, failed, diagVars, rows, txVars, last, free,
                   cancelled, captureErr, delivered>>

\* RuntimeCapture.observe, under its mutex: silent after the first failure.
Capture(w) ==
    /\ pc[w] = "record"
    /\ \/ (seq[w] = 0 \/ captureErr) /\ UNCHANGED <<file, captureErr>>
       \/ /\ seq[w] # 0 /\ ~captureErr
          /\ file' = Append(file, RecordOf(w, TRUE))
          /\ captureErr' \in {FALSE} \cup (IF May("write") THEN {TRUE} ELSE {})
       \/ \* nothing or a part of the line was written
          /\ seq[w] # 0 /\ ~captureErr /\ May("write")
          /\ file' \in {file, Append(file, RecordOf(w, FALSE))}
          /\ captureErr' = TRUE
    /\ Goto(w, "notify")
    /\ UNCHANGED <<callVars, stmtVars, scopeSeq, failed, diagVars, rows, txVars, last, free,
                   cancelled, delivered>>

Outcome(w, panics) ==
    IF panics THEN "panic" ELSE IF failed[w] \/ kind[w] = "rollback" THEN "error" ELSE "nil"

\* mutant: the rollback is deferred after the event of BEGIN
ContinueUndeferred(w, panics) ==
    IF ~InTx(w) \/ (kind[w] = "begin" /\ (failed[w] \/ panics))
    THEN /\ Goto(w, "idle") /\ answer' = [answer EXCEPT ![w] = Outcome(w, panics)]
    ELSE IF kind[w] \in {"commit", "rollback"}
    THEN /\ answer' = [answer EXCEPT ![w] = IF callback[w] = "panic" THEN "panic"
                                            ELSE Outcome(w, panics)]
         /\ Goto(w, IF callback[w] = "panic" THEN "idle" ELSE "deferred")
    ELSE Goto(w, IF panics THEN "unwind" ELSE "body") /\ UNCHANGED answer

\* The caller of finish goes on, or a panic of the observer passes through it.
Continue(w, panics) ==
    IF ~InTx(w) \/ (kind[w] = "begin" /\ failed[w])
    THEN /\ Goto(w, "idle") /\ answer' = [answer EXCEPT ![w] = Outcome(w, panics)]
    ELSE IF kind[w] \in {"commit", "rollback"}
    THEN /\ answer' = [answer EXCEPT ![w] = IF callback[w] = "panic" THEN "panic"
                                            ELSE Outcome(w, panics)]
         /\ Goto(w, IF callback[w] = "panic" THEN "idle" ELSE "deferred")
    ELSE Goto(w, IF panics THEN "unwind" ELSE "body") /\ UNCHANGED answer

\* mutant: a failed statement returns before its observation is finished
NotifySuccesses(w) ==
    /\ pc[w] = "notify"
    /\ delivered' = IF setting[w].observer /\ ~failed[w] THEN [delivered EXCEPT ![Me(w)] = @ + 1]
                    ELSE delivered
    /\ Continue(w, FALSE)
    /\ UNCHANGED <<call, setting, callback, stmtVars, scopeSeq, failed, diagVars, rows, txVars,
                   last, free, cancelled, file, captureErr>>

Notify(w) ==
    /\ pc[w] = "notify"
    /\ (setting[w].observer /\ ObserverQueries /\ txc[w] = NoConn) => free # {}
    /\ delivered' = IF setting[w].observer THEN [delivered EXCEPT ![Me(w)] = @ + 1]
                    ELSE delivered
    /\ \E panics \in BOOLEAN :
          /\ panics => setting[w].observer /\ May("observer")
          /\ Continue(w, panics)
    /\ probe' = [probe EXCEPT ![w] = [p \in Probes |-> NotAsked]]
    /\ UNCHANGED <<call, setting, callback, stmtVars, scopeSeq, failed, collector, pin, rows,
                   txVars, last, free, cancelled, file, captureErr>>

---------------------------------------------------------------------------
(* Transaction.                                                            *)

\* BeginTx; the deferred rollback is registered when it succeeds.
Begin(w) ==
    /\ pc[w] = "execute" /\ kind[w] = "begin"
    /\ Goto(w, "record")
    /\ \/ /\ ~cancelled[w]
          /\ \E c \in free : txc' = [txc EXCEPT ![w] = c] /\ free' = free \ {c}
          /\ tx' = [tx EXCEPT ![w] = "open"]
          /\ UNCHANGED failed
       \/ /\ cancelled[w] \/ May("exec")
          /\ failed' = [failed EXCEPT ![w] = TRUE]
          /\ UNCHANGED <<txc, tx, free>>
    /\ UNCHANGED <<callVars, stmtVars, scopeSeq, diagVars, rows, txDone, last, cancelled,
                   sinkVars>>

\* The callback runs a terminal on the transaction's executor.
CallbackStatement(w) ==
    /\ pc[w] = "body" /\ count[w] + 2 <= MaxStatements[w]
    /\ \E k \in DML \cap Calls : Observe(w, k, setting[w])
    /\ Goto(w, "prepare")
    /\ UNCHANGED <<callVars, collector, pin, rows, txVars, last, free, cancelled, sinkVars>>

CallbackReturns(w) ==
    /\ pc[w] = "body" /\ count[w] < MaxStatements[w]
    /\ \E r \in {"nil", "error"} :
          /\ callback' = [callback EXCEPT ![w] = r]
          /\ Observe(w, IF r = "nil" THEN "commit" ELSE "rollback", setting[w])
    /\ Goto(w, "execute")
    /\ UNCHANGED <<call, setting, answer, collector, pin, rows, txVars, last, free, cancelled,
                   sinkVars>>

\* The deferred function of a panic: an observed rollback.
Unwind(w) ==
    /\ pc[w] = "unwind"
    /\ callback' = [callback EXCEPT ![w] = "panic"]
    /\ Observe(w, "rollback", setting[w])
    /\ Goto(w, "execute")
    /\ UNCHANGED <<call, setting, answer, collector, pin, rows, txVars, last, free, cancelled,
                   sinkVars>>

\* The transaction ends on the server and its connection goes back.
End(w, state) ==
    /\ tx' = [tx EXCEPT ![w] = state]
    /\ txc' = [txc EXCEPT ![w] = NoConn]
    /\ PutBack(txc[w])
    /\ txDone' = [txDone EXCEPT ![w] = TRUE]

\* Tx.Commit looks at the context first and then leaves the transaction open.
Commit(w) ==
    /\ pc[w] = "execute" /\ kind[w] = "commit"
    /\ \/ /\ cancelled[w] \/ txDone[w]
          /\ failed' = [failed EXCEPT ![w] = TRUE]
          /\ UNCHANGED <<txVars, free>>
       \/ ~cancelled[w] /\ ~txDone[w] /\ End(w, "committed") /\ UNCHANGED failed
       \/ \* the answer is an error, or does not arrive
          /\ ~cancelled[w] /\ ~txDone[w] /\ May("commit")
          /\ (End(w, "committed") \/ End(w, "rolledback"))
          /\ failed' = [failed EXCEPT ![w] = TRUE]
    /\ Goto(w, "record")
    /\ UNCHANGED <<callVars, stmtVars, scopeSeq, diagVars, rows, last, cancelled, sinkVars>>

\* Tx.Rollback: an error when the transaction was ended before.
Rollback(w) ==
    /\ pc[w] = "execute" /\ kind[w] = "rollback"
    /\ IF txDone[w]
       THEN failed' = [failed EXCEPT ![w] = TRUE] /\ UNCHANGED <<txVars, free>>
       ELSE /\ End(w, "rolledback")
            /\ \E bad \in BOOLEAN : (bad => May("commit")) /\ failed' = [failed EXCEPT ![w] = bad]
    /\ Goto(w, "record")
    /\ UNCHANGED <<callVars, stmtVars, scopeSeq, diagVars, rows, last, cancelled, sinkVars>>

\* mutant: after Commit or Rollback nothing is deferred
DeferredNothing(w) ==
    /\ pc[w] = "deferred"
    /\ Goto(w, "idle")
    /\ UNCHANGED <<callVars, stmtVars, scopeSeq, failed, diagVars, rows, txVars, last, free,
                   cancelled, sinkVars>>

\* The deferred function after a commit or rollback: an unobserved Rollback.
Deferred(w) ==
    /\ pc[w] = "deferred"
    /\ Goto(w, "idle")
    /\ IF txDone[w] THEN UNCHANGED <<txVars, free>> ELSE End(w, "rolledback")
    /\ UNCHANGED <<callVars, stmtVars, scopeSeq, failed, diagVars, rows, last, cancelled,
                   sinkVars>>

---------------------------------------------------------------------------
(* The context ends; database/sql rolls an open transaction back.          *)

Cancel(w) ==
    /\ May("cancel") /\ ~cancelled[w]
    /\ cancelled' = [cancelled EXCEPT ![w] = TRUE]
    /\ UNCHANGED <<pc, callVars, stmtVars, scopeSeq, failed, diagVars, rows, txVars, last,
                   free, sinkVars>>

AwaitDone(w) ==
    /\ cancelled[w] /\ tx[w] = "open" /\ ~txDone[w]
    /\ txDone' = [txDone EXCEPT ![w] = TRUE]
    /\ tx' = [tx EXCEPT ![w] = "closing"]
    /\ UNCHANGED <<pc, callVars, stmtVars, scopeSeq, failed, diagVars, rows, txc, last, free,
                   cancelled, sinkVars>>

Closed(w) ==
    /\ tx[w] = "closing"
    /\ tx' = [tx EXCEPT ![w] = "rolledback"]
    /\ txc' = [txc EXCEPT ![w] = NoConn]
    /\ PutBack(txc[w])
    /\ rows' = [rows EXCEPT ![w] = IF InTx(w) THEN NoConn ELSE @]
    /\ UNCHANGED <<pc, callVars, stmtVars, scopeSeq, failed, diagVars, txDone, last, cancelled,
                   sinkVars>>

Start(w) == StartTerminal(w) \/ StartTransaction(w)

Proceed(w) ==
    \/ Prepare(w) \/ ExecuteSucceeds(w) \/ ExecuteFails(w) \/ CloseRows(w) \/ ScanPanics(w)
    \/ Collect(w) \/ Release(w) \/ Capture(w) \/ Notify(w)
    \/ Begin(w) \/ CallbackStatement(w) \/ CallbackReturns(w) \/ Unwind(w)
    \/ Commit(w) \/ Rollback(w) \/ Deferred(w)

Next ==
    \E w \in Workers :
        Start(w) \/ Proceed(w) \/ Cancel(w) \/ AwaitDone(w) \/ Closed(w)

Spec == Init /\ [][Next]_vars

\* A call that can go on goes on, and database/sql ends what a context ended.
Fairness ==
    \A w \in Workers : WF_vars(Proceed(w)) /\ WF_vars(AwaitDone(w)) /\ WF_vars(Closed(w))
FairSpec == Spec /\ Fairness

---------------------------------------------------------------------------
(* Properties.                                                             *)

InFlight  == {"prepare", "execute", "rows", "collect", "release", "record"}
Returned  == {"idle", "body", "unwind", "deferred"}
Lines(S(_)) == {j \in DOMAIN file : S(file[j])}

\* The lines of a worker's BEGIN, COMMIT and ROLLBACK, and which is next to which.
Lifecycle(w) == {j \in DOMAIN file : /\ file[j].id[1] = w /\ file[j].kind \in Control
                                     /\ ~(file[j].kind = "begin" /\ file[j].failed)}
Follows(w, i, j) == i < j /\ \A k \in Lifecycle(w) : k <= i \/ j <= k

\* RuntimeCapture.Err "returns nil while all completed records have been written
\* successfully": without an error every sequence number a scope has given out
\* belongs to exactly one whole line or to one statement still in flight, however
\* the statements of concurrent scopes interleave and observers panic.
CaptureComplete ==
    ~captureErr =>
        \A s \in Scopes : \A q \in 1 .. scopeSeq[s] :
            LET line(r)  == r.whole /\ r.scope = s /\ r.seq = q
                flying   == {w \in Workers : pc[w] \in InFlight /\ ScopeOf[w] = s /\ seq[w] = q}
            IN  Cardinality(Lines(line)) + Cardinality(flying) = 1

\* What Record.Validate of the offline reader accepts of the two diagnostics.
Valid(o) == IF o.known THEN o.aux = 1 ELSE o.failed

\* Whatever fails while a statement runs, is probed or is written, a reader of the
\* artifact meets valid records only, and a torn line nowhere but at the end.
ArtifactReadable ==
    \A j \in DOMAIN file :
        /\ j < Len(file) => file[j].whole
        /\ file[j].whole => \A p \in Probes :
               file[j].probe[p].on => Valid(file[j].probe[p])

\* A value that is reported as known describes the statement it is attached to:
\* no other worker and no other probe ran on the session in between.
ProbesDescribeTheirStatement ==
    \A w \in Workers : \A p \in Probes :
        pc[w] \in {"release", "record", "notify"} /\ probe[w][p].known
            => probe[w][p].of = Me(w)

\* WithStatementObserver: the observer "is called once after each attempted" statement,
\* on every path of a terminal and of Transaction, a panic of an observer included.
ObserverSeesEachOnce ==
    /\ \A i \in Ids : delivered[i] <= 1
    /\ \A w \in Workers :
          pc[w] \in Returned /\ count[w] > 0 /\ setting[w].observer => delivered[Me(w)] = 1

\* When a call has returned its worker holds no connection of the pool, except the
\* one on which database/sql is rolling back; no two workers ever share one, what is
\* in the pool is in no hand, so a connection goes back once and not while in use,
\* and unless a Scanner may panic every connection is in the pool or in a hand.
PoolRestored ==
    /\ \A w \in Workers :
          pc[w] = "idle" => /\ pin[w] = NoConn /\ rows[w] = NoConn
                            /\ txc[w] = NoConn \/ tx[w] = "closing"
    /\ \A v, w \in Workers :
          v # w => {pin[v], rows[v], txc[v]} \cap {pin[w], rows[w], txc[w]} \subseteq {NoConn}
    /\ free \cap Held = {}
    /\ May("scan") \/ Lost = {}

\* Transaction returns nil only when the server committed, the server commits only
\* what a callback that returned nil did, and no call leaves its transaction open.
TransactionOutcome ==
    \A w \in Workers :
        /\ tx[w] = "committed" => callback[w] = "nil"
        /\ pc[w] = "idle" /\ InTx(w) =>
              /\ answer[w] = "nil" => tx[w] = "committed"
              /\ tx[w] # "open"

\* The captured BEGIN, COMMIT and ROLLBACK of a worker pair up: every BEGIN that
\* succeeded is next followed by its end, every end has its BEGIN right before it,
\* also when observers panic or the context ends.
TransactionsAreBracketed ==
    \A w \in Workers : pc[w] = "idle" /\ ~captureErr =>
        /\ \A i \in Lifecycle(w) : file[i].kind = "begin" =>
              \E j \in Lifecycle(w) : file[j].kind # "begin" /\ Follows(w, i, j)
        /\ \A j \in Lifecycle(w) : file[j].kind # "begin" =>
              \E i \in Lifecycle(w) : file[i].kind = "begin" /\ Follows(w, i, j)

\* Every call returns although its observer uses the same pool, because callbacks
\* run after the connection of a diagnostic is released; unless a panicking
\* scanner has cost the pool a connection (see NoConnectionIsLost).
CallsReturn ==
    \A w \in Workers : pc[w] # "idle" ~> (pc[w] = "idle" \/ Lost # {})

\* "returns it to the pool" (docs/observability.md:557-559): whatever happens to
\* the statement, the pool gets its connections back.
NoConnectionIsLost == Lost = {}
=============================================================================
