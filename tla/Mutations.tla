------------------------------ MODULE Mutations ------------------------------
(* The typed mutations of package orm on one table: Insert, Upsert, Update,    *)
(* Delete, their bulk forms, UpdateWhere and DeleteWhere.  A call validates    *)
(* its model and arguments, then sends one statement or, in bulk, a sequence   *)
(* of statements bounded by the placeholder limit; other calls act between     *)
(* them.  TiDB executes a statement atomically; its answer can be an error,    *)
(* or be lost after the statement took effect.                                 *)
(*                                                                             *)
(* A row has an "id" (the primary key), a "rank" and a deletion time "del".    *)
(* A Go model value is such a record too, with Zero for an unset value-form    *)
(* deletion time and NULL for a nil pointer; NilRow is a nil pointer element.  *)
EXTENDS Keyset, SequencesExt

CONSTANTS Workers,        \* goroutines, one call each
          Ids,            \* primary keys a row can have
          Models,         \* the Go models under test: records, see ModelType
          Tables,         \* the tables a behaviour can start with
          Calls,          \* the calls a worker can make
          MaxParameters,  \* TiDB's placeholder limit (65535 in the code)
          Now,            \* what CURRENT_TIMESTAMP(6) can answer
          NilRow, NoCall,
          Faults          \* subset of {"exec", "reply", "result"}

Zero == 0                 \* the zero time.Time of a value-form deletion time

ModelType == [soft : BOOLEAN,           \* a field carries the soft_delete tag
              auto : BOOLEAN,           \* the primary key is AUTO_RANDOM
              width : Nat \ {0},        \* columns of the primary key
              limit : Nat,              \* the largest id the Go field holds
              pointers : SUBSET Fields] \* fields that are Go pointers

ASSUME MutationsAssumption ==
    /\ Ids \subseteq Nat \ {0} /\ IsFiniteSet(Ids)
    /\ Models \subseteq ModelType
    /\ MaxParameters \in Nat \ {0}
    /\ Now \subseteq Nat \ {Zero}
    /\ NULL \notin Nat /\ NilRow # NoCall
    /\ Faults \subseteq {"exec", "reply", "result"}

Single  == {"insert", "upsert", "update", "delete"}     \* of one model
Many    == {"insert many", "upsert many", "update many"}
Filters == {"update where", "delete where"}

\* A Go model value of the caller, the predicates and assignments of a call, and
\* the call that is built from them.  A deletion has neither fields nor WithDeleted.
Value      == Nat \cup {NULL}
ModelValue == [id : Ids \cup {NULL}, rank : Value, del : Value]
Predicate  == [field : Fields, op : {"=", "<", "not", "is null", "has relation"}, value : Value]
Assignment == [field : Fields, op : {"set", "increment"}, value : Value]

ASSUME CallsAssumption ==
    /\ NoCall \notin Calls
    /\ \A c \in Calls :
        /\ c.op \in Single \cup Many \cup Filters
        /\ c.rows \in Seq(ModelValue \cup {NilRow})
        /\ c.op \in Single => Len(c.rows) = 1
        /\ c.fields \in Seq(Fields) /\ c.withDeleted \in BOOLEAN
        /\ c.where \in Seq(Seq(Predicate)) /\ c.set \in Seq(Assignment)
        /\ c.op \in {"delete", "delete where"} => ~c.withDeleted /\ c.fields = <<>>

\* A row of TiDB by its key; nothing is deleted at the zero time, which a model
\* uses for an active row.
RowOf(ranks) == [rank : ranks, del : (Nat \ {Zero}) \cup {NULL}]

ASSUME TablesAssumption ==
    \A t \in Tables : DOMAIN t \subseteq Ids /\ t \in [DOMAIN t -> RowOf(Value)]

VARIABLES model,    \* the Go model of this behaviour
          table,    \* TiDB's rows by primary key
          call,     \* the call of a worker, or NoCall
          start,    \* rows of the input that statements were sent for
          sent,     \* history: the ranges sent
          changed,  \* history: how many rows each answered statement changed
          memory,   \* history: the id found in the caller's model, the id created
          outcome   \* what the call returned, with the count accumulated so far

vars == <<model, table, call, start, sent, changed, memory, outcome>>

Pending  == [state |-> "pending", total |-> 0]
Returned(state, total) == [state |-> state, total |-> total]

Bulk(c)    == c.op \in Many
Bounded(c) == c.op \in Filters

---------------------------------------------------------------------------
(* Validation and compilation.                                             *)

\* Writable fields of the model; an INSERT also writes a key it does not generate.
UpdateFields == IF model.soft THEN {"rank", "del"} ELSE {"rank"}
InsertWidth  == Cardinality(UpdateFields) + (IF model.auto THEN 0 ELSE model.width)

\* The fields a call writes: those it names, or every writable one.
FieldsOf(c) == IF c.fields = <<>> THEN UpdateFields ELSE Range(c.fields)

FieldsSelectable(c) ==
    /\ Range(c.fields) \subseteq UpdateFields
    /\ \A i, j \in DOMAIN c.fields : c.fields[i] = c.fields[j] => i = j

\* What one UPDATE of several rows binds for each of them.
UpdateWidth(c) == (model.width + 1) * Cardinality(FieldsOf(c)) + model.width

\* Mutant: one more row than the placeholders allow.
RowsPerStatementOver(c) ==
    IF c.op = "update many" THEN Max({1, 1 + MaxParameters \div UpdateWidth(c)})
    ELSE 1 + MaxParameters \div InsertWidth

RowsPerStatement(c) ==
    IF c.op = "update many" THEN Max({1, MaxParameters \div UpdateWidth(c)})
    ELSE MaxParameters \div InsertWidth

\* One row must fit a statement.
RowFits(c) == IF c.op = "update many" THEN model.width + Cardinality(FieldsOf(c)) <= MaxParameters
              ELSE InsertWidth <= MaxParameters

\* Mutant: only rows that share a statement are compared.
DistinctInBatch(c) ==
    \A i, j \in DOMAIN c.rows :
        /\ c.rows[i].id = c.rows[j].id
        /\ (i - 1) \div RowsPerStatement(c) = (j - 1) \div RowsPerStatement(c)
        => i = j

\* A bulk UPDATE names every row once over all its statements.
DistinctKeys(c) == \A i, j \in DOMAIN c.rows : c.rows[i].id = c.rows[j].id => i = j

NoOp(c) == Bulk(c) /\ c.rows = <<>>

\* At least one predicate, none over a relation, and no nil argument.
PredicatesValid(c) ==
    /\ c.where # <<>>
    /\ \A g \in DOMAIN c.where : \A i \in DOMAIN c.where[g] :
          LET a == c.where[g][i]
          IN  a.op # "has relation" /\ (a.op # "is null" => a.value # NULL)

\* The arguments of the assignments and of the predicates.
BoundValues(c) ==
    Len(c.set) + FoldLeft(LAMBDA n, g : n + Cardinality({i \in DOMAIN g : g[i].op # "is null"}),
                          0, c.where)

AssignmentsValid(c) ==
    /\ c.set # <<>>
    /\ \A i \in DOMAIN c.set :
          /\ c.set[i].field \in UpdateFields
          /\ c.set[i].op = "increment" => c.set[i].field = "rank" /\ c.set[i].value # NULL
          /\ \A j \in 1 .. i - 1 : c.set[j].field # c.set[i].field
    /\ BoundValues(c) <= MaxParameters

\* Values the Go fields can hold; a pointer is never set to the zero time, and the
\* deletion time of a model without one is left out.
Holdable(f, v) == CASE f = "del" /\ ~model.soft -> v = NULL
                    [] f = "del" /\ model.soft /\ f \in model.pointers -> v # Zero
                    [] OTHER -> v = NULL => f \in model.pointers

Representable(c) ==
    /\ \A i \in DOMAIN c.rows : c.rows[i] # NilRow =>
          \A f \in Fields : Holdable(f, c.rows[i][f])
    /\ \A i \in DOMAIN c.set : Holdable(c.set[i].field, c.set[i].value)

\* No model is a nil pointer, and every primary key is given.
ModelsGiven(c) == NilRow \notin Range(c.rows)
KeysGiven(c)   == \A i \in DOMAIN c.rows : c.rows[i].id # NULL

\* Only a model with a deletion time has deleted rows to include.
WithDeletedValid(c) == c.withDeleted => model.soft

\* What each operation refuses before its first statement.
AcceptsInsert(c) == ModelsGiven(c)

AcceptsUpsert(c) == ModelsGiven(c) /\ FieldsSelectable(c)

AcceptsInsertMany(c) == NoOp(c) \/ (ModelsGiven(c) /\ FieldsSelectable(c) /\ RowFits(c))

AcceptsUpdate(c) ==
    WithDeletedValid(c) /\ ModelsGiven(c) /\ FieldsSelectable(c) /\ KeysGiven(c)

AcceptsUpdateMany(c) ==
    /\ WithDeletedValid(c)
    /\ NoOp(c) \/ (/\ ModelsGiven(c) /\ FieldsSelectable(c) /\ KeysGiven(c)
                   /\ DistinctKeys(c) /\ RowFits(c))

AcceptsDelete(c) ==
    IF c.op = "delete where" THEN PredicatesValid(c) ELSE ModelsGiven(c) /\ KeysGiven(c)

AcceptsUpdateWhere(c) == WithDeletedValid(c) /\ PredicatesValid(c) /\ AssignmentsValid(c)

Accepted(c) ==
    CASE c.op = "insert" -> AcceptsInsert(c)
      [] c.op = "upsert" -> AcceptsUpsert(c)
      [] c.op \in {"insert many", "upsert many"} -> AcceptsInsertMany(c)
      [] c.op = "update" -> AcceptsUpdate(c)
      [] c.op = "update many" -> AcceptsUpdateMany(c)
      [] c.op \in {"delete", "delete where"} -> AcceptsDelete(c)
      [] c.op = "update where" -> AcceptsUpdateWhere(c)

---------------------------------------------------------------------------
(* Statements.  A WHERE text is what TiDB parses it into: alternatives of   *)
(* conjunctions, since AND binds tighter than OR; a factor is an atom or a  *)
(* parenthesised disjunction.                                               *)

Argument(f, v) ==
    IF f = "del" /\ "del" \notin model.pointers /\ v = Zero THEN NULL ELSE v

Atom(a, row) == CASE a.op = "is null" -> IsNull(row[a.field])
                  [] a.op = "=" -> Equal(row[a.field], a.value)
                  [] a.op = "<" -> Less(row[a.field], a.value)
                  [] a.op = "not" -> Negate(Equal(row[a.field], a.value))

Or(disjuncts) == [disjuncts |-> disjuncts]
Holds(factor, row) == \E i \in DOMAIN factor.disjuncts : Atom(factor.disjuncts[i], row) = "true"

\* Mutant: a disjunction is written without parentheses.
AppendOpen(text, group) ==
    SubSeq(text, 1, Len(text) - 1) \o <<Append(Last(text), Or(<<Head(group)>>))>>
        \o [i \in 1 .. Len(group) - 1 |-> <<Or(<<group[i + 1]>>)>>]

\* AND (a OR b ...): joins the last conjunction of the text.
AppendGroup(text, group) ==
    SubSeq(text, 1, Len(text) - 1) \o <<Append(Last(text), Or(group))>>

\* Mutant: logically deleted rows are matched like any other.
ActiveIgnored(withDeleted) == <<>>

\* The soft-delete convention adds AND del IS NULL.
Active(withDeleted) ==
    IF model.soft /\ ~withDeleted THEN <<<<[field |-> "del", op |-> "is null", value |-> NULL]>>>>
    ELSE <<>>

Where(c) == FoldLeft(AppendGroup, <<<<>>>>, c.where \o Active(c.withDeleted))

Matches(text, row) == \E i \in DOMAIN text : \A k \in DOMAIN text[i] : Holds(text[i][k], row)

AsRow(id, t) == [id |-> id, rank |-> t[id].rank, del |-> t[id].del]
Selected(text, t) == {id \in DOMAIN t : Matches(text, AsRow(id, t))}

\* Rewrites the rows of S with New and answers how many of them changed.
Rewrite(t, S, New(_)) ==
    LET after == [id \in DOMAIN t |-> IF id \in S THEN New(id) ELSE t[id]]
    IN  [table |-> after, affected |-> Cardinality({id \in S : after[id] # t[id]})]

Written(c, row, old) ==
    [old EXCEPT !.rank = IF "rank" \in FieldsOf(c) THEN Argument("rank", row.rank) ELSE @,
                !.del  = IF "del"  \in FieldsOf(c) THEN Argument("del", row.del) ELSE @]

\* The values an INSERT sends for a model.
Inserted(row) == [rank |-> Argument("rank", row.rank),
                  del  |-> IF model.soft THEN Argument("del", row.del) ELSE NULL]

\* INSERT: all rows or, on a duplicate key, none.
InsertRows(rows, ids) ==
    LET fresh == [id \in Range(ids) |-> Inserted(rows[CHOOSE i \in DOMAIN ids : ids[i] = id])]
    IN  [table |-> [id \in DOMAIN table \cup Range(ids) |->
                       IF id \in Range(ids) THEN fresh[id] ELSE table[id]],
         affected |-> Len(rows)]

\* INSERT ... ON DUPLICATE KEY UPDATE, row after row: 1 for a new row, 2 for a
\* changed one, 0 for one that stays.
UpsertRow(c, row, id, was) ==
    LET known == id \in DOMAIN was.table
        now   == IF known THEN Written(c, row, was.table[id]) ELSE Inserted(row)
        count == IF ~known THEN 1 ELSE IF now # was.table[id] THEN 2 ELSE 0
    IN  [table |-> [k \in DOMAIN was.table \cup {id} |-> IF k = id THEN now ELSE was.table[k]],
         affected |-> was.affected + count]

UpsertRows(c, rows, ids) ==
    LET step[n \in 0 .. Len(rows)] ==
            IF n = 0 THEN [table |-> table, affected |-> 0]
            ELSE UpsertRow(c, rows[n], ids[n], step[n - 1])
    IN  step[Len(rows)]

\* UPDATE ... CASE id WHEN ... WHERE id IN (...): the first arm of a key decides.
UpdateRows(c, rows) ==
    LET arm(id) == rows[CHOOSE i \in DOMAIN rows :
                           /\ rows[i].id = id
                           /\ \A j \in 1 .. i - 1 : rows[j].id # id]
        keys    == {rows[i].id : i \in DOMAIN rows}
        active  == FoldLeft(AppendGroup, <<<<>>>>, Active(c.withDeleted))
    IN  Rewrite(table, keys \cap Selected(active, table),
                LAMBDA id : Written(c, arm(id), table[id]))

\* A deletion stamps the active rows of a soft-delete model and removes others.
DeleteRows(S, now) ==
    IF model.soft THEN Rewrite(table, S, LAMBDA id : [table[id] EXCEPT !.del = now])
    ELSE [table |-> [id \in DOMAIN table \ S |-> table[id]],
          affected |-> Cardinality(S \cap DOMAIN table)]

Assigned(row, a) == IF a.op = "increment" THEN IF row[a.field] = NULL THEN NULL
                                               ELSE row[a.field] + a.value
                    ELSE Argument(a.field, a.value)

UpdateWhereRows(c) ==
    Rewrite(table, Selected(Where(c), table),
            LAMBDA id : FoldLeft(LAMBDA row, a : [row EXCEPT ![a.field] = Assigned(table[id], a)],
                                 table[id], c.set))

\* The keys of inserted rows: their own, which are not NULL, or new ones TiDB allocates.
Keys(rows) ==
    IF model.auto THEN {ids \in [DOMAIN rows -> Ids \ DOMAIN table] : IsInjective(ids)}
    ELSE {[i \in DOMAIN rows |-> rows[i].id]} \cap [DOMAIN rows -> Ids]

Duplicate(ids) == ~IsInjective(ids) \/ Range(ids) \cap DOMAIN table # {}

---------------------------------------------------------------------------
(* The steps of a call.                                                    *)

End(w) == LET c == call[w]
          IN  IF Bulk(c) THEN Min({start[w] + RowsPerStatement(c), Len(c.rows)}) ELSE 1

Batch(w) == IF Bulk(call[w]) THEN SubSeq(call[w].rows, start[w] + 1, End(w)) ELSE call[w].rows

Differs(t, u) == {id \in DOMAIN t \cup DOMAIN u :
                     ~(id \in DOMAIN t /\ id \in DOMAIN u /\ t[id] = u[id])}

Running(w) == call[w] # NoCall /\ outcome[w].state = "pending"

\* Exec: the checks that need no database, then the loop over the batches.
Start(w) ==
    \E c \in Calls :
        /\ call[w] = NoCall
        /\ Representable(c)
        /\ call' = [call EXCEPT ![w] = c]
        /\ outcome' = [outcome EXCEPT ![w] =
               IF ~Accepted(c) THEN Returned("refused", 0)
               ELSE IF NoOp(c) THEN Returned("ok", 0) ELSE Pending]
        /\ UNCHANGED <<model, table, start, sent, changed, memory>>

\* What the statement an Exec sends does: every table and count TiDB may answer with;
\* ids are the keys of inserted rows.
InsertEffects(rows) ==
    {[ids |-> ids, done |-> InsertRows(rows, ids)] : ids \in {k \in Keys(rows) : ~Duplicate(k)}}

UpsertEffects(c, rows) ==
    {[ids |-> ids, done |-> UpsertRows(c, rows, ids)] : ids \in Keys(rows)}

UpdateEffects(c, rows) == {[ids |-> <<>>, done |-> UpdateRows(c, rows)]}

DeleteEffects(c, rows) ==
    LET S == IF c.op = "delete where" THEN Selected(Where(c), table)
             ELSE {rows[1].id} \cap Selected(FoldLeft(AppendGroup, <<<<>>>>, Active(FALSE)), table)
    IN  {[ids |-> <<>>, done |-> DeleteRows(S, t)] : t \in Now}

UpdateWhereEffects(c) == {[ids |-> <<>>, done |-> UpdateWhereRows(c)]}

Effects(w) ==
    LET c == call[w]
    IN  CASE c.op \in {"insert", "insert many"} -> InsertEffects(Batch(w))
          [] c.op \in {"upsert", "upsert many"} -> UpsertEffects(c, Batch(w))
          [] c.op \in {"update", "update many"} -> UpdateEffects(c, Batch(w))
          [] c.op \in {"delete", "delete where"} -> DeleteEffects(c, Batch(w))
          [] c.op = "update where" -> UpdateWhereEffects(c)

Send(w) ==
    /\ sent' = [sent EXCEPT ![w] = Append(@, <<start[w], End(w)>>)]
    /\ start' = [start EXCEPT ![w] = End(w)]
    /\ UNCHANGED <<model, call>>

\* Only a single INSERT reads the generated key back; it must fit the Go field.
Generates(w) == model.auto /\ call[w].op = "insert"
Fits(e) == e.ids[1] <= model.limit

\* Mutant: a key too large for the field is truncated into it.
RememberTruncated(w, e) ==
    IF Generates(w)
      THEN memory' = [memory EXCEPT ![w] = [made |-> e.ids[1],
                                            found |-> e.ids[1] % (model.limit + 1)]]
      ELSE UNCHANGED memory

Remember(w, e) ==
    IF Generates(w)
      THEN memory' = [memory EXCEPT ![w] = [made |-> e.ids[1],
                                            found |-> IF Fits(e) THEN e.ids[1] ELSE @.found]]
      ELSE UNCHANGED memory

Returns(w, state, total) == outcome' = [outcome EXCEPT ![w] = Returned(state, total)]

\* Mutant: a failing call returns no count.
FailZero(w) == Returns(w, "failed", 0)

\* A failing call returns the count of the statements completed before.
Fail(w) == Returns(w, "failed", outcome[w].total)

MoreBatches(w) == Bulk(call[w]) /\ End(w) < Len(call[w].rows)

\* The statement takes effect and TiDB's count arrives: next batch, or return the sum.
Succeeds(w) ==
    /\ Running(w)
    /\ \E e \in Effects(w) :
        /\ Generates(w) => Fits(e)
        /\ table' = e.done.table
        /\ changed' = [changed EXCEPT ![w] = Append(@, Cardinality(Differs(table, table')))]
        /\ Remember(w, e)
        /\ Returns(w, IF MoreBatches(w) THEN "pending" ELSE "ok",
                      outcome[w].total + e.done.affected)
    /\ Send(w)

\* It takes effect but the call fails: the answer or its count is lost, or the
\* generated key overflows the field.  The count of earlier batches is returned.
EffectUnreported(w) ==
    /\ Running(w)
    /\ \E e \in Effects(w) :
        /\ table' = e.done.table
        /\ \/ "reply" \in Faults /\ memory' = [memory EXCEPT ![w].made =
                                       IF Generates(w) THEN e.ids[1] ELSE @]
           \/ "result" \in Faults /\ Remember(w, e)
           \/ Generates(w) /\ ~Fits(e) /\ Remember(w, e)
    /\ Fail(w)
    /\ UNCHANGED changed
    /\ Send(w)

\* TiDB refuses the statement, for a duplicate key, an exhausted allocator or any
\* other reason.
Fails(w) ==
    /\ Running(w)
    /\ \/ "exec" \in Faults
       \/ Effects(w) = {}
    /\ Fail(w)
    /\ UNCHANGED <<table, changed, memory>>
    /\ Send(w)

Init ==
    /\ model \in Models
    /\ table \in {t \in Tables : \A id \in DOMAIN t :
                     /\ t[id].rank = NULL => "rank" \in model.pointers
                     /\ t[id].del # NULL => model.soft}
    /\ call = [w \in Workers |-> NoCall]
    /\ start = [w \in Workers |-> 0]
    /\ sent = [w \in Workers |-> <<>>]
    /\ changed = [w \in Workers |-> <<>>]
    /\ memory = [w \in Workers |-> [made |-> NULL, found |-> NULL]]
    /\ outcome = [w \in Workers |-> Pending]

Next == \E w \in Workers : Start(w) \/ Succeeds(w) \/ EffectUnreported(w) \/ Fails(w)

Spec == Init /\ [][Next]_vars

---------------------------------------------------------------------------
(* Properties.                                                             *)

\* A rank is NULL only where the Go field can hold it.
RowType == RowOf(IF "rank" \in model.pointers THEN Value ELSE Nat)

\* Shapes of the variables, and no call counts beyond its input.
TypeOK ==
    /\ model \in Models
    /\ DOMAIN table \subseteq Ids /\ table \in [DOMAIN table -> RowType]
    /\ \A w \in Workers :
        /\ call[w] \in Calls \cup {NoCall}
        /\ call[w] # NoCall => start[w] \in 0 .. Max({1, Len(call[w].rows)})
        /\ outcome[w] \in [state : {"pending", "ok", "failed", "refused"}, total : Nat]
        /\ memory[w] \in [made : Ids \cup {NULL}, found : Value]

\* What a statement for n rows of the call binds.
Placeholders(c, n) ==
    IF c.op = "update many"
      THEN IF n = 1 THEN model.width + Cardinality(FieldsOf(c)) ELSE n * UpdateWidth(c)
      ELSE n * InsertWidth

\* The statements of a bulk call take the input in order, without gap or overlap,
\* within TiDB's placeholder limit, and a call that succeeds has sent all of it
\* ("Exec deterministically splits values only when one statement would exceed").
BatchesCoverInput ==
    \A w \in Workers : call[w] # NoCall /\ Bulk(call[w]) =>
        /\ \A k \in DOMAIN sent[w] :
            /\ sent[w][k][1] = (IF k = 1 THEN 0 ELSE sent[w][k - 1][2])
            /\ sent[w][k][1] < sent[w][k][2]
            /\ Placeholders(call[w], sent[w][k][2] - sent[w][k][1]) <= MaxParameters
        /\ outcome[w].state = "ok" /\ call[w].rows # <<>> =>
            sent[w] # <<>> /\ Last(sent[w])[2] = Len(call[w].rows)

\* The count a call returns, with an error too, is that of the rows its completed
\* statements changed, whatever other calls did in between and however the last
\* statement failed; ON DUPLICATE KEY UPDATE counts a changed row twice.
CountMatchesChanges ==
    \A w \in Workers : call[w] # NoCall =>
        LET rows == FoldLeft(LAMBDA a, b : a + b, 0, changed[w])
        IN  IF call[w].op \in {"upsert", "upsert many"}
              THEN rows <= outcome[w].total /\ outcome[w].total <= 2 * Len(call[w].rows)
              ELSE outcome[w].total = rows

\* No bulk UPDATE assigns a row twice, in one statement or in two of its batches:
\* it is a set operation without an order of its updates.
RowsAssignedOnce ==
    \A w \in Workers : call[w] # NoCall /\ call[w].op = "update many" =>
        \A i, j \in 1 .. start[w] : call[w].rows[i].id = call[w].rows[j].id => i = j

\* An id an INSERT left in the caller's model is the id of the row it created, also
\* when the call went on to fail; a success has left one.
ModelNamesItsRow ==
    \A w \in Workers :
        /\ memory[w].found # NULL => memory[w].found = memory[w].made
        /\ outcome[w].state = "ok" /\ Generates(w) => memory[w].found # NULL

Acting(w) == sent'[w] # sent[w]

\* A logically deleted row changes by a call with WithDeleted or an upsert only, its
\* deletion time only if that call writes the field, and it is never removed.
DeletedRowsAreLeftAlone ==
    [][\A id \in DOMAIN table :
           model.soft /\ table[id].del # NULL /\ id \in Differs(table, table') =>
               /\ id \in DOMAIN table'
               /\ \E w \in Workers :
                    /\ Acting(w)
                    /\ call[w].withDeleted \/ call[w].op \in {"upsert", "upsert many"}
                    /\ table'[id].del # table[id].del =>
                          IF call[w].op = "update where"
                            THEN \E i \in DOMAIN call[w].set : call[w].set[i].field = "del"
                            ELSE "del" \in FieldsOf(call[w])]_vars

\* A row that UpdateWhere or DeleteWhere changes satisfied each of its predicates,
\* and was active unless WithDeleted: no disjunction widens the statement.
OnlyMatchingRowsChange ==
    [][\A w \in Workers : Acting(w) /\ Bounded(call[w]) =>
           \A id \in Differs(table, table') :
               /\ \A g \in DOMAIN call[w].where : \E i \in DOMAIN call[w].where[g] :
                     Atom(call[w].where[g][i], AsRow(id, table)) = "true"
               /\ model.soft /\ ~call[w].withDeleted => table[id].del = NULL]_vars
=============================================================================
