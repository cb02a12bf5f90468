--------------------------- MODULE RelationQueries ---------------------------
(***************************************************************************)
(* SELECT and COUNT over predicates with relations: how a predicate tree is  *)
(* rendered, when the compiler replaces the EXISTS form of a query by the     *)
(* relation-first form (TopN) or by a count of associations, and what rows   *)
(* each form returns.                                                         *)
(***************************************************************************)
EXTENDS Relations

CONSTANTS
    PrimaryKey,   \* the primary-key fields of each table
    UniqueKeys,   \* the unique keys declared on each model besides
    Queries,      \* the queries a behaviour can make
    NoQuery,      \* the behaviour makes none
    NotRead       \* the result of a call not made yet

SQL == INSTANCE Keyset WITH NULL <- Null

VARIABLES
    query,   \* the SELECT
    form,    \* how far it is compiled
    answer   \* what the terminal returned, or NotRead
queryVars == <<query, form, answer>>

---------------------------------------------------------------------------
(* Predicates: [op, field, values, children].                                *)

Compared == {"=", "<>", "<", "between"}

\* requireValues: an argument is never nil.
NoNil(p) == \A i \in DOMAIN p.values : p.values[i] # Null

\* predicateCompiler: what is refused; a relation's children are compiled
\* against its target.
RECURSIVE Renders(_, _)
Renders(m, p) ==
    CASE p.op \in {"and", "or"} -> /\ Len(p.children) >= 2
                                   /\ \A i \in DOMAIN p.children : Renders(m, p.children[i])
      [] p.op = "not" -> Len(p.children) = 1 /\ Renders(m, p.children[1])
      [] p.op = "has" -> /\ p.values = <<>> /\ p.field \in DOMAIN Relation[m]
                         /\ \A i \in DOMAIN p.children :
                               Renders(Relation[m][p.field].target, p.children[i])
      [] p.op \in Compared -> Len(p.values) = (IF p.op = "between" THEN 2 ELSE 1) /\ NoNil(p)
      [] p.op \in {"in", "not in"} -> NoNil(p)
      [] p.op \in {"null", "not null"} -> p.values = <<>>

\* compileRelationPredicatePlan and writeRelation: the rows a Has looks for, in
\* the default soft-delete scope of every table it reads.
Related(d, m, p, row) == Associated(d, Relation[m][p.field], {KeyOf(row, Relation[m][p.field].src)}, FALSE)

AllOf(truths)  == FoldLeft(SQL!Conj, "true", truths)
SomeOf(truths) == FoldLeft(SQL!Disj, "false", truths)

\* The truth of the rendered predicate for a row of the model's table.  Has is a
\* correlated EXISTS: through the junction for many-to-many.
RECURSIVE Truth(_, _, _, _)
Truth(d, m, p, row) ==
    LET value == row[p.field]
        each(op(_)) == [i \in DOMAIN p.values |-> op(p.values[i])]
        below(model, r) == [i \in DOMAIN p.children |-> Truth(d, model, p.children[i], r)]
    IN  CASE p.op = "="  -> SQL!Equal(value, p.values[1])
          [] p.op = "<>" -> SQL!Negate(SQL!Equal(value, p.values[1]))
          [] p.op = "<"  -> SQL!Less(value, p.values[1])
          [] p.op = "between" -> SQL!Conj(SQL!Negate(SQL!Less(value, p.values[1])),
                                          SQL!Negate(SQL!Less(p.values[2], value)))
          [] p.op = "in" -> SomeOf(each(LAMBDA v : SQL!Equal(value, v)))
          [] p.op = "not in" -> SQL!Negate(SomeOf(each(LAMBDA v : SQL!Equal(value, v))))
          [] p.op = "null" -> SQL!IsNull(value)
          [] p.op = "not null" -> SQL!Negate(SQL!IsNull(value))
          [] p.op = "and" -> AllOf(below(m, row))
          [] p.op = "or"  -> SomeOf(below(m, row))
          [] p.op = "not" -> SQL!Negate(Head(below(m, row)))
          [] p.op = "has" -> SQL!Bool(\E a \in Related(d, m, p, row) :
                                AllOf(below(Relation[m][p.field].target, a.row)) = "true")

Holds(d, m, ps, row) == AllOf([i \in DOMAIN ps |-> Truth(d, m, ps[i], row)]) = "true"

---------------------------------------------------------------------------
(* analyzeRelationTopN and analyzeRelationCount.                             *)

\* collectRootCollectionHas: collection Has predicates, the nested ones too, but
\* not those inside a Has; direct ones are not below a logical operator.
RECURSIVE CollectionHas(_, _, _)
CollectionHas(m, ps, direct) ==
    FlattenSeq([i \in DOMAIN ps |->
        CASE ps[i].op = "has" /\ ~Inlined(Relation[m][ps[i].field]) -> <<[has |-> ps[i], direct |-> direct]>>
          [] ps[i].op \in {"and", "or", "not"} -> CollectionHas(m, ps[i].children, FALSE)
          [] OTHER -> <<>>])

\* conjunctiveEqualFieldExists: the field is fixed by an Equal every row must meet.
RECURSIVE Fixed(_, _)
Fixed(ps, field) ==
    \E i \in DOMAIN ps : \/ ps[i].op = "=" /\ ps[i].field = field
                         \/ ps[i].op = "and" /\ Fixed(ps[i].children, field)

Keys(table) == {PrimaryKey[table]} \cup UniqueKeys[table]

\* Mutant: any declared key that shares a column with the pair will do.
PairUniqueByOverlap(rel) ==
    ~rel.junction.via \/
        \E k \in Keys(rel.junction.table) :
            ToSet(k) \cap (ToSet(rel.junction.src) \cup ToSet(rel.junction.tgt)) # {}

\* KeyCoveredByPair: a declared key of the edge lies within the pair's columns.
PairUnique(rel) ==
    ~rel.junction.via \/
        \E k \in Keys(rel.junction.table) :
            k # <<>> /\ ToSet(k) \subseteq ToSet(rel.junction.src) \cup ToSet(rel.junction.tgt)

\* relationTopNUniquePerRoot: at most one matching target for each root.
UniquePerRoot(rel, ps) ==
    \E k \in Keys(rel.target) :
        /\ k # <<>>
        /\ \A f \in ToSet(k) : \/ rel.junction = NoJunction /\ f \in ToSet(rel.tgt)
                               \/ Fixed(ps, f)

\* relationTopNCanFilterJunction: the junction columns alone decide the match.
RECURSIVE PairOnly(_, _)
PairOnly(rel, p) ==
    \/ p.op = "=" /\ p.field \in ToSet(rel.tgt)
    \/ p.op = "and" /\ Len(p.children) >= 2 /\ \A i \in DOMAIN p.children : PairOnly(rel, p.children[i])

\* Mutant: a soft-deleted target is not looked up.
JunctionOnlyDespiteScope(rel, ps) ==
    /\ rel.junction # NoJunction
    /\ \E k \in Keys(rel.target) : Len(k) = Len(rel.tgt) /\ ToSet(rel.tgt) \subseteq ToSet(k)
    /\ \A i \in DOMAIN ps : PairOnly(rel, ps[i])

JunctionOnly(rel, ps) ==
    /\ rel.junction # NoJunction
    /\ rel.target \notin SoftDelete
    /\ \E k \in Keys(rel.target) : Len(k) = Len(rel.tgt) /\ ToSet(rel.tgt) \subseteq ToSet(k)
    /\ \A i \in DOMAIN ps : PairOnly(rel, ps[i])

Collected(q) == CollectionHas(q.model, q.predicates, TRUE)
TheHas(q)    == Head(Collected(q)).has
TheRelation(q) == Relation[q.model][TheHas(q).field]

RootScoped(q) == q.model \in SoftDelete /\ ~q.withDeleted

\* DecideStructural.
Structural(q) ==
    LET n == Len(Collected(q))
    IN  IF n = 0 THEN "none"
        ELSE IF n > 1 THEN "multiple collections"
        ELSE IF ~Head(Collected(q)).direct THEN "nested collection"
        ELSE IF q.seek THEN "seek"
        ELSE IF Len(q.predicates) # 1 THEN "root predicate"
        ELSE IF RootScoped(q) THEN "root soft delete"
        ELSE "needs metadata"

OrderMatches(rel, order) ==
    Len(order) = Len(rel.src) /\ \A i \in DOMAIN order : order[i].field = rel.src[i]

\* DecideMetadata, after the proof that the edge pair is unique.
Metadata(q) ==
    LET rel == TheRelation(q)
    IN  IF rel.junction # NoJunction /\ ~PairUnique(rel) THEN "edge uniqueness"
        ELSE IF rel.src # PrimaryKey[q.model] THEN "source key"
        ELSE IF ~OrderMatches(rel, q.order) THEN "order"
        ELSE IF ~UniquePerRoot(rel, TheHas(q).children) THEN "target uniqueness"
        ELSE "optimized"

TopNCandidate(q) == ~q.forceIndex /\ q.limit > 0 /\ q.order # <<>>

TopN(q) ==
    IF ~TopNCandidate(q) THEN "none"
    ELSE IF Structural(q) = "needs metadata" THEN Metadata(q) ELSE Structural(q)

RelationCount(q) ==
    /\ ~q.forceIndex /\ q.limit = 0 /\ q.offset = 0 /\ ~q.seek /\ ~RootScoped(q)
    /\ Structural(q) = "needs metadata"
    /\ TheRelation(q).src = PrimaryKey[q.model]
    /\ UniquePerRoot(TheRelation(q), TheHas(q).children)
    /\ TheRelation(q).junction # NoJunction =>
          PairUnique(TheRelation(q)) /\ JunctionOnly(TheRelation(q), TheHas(q).children)

---------------------------------------------------------------------------
(* The rows of the two forms.                                                *)

\* ORDER BY the key columns, then LIMIT and OFFSET, of a set of records that
\* hold their key; NULL comes first ascending.
Sorted(records, order) ==
    LET before(a, b) == \E i \in DOMAIN order :
            /\ SQL!TermBefore(order[i], a.key[i], b.key[i])
            /\ \A j \in 1 .. i - 1 : a.key[j] = b.key[j]
    IN  SetToSortSeq(records, before)

Limited(s, q) == SubSeq(s, q.offset + 1,
                        IF q.limit = 0 \/ q.offset + q.limit > Len(s) THEN Len(s) ELSE q.offset + q.limit)

RootKey(q, row) == KeyOf(row, PrimaryKey[q.model])

Roots(d, q) == {r \in d[q.model] : Visible(q.model, r, q.withDeleted) /\ Holds(d, q.model, q.predicates, r)}

ExistsPage(d, q) ==
    LET all == {[key |-> KeyOf(r, [i \in DOMAIN q.order |-> q.order[i].field]), id |-> RootKey(q, r)] : r \in Roots(d, q)}
    IN  [i \in DOMAIN Limited(Sorted(all, q.order), q) |-> Limited(Sorted(all, q.order), q)[i].id]

\* writeRelationTopNJunctionScope: a via edge in its soft-delete scope, without NULLs.
InScope(rel, e) ==
    rel.junction.via => /\ Visible(rel.junction.table, e, FALSE)
                        /\ Valid(KeyOf(e, rel.junction.src)) /\ Valid(KeyOf(e, rel.junction.tgt))

EdgeTarget(rel, e) == [f \in ToSet(rel.tgt) |-> e[rel.junction.tgt[CHOOSE i \in DOMAIN rel.tgt : rel.tgt[i] = f]]]

\* The association rows the derived table (or the count) reads: target rows, or
\* junction rows joined to their target unless the junction alone decides.
Associations(d, rel, ps) ==
    IF rel.junction = NoJunction
    THEN {[key |-> KeyOf(t, rel.tgt), of |-> <<t>>] :
            t \in {u \in d[rel.target] : Visible(rel.target, u, FALSE) /\ Holds(d, rel.target, ps, u)}}
    ELSE IF JunctionOnly(rel, ps)
    THEN {[key |-> KeyOf(e, rel.junction.src), of |-> <<e>>] :
            e \in {x \in d[rel.junction.table] :
                     InScope(rel, x) /\ Holds(d, rel.target, ps, EdgeTarget(rel, x))}}
    ELSE {[key |-> KeyOf(x[1], rel.junction.src), of |-> x] :
            x \in {y \in d[rel.junction.table] \X d[rel.target] :
                     /\ InScope(rel, y[1])
                     /\ KeyOf(y[1], rel.junction.tgt) = KeyOf(y[2], rel.tgt)
                     /\ Visible(rel.target, y[2], FALSE) /\ Holds(d, rel.target, ps, y[2])}}

\* The derived table of limited keys, inner joined to the root.
RelationFirstPage(d, q) ==
    LET rel == TheRelation(q)
        keys == Limited(Sorted(Associations(d, rel, TheHas(q).children), q.order), q)
        found == SelectSeq(keys, LAMBDA k : \E r \in d[q.model] : KeyOf(r, rel.src) = k.key)
    IN  [i \in DOMAIN found |-> found[i].key]

\* compileRelationCount: COUNT(*) of the association rows.
AssociationCount(d, q) == Cardinality(Associations(d, TheRelation(q), TheHas(q).children))

---------------------------------------------------------------------------
(* Build, then one terminal: All, First, Only, Count or Exists.              *)

Found(terminal, rows, n) == [terminal |-> terminal, rows |-> rows, n |-> n]

QueryInit ==
    /\ query \in Queries \cup {NoQuery}
    /\ form = IF query = NoQuery THEN "idle" ELSE "built"
    /\ answer = NotRead

CompileQuery ==
    /\ form = "built"
    /\ form' = IF \E i \in DOMAIN query.predicates : ~Renders(query.model, query.predicates[i])
               THEN "failed" ELSE "compiled"
    /\ UNCHANGED <<query, answer>>

\* The rows the SELECT returns when its limit is replaced; without an order,
\* whichever come first.
WithLimit(d, q, limit) ==
    LET limited == [q EXCEPT !.limit = limit]
    IN  IF TopN(limited) = "optimized" THEN RelationFirstPage(d, limited) ELSE ExistsPage(d, limited)

Answers(result) == form = "compiled" /\ answer = NotRead /\ answer' = result /\ UNCHANGED <<query, form>>

All == Answers(LET rows == WithLimit(db, query, query.limit) IN Found("all", rows, Len(rows)))

First == Answers(LET rows == WithLimit(db, query, 1) IN Found("first", rows, Len(rows)))

\* LIMIT 2 tells one row from several; ErrMultipleRows comes without a row.
Only == Answers(LET rows == WithLimit(db, query, 2)
                IN  Found("only", IF Len(rows) = 2 THEN <<>> ELSE rows, Len(rows)))

Count ==
    Answers(Found("count", <<>>,
        IF RelationCount(query) THEN AssociationCount(db, query)
        ELSE IF query.limit > 0 \/ query.offset > 0 THEN Len(ExistsPage(db, query))
        ELSE Cardinality(Roots(db, query))))

\* SELECT 1 ... LIMIT 1: never relation first.
Exists == Answers(Found("exists", <<>>, Len(ExistsPage(db, [query EXCEPT !.limit = 1]))))

Ask == CompileQuery \/ All \/ First \/ Only \/ Count \/ Exists

---------------------------------------------------------------------------

\* The query as it was written, without its limit.
Whole == ExistsPage(db, [query EXCEPT !.limit = 0])

Answered(terminals) == answer' # answer /\ answer'.terminal \in terminals

\* Whatever form the compiler chooses, All returns the page of the query as it was
\* written: the roots for which the relation exists, in order, after LIMIT and
\* OFFSET.  First returns the first of those roots, and Only one that has no second.
PageIsTheQuery ==
    [][Answered({"all", "first", "only"}) =>
          answer'.rows = CASE answer'.terminal = "all"   -> ExistsPage(db, query)
                           [] answer'.terminal = "first" -> SubSeq(Whole, 1, Min({1, Len(Whole)}))
                           [] answer'.terminal = "only"  -> IF Len(Whole) = 1 THEN Whole ELSE <<>>
      ]_<<db, queryVars>>

\* And the count is the number of those roots (of that page, when it has one);
\* Exists tells whether there is one, Only whether there are more.
CountIsTheQuery ==
    [][Answered({"count", "exists", "only"}) =>
          answer'.n = CASE answer'.terminal = "count"  -> Len(ExistsPage(db, query))
                        [] answer'.terminal = "exists" -> Min({1, Len(Whole)})
                        [] answer'.terminal = "only"   -> Min({2, Len(Whole)})]_<<db, queryVars>>
=============================================================================
