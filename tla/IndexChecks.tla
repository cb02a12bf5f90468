----------------------------- MODULE IndexChecks -----------------------------
(***************************************************************************)
(* The index checks of captured statements: the bind-free shape the ORM        *)
(* builds of a SELECT or of a conditional write, and what querycheck makes of   *)
(* it with the tables of a schema snapshot.  Identifiers are compared without    *)
(* regard to letter case in the code, and are model values here.  A predicate     *)
(* is a number: that of its node in Nodes, after the nodes below it.              *)
(***************************************************************************)
EXTENDS Integers, Sequences, FiniteSets, SequencesExt

CONSTANTS
    NoColumn,
    SoftDelete,  \* column of the soft-delete field; NULL in the rows that are not deleted
    SourceKey,   \* a relation-first TopN reads this column in order,
    TargetKey,   \* and through a junction this one has a value of the target
    Domain,      \* values a column can have; NULL is the smallest
    NullValue,
    Nodes,       \* of the predicates: operator, column, values, and the predicates below
    Queries, Writes, Tables

Predicates == 1 .. Len(Nodes)
IsSequence(s) == s \in Seq({s[i] : i \in DOMAIN s})

ASSUME IndexChecksAssumption ==
    /\ NullValue \in Domain /\ \A v \in Domain : v \in Int /\ NullValue <= v
    /\ Len(Nodes) \in Nat
    /\ \A p \in Predicates : /\ Nodes[p].children \subseteq 1 .. p - 1
                             /\ Nodes[p].op = "not" => Cardinality(Nodes[p].children) = 1
    /\ \A q \in Queries : q.predicates \subseteq Predicates /\ IsSequence(q.order)
    /\ \A w \in Writes : w.predicates \subseteq Predicates
    /\ \A t \in Tables : \A i \in t.indexes : IsSequence(i.columns)

VARIABLE audit  \* the last statement checked, its table, and the answer

NoAudit == [kind |-> "none"]

---------------------------------------------------------------------------
(* Shapes: buildQueryShapeIndexAccesses, buildMutationShape.                   *)

Logical == {"and", "or", "not"}

\* A predicate and everything below it.
Under[p \in Predicates] == {p} \cup UNION {Under[child] : child \in Nodes[p].children}
NodesOf(predicates) == {Nodes[p] : p \in UNION {Under[q] : q \in predicates}}

\* queryShapeConjunctiveEqualityColumns: equalities, and conjunctions of them.
Conjunctive(predicates) == \A n \in NodesOf(predicates) : n.op \in {"equal", "and"}
EqualityColumns(predicates) == {n.column : n \in {m \in NodesOf(predicates) : m.op = "equal"}}

UniformOrder(order) ==
    order # <<>> /\ \A i \in DOMAIN order : order[i].direction = order[1].direction

NoAccess == [equal |-> {}, order |-> <<>>, force |-> "", wanted |-> FALSE]

\* The column that is NULL in the rows asked for; a relation's rows are live ones.
DeletedIsNull(q) ==
    IF q.withDeleted /\ q.topn = "" THEN {} ELSE {SoftDelete} \ {NoColumn}

\* The access whose order and limit an index could serve; through a junction
\* the equalities are those of the target rows, and not of this access.
Access(q) ==
    IF \/ q.engine = "tiflash" \/ ~q.limited
       \/ ~UniformOrder(q.order) \/ ~Conjunctive(q.predicates)
    THEN NoAccess
    ELSE [equal |-> DeletedIsNull(q) \cup (IF q.topn = "junction" THEN {TargetKey}
                                          ELSE EqualityColumns(q.predicates)),
          order |-> IF q.topn = "" THEN [i \in DOMAIN q.order |-> q.order[i].column] ELSE <<SourceKey>>,
          force |-> IF q.topn = "" THEN q.force ELSE "", wanted |-> TRUE]

---------------------------------------------------------------------------
(* SELECT: IndexDiagnostics and tableHasAccessIndex.                           *)

\* SupportsDefaultColumnLookup and ProvidesUnconditionalUniqueness: an
\* invisible index still enforces its constraint, but serves no lookup.
Usable(index) == index.form = "direct"
Unique(index) == index.unique /\ index.form \in {"direct", "invisible"}

\* The order that is left after the columns with one value, each column once.
FreeOrder(access) ==
    FoldLeft(LAMBDA free, column : IF column \in access.equal \cup Range(free) THEN free ELSE Append(free, column),
             <<>>, access.order)

\* The columns with one value in any order, then the others in their order.
Serves(index, access) ==
    LET n == Cardinality(access.equal)  free == FreeOrder(access)
    IN  /\ n + Len(free) > 0
        /\ \/ Unique(index) /\ {index.columns[i] : i \in DOMAIN index.columns} \subseteq access.equal
           \/ /\ Len(index.columns) >= n + Len(free)
              /\ {index.columns[i] : i \in 1..n} = access.equal
              /\ \A i \in DOMAIN free : index.columns[n + i] = free[i]

ServingIndexes(access, table) ==
    {i \in table.indexes : /\ access.force \in {"", i.name}
                           /\ Usable(i) /\ i.columns # <<>> /\ Serves(i, access)}

Needed(access) == access.equal \cup {access.order[i] : i \in DOMAIN access.order}

SelectFinding(access, table) ==
    IF ~access.wanted THEN "none"
    ELSE IF \/ access.force # "" /\ ~\E i \in table.indexes : i.name = access.force
            \/ ~(Needed(access) \subseteq table.columns)
    THEN "QRY006"
    ELSE IF ServingIndexes(access, table) = {} THEN "QRY007" ELSE "none"

---------------------------------------------------------------------------
(* Conditional writes: MutationIndexDiagnostics.                               *)

Supported == {"equal", "in", "is_null", "greater_than"}  \* and the other positive bounds

IsEmptyList(n) == n.op \in {"in", "not_in"} /\ n.values = {}

\* mutationConstantGroup: what is decided whatever the others are.
Group(op, parts) ==
    LET decisive == IF op = "or" THEN "true" ELSE "false"
        other    == IF op = "or" THEN "false" ELSE "true"
    IN  IF decisive \in parts THEN decisive ELSE IF parts = {other} THEN other ELSE "variable"

Negated == [true |-> "false", false |-> "true", variable |-> "variable", unknown |-> "unknown"]

\* mutationPredicateConstant: what empty lists alone decide.
Constant[p \in Predicates] ==
    LET n == Nodes[p]  parts == {Constant[child] : child \in n.children}
    IN  CASE IsEmptyList(n) -> IF n.op = "in" THEN "false" ELSE "true"
          [] n.op \in {"and", "or"} -> Group(n.op, parts)
          [] n.op = "not" -> IF Cardinality(n.children) = 1 THEN Negated[CHOOSE part \in parts : TRUE] ELSE "variable"
          [] OTHER -> "variable"

\* mutationPredicateBoundsColumn: one bound of a conjunction, every branch of a
\* disjunction; a branch that is FALSE adds no rows.
BoundPredicates(column) ==
    LET bounds[p \in Predicates] ==
            LET n == Nodes[p]
            IN  CASE n.op = "and" -> \E child \in n.children : bounds[child]
                  [] n.op = "or"  -> n.children # {} /\ \A child \in n.children : bounds[child]
                  [] n.op = "not" -> Constant[p] = "false"
                  [] OTHER -> \/ n.op = "in" /\ n.values = {}
                              \/ n.op \in Supported /\ n.column = column
    IN  {p \in Predicates : bounds[p]}

\* inspectMutationPredicates: the columns read, and shapes whose lookups it does
\* not claim to know.
Columns(w) == {n.column : n \in {m \in NodesOf(w.predicates) : m.op \notin Logical /\ ~IsEmptyList(m)}}

Uncertain(w) ==
    \E p \in UNION {Under[q] : q \in w.predicates} :
        LET n == Nodes[p]
        IN  IF n.op \in Logical
            THEN n.children = {} \/ (n.op # "and" /\ Constant[p] = "variable")
            ELSE ~IsEmptyList(n) /\ n.op \notin Supported

BoundingIndexes(w, table) ==
    {i \in table.indexes : /\ Usable(i) /\ i.columns # <<>>
                           /\ \/ i.columns[1] \in DeletedIsNull(w)
                              \/ w.predicates \cap BoundPredicates(i.columns[1]) # {}}

WriteFinding(w, table) ==
    IF ~(Columns(w) \cup DeletedIsNull(w) \subseteq table.columns)
    THEN "QRY006"
    ELSE IF \/ Group("and", {Constant[p] : p \in w.predicates}) = "false"
            \/ BoundingIndexes(w, table) # {}
    THEN "none"
    ELSE IF Uncertain(w) \/ \E i \in table.indexes : ~Usable(i) THEN "QRY009" ELSE "QRY008"

---------------------------------------------------------------------------
(* Actions: a record with a shape is checked with the snapshot's table.         *)

IndexChecksInit == audit = NoAudit

CheckSelect(q, table) ==
    audit' = [kind |-> "select", of |-> q, table |-> table, code |-> SelectFinding(Access(q), table)]

CheckWrite(w, table) ==
    audit' = [kind |-> "write", of |-> w, table |-> table, code |-> WriteFinding(w, table)]

---------------------------------------------------------------------------
(* What the answers are compared with: rows, and SQL's three-valued logic.      *)

AllRows(table) == [table.columns -> Domain]

\* Tables the constraints of the schema allow; NULL is never a duplicate.
Allowed(rows, table) ==
    \A i \in table.indexes : Unique(i) =>
        \A r, s \in rows : r # s =>
            \E n \in DOMAIN i.columns :
                r[i.columns[n]] # s[i.columns[n]] \/ r[i.columns[n]] = NullValue

RowSets(table) ==
    {rows \in {{r, s, t} : r, s, t \in AllRows(table)} : Allowed(rows, table)}

Before(r, s, columns) ==
    \E n \in DOMAIN columns :
        /\ r[columns[n]] < s[columns[n]]
        /\ \A m \in 1 .. n - 1 : r[columns[m]] = s[columns[m]]

\* The rows of the access are one range of the index, in the order wanted.
RangeInOrder(index, access, rows, found) ==
    /\ \A r, s \in found : Before(r, s, access.order) => Before(r, s, index.columns)
    /\ \A r, s \in found, t \in rows \ found :
          ~(Before(r, t, index.columns) /\ Before(t, s, index.columns))

\* Rows with given values of the equality columns, and those not deleted.
Found(rows, access, deleted, value) ==
    {r \in rows : \A c \in access.equal : IF c \in deleted THEN r[c] = NullValue ELSE r[c] = value[c]}

\* A SELECT that is not reported reads one range of an index, in its order, or at
\* most one row, whatever the table holds.  (A unique index on the soft-delete
\* column is left out: NULLs in it are not unique.)
OrderedAccessesServed ==
    audit.kind = "select" /\ audit.code = "none" /\ Access(audit.of).wanted =>
        LET access == Access(audit.of)
            values == [access.equal -> Domain \ {NullValue}]
        IN  \E i \in audit.table.indexes :
               /\ Usable(i) /\ access.force \in {"", i.name}
               /\ \/ i.unique /\ SoftDelete \in {i.columns[n] : n \in DOMAIN i.columns}
                  \/ \A rows \in RowSets(audit.table), value \in values :
                        LET found == Found(rows, access, DeletedIsNull(audit.of), value)
                        IN  Cardinality(found) <= 1 \/ RangeInOrder(i, access, rows, found)

Both(parts)   == IF "false" \in parts THEN "false" ELSE IF "unknown" \in parts THEN "unknown" ELSE "true"
Either(parts) == IF "true" \in parts THEN "true" ELSE IF "unknown" \in parts THEN "unknown" ELSE "false"

\* A predicate that reads a column, for its value.
Compared(n, value) ==
    CASE n.op = "is_null" -> IF value = NullValue THEN "true" ELSE "false"
      [] n.op # "is_null" /\ value = NullValue -> "unknown"
      [] n.op # "is_null" /\ value # NullValue ->
            IF CASE n.op = "greater_than" -> \E v \in n.values : value > v
                 [] n.op \in {"not_in", "not_equal"} -> value \notin n.values
                 [] OTHER -> value \in n.values
            THEN "true" ELSE "false"

TruthOf(r) ==
    LET truth[p \in Predicates] ==
            LET n == Nodes[p]  parts == {truth[child] : child \in n.children}
            IN  CASE IsEmptyList(n) -> IF n.op = "in" THEN "false" ELSE "true"
                  [] n.op = "and" -> Both(parts)
                  [] n.op = "or"  -> Either(parts)
                  [] n.op = "not" -> Negated[CHOOSE part \in parts : TRUE]
                  [] OTHER -> Compared(n, r[n.column])
    IN  truth

\* A conditional write that is not reported changes no row, or every row it can
\* change lies in a range that one of its conditions gives for the leading
\* column of an index.
WritesAreBounded ==
    audit.kind = "write" /\ audit.code = "none" =>
        LET w == audit.of
            changed == {r \in AllRows(audit.table) : /\ \A p \in w.predicates : TruthOf(r)[p] = "true"
                                                    /\ \A c \in DeletedIsNull(w) : r[c] = NullValue}
        IN  \/ changed = {}
            \/ \E i \in audit.table.indexes :
                  /\ Usable(i) /\ i.columns # <<>>
                  /\ \/ i.columns[1] \in DeletedIsNull(w)
                     \/ \A r \in changed : \E p \in UNION {Under[q] : q \in w.predicates} :
                           /\ Nodes[p].op \in Supported /\ Nodes[p].column = i.columns[1]
                           /\ ~IsEmptyList(Nodes[p]) /\ TruthOf(r)[p] = "true"

\* What the index checks accept, the indexes of the snapshot serve.
AcceptedIndexesServe == OrderedAccessesServed /\ WritesAreBounded
=============================================================================
