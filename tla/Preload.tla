------------------------------- MODULE Preload -------------------------------
(***************************************************************************)
(* SELECT with Preload: the paths of a request become a tree of relation     *)
(* plans; to-one relations are joined into the statement above them, every   *)
(* collection runs statements of its own, batched by the keys of the parents *)
(* hydrated before, depth first.  Relation mutations and other writes run     *)
(* between the statements.                                                   *)
(*                                                                           *)
(* Hydrated values live on a heap, because they are shared: parents with the *)
(* same key get copies of one scanned target, and a copy is shallow.  An      *)
(* object holds its scanned row and, for each relation field requested below  *)
(* its node, the objects the field refers to (none for nil); and, as history, *)
(* the table row it came from.                                               *)
(***************************************************************************)
EXTENDS RelationMutations

CONSTANTS
    Requests,      \* the SELECTs a behaviour can make, see RequestAssumption
    NoRequest,     \* the behaviour makes none
    KeyBudget,     \* parameters a keyed batch aims at (5000 in the code)
    ReadFaults     \* subset of {"query"}

\* A node is the path of relation fields that leads to it; the root is <<>>.
ASSUME RequestAssumption ==
    /\ KeyBudget \in Nat \ {0} /\ ReadFaults \subseteq {"query"}
    /\ \A q \in Requests :
          /\ q.paths \in Seq(Seq(STRING)) /\ <<>> \notin ToSet(q.paths)
          /\ q.unfiltered \in BOOLEAN      \* no predicate, cursor, limit or offset
          /\ q.rootDeleted \in BOOLEAN     \* WithDeleted on the root
          /\ \A p \in DOMAIN q.fields : p = <<>> \/ p \in ToSet(q.paths)
          /\ q.ordered \subseteq ToSet(q.paths)      \* PreloadOrderBy
          /\ q.withDeleted \subseteq ToSet(q.paths)  \* PreloadWithDeleted

VARIABLES
    req,      \* the request of this behaviour
    phase,    \* "idle", "compile", "select", "preload", "returned" or "failed"
    heap,     \* the hydrated objects
    roots,    \* the result: object numbers
    work,     \* plans still to execute, with their parents, in order
    run,      \* the collection whose batches are being executed, or Idle
    read,     \* history: what each executed collection key was associated with
    batches   \* the batch metadata captured with each statement

loadVars == <<req, phase, heap, roots, work, run, read, batches>>

Idle == [node |-> <<>>, parents |-> <<>>, keys |-> <<>>, start |-> 0, count |-> 0]

PreloadInit ==
    /\ req \in {q \in Requests : q.model \in DOMAIN db} \cup {NoRequest}
    /\ phase = IF req = NoRequest THEN "idle" ELSE "compile"
    /\ heap = <<>> /\ roots = <<>> /\ work = <<>> /\ run = Idle
    /\ read = {} /\ batches = <<>>

---------------------------------------------------------------------------
(* compilePreloadPlans: the tree of plans and what it refuses.                *)

\* The elements of a sequence that are in S, and those it holds once each, in the
\* order in which they first come.
Among(S, seq) == FoldLeft(LAMBDA kept, x : IF x \in S THEN Append(kept, x) ELSE kept, <<>>, seq)
Distinct(seq) == FoldLeft(LAMBDA seen, x : IF x \in ToSet(seen) THEN seen ELSE Append(seen, x), <<>>, seq)

\* buildPreloadNodes: nodes in the order the paths first reach them.
NodeList(q) ==
    LET prefixes(p) == [n \in 1 .. Len(p) |-> SubSeq(p, 1, n)]
    IN  Distinct(FlattenSeq([i \in DOMAIN q.paths |-> prefixes(q.paths[i])]))

Children(q, p) == Among({n \in ToSet(NodeList(q)) : Len(n) = Len(p) + 1 /\ IsPrefix(p, n)}, NodeList(q))

ModelAt(q, p) == FoldLeft(LAMBDA m, name : Relation[m][name].target, q.model, p)
Plan(q, p)    == Relation[ModelAt(q, Front(p))][Last(p)]
Inline(q, p)  == Inlined(Plan(q, p))

Collections(q, p) == {c \in ToSet(Children(q, p)) : ~Inline(q, c)}

\* Mapped: every name of the path is a relation field of the model before it.
Mapped(q, path) ==
    LET known[n \in 0 .. Len(path)] ==
            n = 0 \/ (known[n - 1] /\ path[n] \in DOMAIN Relation[ModelAt(q, SubSeq(path, 1, n - 1))])
    IN  known[Len(path)]

SoftDeletes(rel) ==
    rel.target \in SoftDelete \/ (rel.junction # NoJunction /\ rel.junction.table \in SoftDelete)

CompileFails(q) ==
    \/ ~IsInjective(q.paths)
    \/ \E i \in DOMAIN q.paths : ~Mapped(q, q.paths[i])
    \/ \E p \in q.withDeleted : ~SoftDeletes(Plan(q, p))
    \/ \E p \in q.ordered : Inline(q, p)

\* Mutant: the keys of collections below a projected relation are not added.
ProjectionWithoutKeys(q, p, row) ==
    IF p \notin DOMAIN q.fields THEN DOMAIN row
    ELSE q.fields[p] \cup (IF p = <<>> THEN {} ELSE ToSet(Plan(q, p).tgt))

\* preloadTargetProjection and preloadProjection: an explicit field list gets the
\* relation's target key and the source keys of the collections below it.
Projection(q, p, row) ==
    IF p \notin DOMAIN q.fields THEN DOMAIN row
    ELSE q.fields[p] \cup UNION {ToSet(Plan(q, c).src) : c \in Collections(q, p)}
                     \cup (IF p = <<>> THEN {} ELSE ToSet(Plan(q, p).tgt))

\* selectLoadsEverySourceRow: a root collection is read whole instead of by keys.
LoadAll(q, p) ==
    Len(p) = 1 /\ q.unfiltered /\ (q.model \notin SoftDelete \/ q.rootDeleted)

\* compilePreloadPlan refuses a relation without key fields, and one with more of
\* them than a statement has placeholders.
ASSUME KeyWidthAssumption ==
    \A q \in Requests : ~CompileFails(q) =>
        \A c \in ToSet(NodeList(q)) : Len(Plan(q, c).src) \in 1 .. ParameterLimit

\* A database with the table of the model has the tables of its relations.
ASSUME TablesAssumption ==
    \A d \in Databases : \A q \in Requests : q.model \in DOMAIN d /\ ~CompileFails(q) =>
        \A n \in ToSet(NodeList(q)) :
            /\ Plan(q, n).target \in DOMAIN d
            /\ Plan(q, n).junction # NoJunction => Plan(q, n).junction.table \in DOMAIN d

BatchSize(q, p) ==
    LET width == Len(Plan(q, p).src)
        least == IF KeyBudget < ParameterLimit THEN KeyBudget ELSE ParameterLimit
    IN  IF least \div width = 0 THEN 1 ELSE least \div width

---------------------------------------------------------------------------
(* One statement: base rows with their inline LEFT JOINs.                     *)

\* What a LEFT JOIN gives where it finds nothing.
NoRow == <<>>

Joins(q, c, row) == Associated(db, Plan(q, c), {KeyOf(row, Plan(q, c).src)}, c \in q.withDeleted)

\* compileInlinePreloadStatement: the to-one relations below p with nothing but to-one
\* relations between, joined into the statement of p.
Joined(q, p) ==
    Among({n \in ToSet(NodeList(q)) : /\ Len(n) > Len(p) /\ IsPrefix(p, n)
                                      /\ \A k \in Len(p) + 1 .. Len(n) : Inline(q, SubSeq(n, 1, k))},
          NodeList(q))

\* The joined rows of a base row: for each combination of matches the row of every
\* joined node, NoRow where a join found none.
Trees(q, p, row) ==
    LET nodes == ToSet(Joined(q, p))
        rows == {NoRow, row} \cup UNION {db[Plan(q, n).target] : n \in nodes}
        matches(t, n) == IF t[Front(n)] = NoRow THEN {} ELSE {m.row : m \in Joins(q, n, t[Front(n)])}
    IN  {t \in [nodes \cup {p} -> rows] :
            /\ t[p] = row
            /\ \A n \in nodes : IF matches(t, n) = {} THEN t[n] = NoRow ELSE t[n] \in matches(t, n)}

\* Rows are ordered by their first key field.
NotAfter(r, s) == r = s \/ r.id <= s.id

\* Mutant: the order of a collection is not rendered.
OrdersUnsorted(rows, ordered) == SetToSeqs(rows)

\* The rows in the order the statement returns them: PreloadOrderBy sorts them,
\* otherwise any order is possible.
Orders(rows, ordered) ==
    {s \in SetToSeqs(rows) :
        ordered => \A i, j \in DOMAIN s : i < j => NotAfter(s[i].row, s[j].row)}

---------------------------------------------------------------------------
(* Hydration.                                                                 *)

Fields(q, p, row) == [f \in DOMAIN row |-> IF f \in Projection(q, p, row) THEN row[f] ELSE Null]

\* hydrateInlinePreloads: a scanned row becomes an object with an object of its
\* own for every join that found a row.  The base object is the last of the heap.
Hydrate(h, q, p, tree) ==
    LET present == Append(Among({n \in DOMAIN tree : tree[n] # NoRow}, Joined(q, p)), p)
        place(c) == Len(h) + CHOOSE i \in DOMAIN present : present[i] = c
        object(n) == [row |-> Fields(q, n, tree[n]), of |-> tree[n],
                      rel |-> [c \in ToSet(Children(q, n)) |->
                                  IF c \in ToSet(present) THEN <<place(c)>> ELSE <<>>]]
    IN  h \o [i \in DOMAIN present |-> object(present[i])]

\* assignPreloadedTarget for every parent of the key: the first gets the scanned
\* target, each other parent a shallow copy, in pointer and value slices alike.
Assign(h, c, parents) ==
    LET last == Len(h)
        copied == h \o [i \in 1 .. Len(parents) - 1 |-> h[last]]
        targets == [i \in DOMAIN parents |-> last + i - 1]
        given(o) == Among({t \in ToSet(targets) : parents[t - last + 1] = o}, targets)
    IN  [o \in DOMAIN copied |-> IF o \in ToSet(parents) THEN [copied[o] EXCEPT !.rel[c] = @ \o given(o)]
                                 ELSE copied[o]]

\* One row: a target of every parent with the key, or of none.  A row of no requested
\* key is skipped; it only comes when the relation was read whole.
HydrateRow(h, q, c, parents, r) ==
    LET owners == Among({o \in ToSet(parents) : KeyOf(h[o].row, Plan(q, c).src) = r.key}, parents)
    IN  IF owners = <<>> THEN h ELSE Assign(Hydrate(h, q, c, r.tree), c, owners)

\* hydratePreloadBatch: rows one after the other.
HydrateRows(h, q, c, parents, rows) ==
    LET after[k \in 0 .. Len(rows)] ==
            IF k = 0 THEN h ELSE HydrateRow(after[k - 1], q, c, parents, rows[k])
    IN  after[Len(rows)]

\* collectPreloadedTargets: the field of every parent in turn; an object that
\* several parents refer to is listed once for each.
Targets(h, c, parents) == FlattenSeq([i \in DOMAIN parents |-> h[parents[i]].rel[c]])

Tasks(q, p, parents) ==
    IF parents = <<>> THEN <<>>
    ELSE [i \in DOMAIN Children(q, p) |-> [node |-> Children(q, p)[i], parents |-> parents]]

---------------------------------------------------------------------------
(* All: the root statement, then executePreloads.                             *)

CompileLoad ==
    /\ phase = "compile"
    /\ phase' = IF CompileFails(req) THEN "failed" ELSE "select"
    /\ UNCHANGED <<writeVars, req, heap, roots, work, run, read, batches>>

\* One scanned root: its object is the last of the heap.
WithRoot(found, q, tree) ==
    LET h == Hydrate(found.heap, q, <<>>, tree) IN [heap |-> h, ids |-> Append(found.ids, Len(h))]

\* The root rows the request selects, each with its inline relations.
SelectRoots ==
    LET visible == {r \in db[req.model] : /\ Visible(req.model, r, req.rootDeleted)
                                          /\ req.unfiltered \/ r.id \in req.only}
        rows == UNION {{[row |-> r, tree |-> t] : t \in Trees(req, <<>>, r)} : r \in visible}
    IN  /\ phase = "select"
        /\ \E s \in Orders(rows, FALSE) :
              LET all[k \in 0 .. Len(s)] ==
                      IF k = 0 THEN [heap |-> <<>>, ids |-> <<>>]
                      ELSE WithRoot(all[k - 1], req, s[k].tree)
              IN  /\ heap' = all[Len(s)].heap
                  /\ roots' = all[Len(s)].ids
                  /\ work' = Tasks(req, <<>>, roots')
        /\ phase' = "preload"
        /\ UNCHANGED <<writeVars, req, run, read, batches>>

\* A to-one relation was joined already: only the plans below it are executed.
PassInline ==
    /\ phase = "preload" /\ run = Idle /\ work # <<>>
    /\ Inline(req, Head(work).node)
    /\ work' = Tasks(req, Head(work).node, Targets(heap, Head(work).node, Head(work).parents))
               \o Tail(work)
    /\ UNCHANGED <<writeVars, req, phase, heap, roots, run, read, batches>>

\* preparePreloadParents: the relation field of every parent is reset; the keys
\* are the valid ones, once each, in parent order.
PrepareCollection ==
    LET c == Head(work).node
        parents == Head(work).parents
        cleared == [o \in DOMAIN heap |-> IF o \in ToSet(parents) THEN [heap[o] EXCEPT !.rel[c] = <<>>] ELSE heap[o]]
        found == [i \in DOMAIN parents |-> KeyOf(heap[parents[i]].row, Plan(req, c).src)]
        keys == Distinct(Among({k \in ToSet(found) : Valid(k)}, found))
    IN  /\ phase = "preload" /\ run = Idle /\ work # <<>>
        /\ ~Inline(req, c)
        /\ heap' = cleared
        /\ run' = [node |-> c, parents |-> parents, keys |-> keys, start |-> 0,
                   count |-> IF LoadAll(req, c) THEN 1
                             ELSE (Len(keys) + BatchSize(req, c) - 1) \div BatchSize(req, c)]
        /\ UNCHANGED <<writeVars, req, phase, roots, work, read, batches>>

\* Mutant: a batch takes the first key of the next one.
NextKeysOverrun ==
    IF LoadAll(req, run.node) THEN run.keys
    ELSE SubSeq(run.keys, run.start + 1,
                LET end == run.start + BatchSize(req, run.node) + 1
                IN  IF end < Len(run.keys) THEN end ELSE Len(run.keys))

\* The keys of the next statement: all at once when the relation is read whole.
NextKeys ==
    IF LoadAll(req, run.node) THEN run.keys
    ELSE SubSeq(run.keys, run.start + 1,
                LET end == run.start + BatchSize(req, run.node)
                IN  IF end < Len(run.keys) THEN end ELSE Len(run.keys))

\* The statement of one batch, or of the whole relation, read and hydrated.
RunBatch ==
    LET c == run.node
        keys == NextKeys
        wanted == IF LoadAll(req, c)
                  THEN {KeyOf(r, IF Plan(req, c).junction = NoJunction THEN Plan(req, c).tgt
                                 ELSE Plan(req, c).junction.src) :
                          r \in db[IF Plan(req, c).junction = NoJunction THEN Plan(req, c).target
                                   ELSE Plan(req, c).junction.table]}
                  ELSE ToSet(keys)
        found == Associated(db, Plan(req, c), wanted, c \in req.withDeleted)
        rows == UNION {{[key |-> a.key, edge |-> a.edge, row |-> a.row, tree |-> t] : t \in Trees(req, c, a.row)} : a \in found}
    IN  /\ phase = "preload" /\ run # Idle /\ run.start < Len(run.keys)
        /\ \E s \in Orders(rows, c \in req.ordered) :
              heap' = HydrateRows(heap, req, c, run.parents, s)
        /\ run' = [run EXCEPT !.start = @ + Len(keys)]
        /\ read' = read \cup {[node |-> c, key |-> k,
                               rows |-> [r \in {a.row : a \in {b \in found : b.key = k}} |->
                                           Cardinality({a \in found : a.key = k /\ a.row = r})]] :
                                 k \in ToSet(keys)}
        /\ batches' = Append(batches, [node |-> c, count |-> run.count, rows |-> Len(keys),
                                       total |-> Len(run.keys), loadAll |-> LoadAll(req, c)])
        /\ UNCHANGED <<writeVars, req, phase, roots, work>>

FailBatch ==
    /\ "query" \in ReadFaults
    /\ phase = "select" \/ (phase = "preload" /\ run # Idle /\ run.start < Len(run.keys))
    /\ phase' = "failed"
    /\ UNCHANGED <<writeVars, req, heap, roots, work, run, read, batches>>

\* The plans below the collection come next, before those beside it.
FinishCollection ==
    /\ phase = "preload" /\ run # Idle /\ run.start = Len(run.keys)
    /\ work' = Tasks(req, run.node, Targets(heap, run.node, run.parents)) \o Tail(work)
    /\ run' = Idle
    /\ UNCHANGED <<writeVars, req, phase, heap, roots, read, batches>>

ReturnResult ==
    /\ phase = "preload" /\ run = Idle /\ work = <<>>
    /\ phase' = "returned"
    /\ UNCHANGED <<writeVars, req, heap, roots, work, run, read, batches>>

Load ==
    \/ CompileLoad \/ SelectRoots \/ PassInline \/ PrepareCollection
    \/ RunBatch \/ FailBatch \/ FinishCollection \/ ReturnResult

\* A SELECT beside the mutations and the other clients.
LoadNext == Load \/ (Write /\ UNCHANGED loadVars)
LoadSpec == WriteInit /\ PreloadInit /\ [][LoadNext]_<<writeVars, loadVars>>

---------------------------------------------------------------------------
(* Properties.                                                                *)

\* The objects a node holds in the result, as the fields lead to them.
Held(p) ==
    LET held[n \in 0 .. Len(p)] ==
            IF n = 0 THEN roots ELSE LET above == held[n - 1] IN Targets(heap, SubSeq(p, 1, n), above)
    IN  held[Len(p)]

\* How often each row occurs among the children of an object.
ChildRows(o, c) ==
    LET ids == heap[o].rel[c]
        rows == [i \in DOMAIN ids |-> heap[ids[i]].row]
    IN  [r \in ToSet(rows) |-> Cardinality({i \in DOMAIN rows : rows[i] = r})]

\* The read of a key projected as the objects hold it.
Expected(c, key) ==
    LET rs == CHOOSE x \in read : x.node = c /\ x.key = key
        shown(r) == Fields(req, c, r)
    IN  [v \in {shown(r) : r \in DOMAIN rs.rows} |->
            FoldSet(LAMBDA r, n : IF shown(r) = v THEN n + rs.rows[r] ELSE n, 0, DOMAIN rs.rows)]

\* In a result without an error, every parent object has in each requested
\* collection exactly the rows its key had when the statement for that key ran,
\* one object for each: whatever keys the parents share, whichever batch or whole
\* read served them, and whatever was written in between.  A parent without a
\* key has none.
ChildrenAreTheRowsRead ==
    phase = "returned" =>
        \A c \in ToSet(NodeList(req)) : ~Inline(req, c) =>
            \A o \in ToSet(Held(Front(c))) :
                LET key == KeyOf(heap[o].of, Plan(req, c).src)
                IN  IF Valid(key) THEN /\ \E x \in read : x.node = c /\ x.key = key
                                       /\ ChildRows(o, c) = Expected(c, key)
                    ELSE heap[o].rel[c] = <<>>

\* An ordered collection has that order in every parent.
CollectionsKeepTheirOrder ==
    phase = "returned" =>
        \A c \in req.ordered : \A o \in ToSet(Held(Front(c))) :
            LET ids == heap[o].rel[c]
            IN  \A i, j \in DOMAIN ids : i < j => NotAfter(heap[ids[i]].of, heap[ids[j]].of)

\* Nothing is read twice: a key of a collection is in one statement, and the
\* batches captured for a collection are as many, and cover as many keys, as the
\* metadata of each of them says.
BatchesMatchTheirMetadata ==
    phase = "returned" =>
        \A c \in ToSet(NodeList(req)) :
            LET mine == Among({b \in ToSet(batches) : b.node = c}, batches)
                keys == {x.key : x \in {y \in read : y.node = c}}
            IN  mine # <<>> =>
                  /\ \A i \in DOMAIN mine :
                        /\ mine[i].count = Len(mine) /\ mine[i].total = Cardinality(keys)
                        /\ ~mine[i].loadAll => mine[i].rows * Len(Plan(req, c).src) <= ParameterLimit
                  /\ FoldLeft(LAMBDA n, rows : n + rows, 0, [i \in DOMAIN mine |-> mine[i].rows]) = Cardinality(keys)
=============================================================================
