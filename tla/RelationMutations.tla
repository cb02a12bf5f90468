-------------------------- MODULE RelationMutations --------------------------
(***************************************************************************)
(* AddRelation, RemoveRelation and ClearRelation: one INSERT or DELETE on    *)
(* the junction of a pure many-to-many relation, or nothing at all.  Other   *)
(* clients change rows of the tables meanwhile.  TiDB runs one statement     *)
(* atomically; it can refuse it, or its answer can be lost afterwards.        *)
(***************************************************************************)
EXTENDS Relations

CONSTANTS
    Writers,         \* goroutines, one relation mutation each
    NoCall,          \* the call of a writer that made none yet
    RelationCalls,   \* the mutations a writer can make
    Changes,         \* single-row changes of other clients: table, old and new row
    MaxChanges,      \* bound: they happen only among the first writes, this many
    ParameterLimit,  \* TiDB's placeholder limit (65535 in the code)
    WriteFaults      \* subset of {"exec", "reply"}

ASSUME RelationMutationsAssumption ==
    /\ IsFiniteSet(Writers)
    /\ ParameterLimit \in Nat \ {0}
    /\ MaxChanges \in Nat
    /\ WriteFaults \subseteq {"exec", "reply"}
    /\ \A c \in RelationCalls : /\ c.op \in {"add", "remove", "clear"}
                                /\ c.targets = <<>> \/ c.op # "clear"
                                /\ c.ignore \in BOOLEAN
    /\ \A x \in Changes : IsFiniteSet(x.new)

\* compileRelationMutationPlan accepts only a mapped pure many-to-many field.
Mutable(c) == c.relation \in DOMAIN Relation[c.model] /\ Pure(Relation[c.model][c.relation])

Mapping(c) == Relation[c.model][c.relation]

ASSUME DatabaseAssumption ==
    \A d \in Databases : d = [t \in DOMAIN d |-> d[t]] /\ \A t \in DOMAIN d : IsFiniteSet(d[t])

\* What a descriptor of a pure many-to-many relation says: a junction column for
\* every key field, and no column twice.  A key is a sequence.
ASSUME JunctionAssumption ==
    \A c \in RelationCalls :
        /\ c.source = [i \in 1 .. Len(c.source) |-> c.source[i]] /\ Len(c.source) \in Nat
        /\ DOMAIN c.targets = 1 .. Len(c.targets) /\ Len(c.targets) \in Nat
        /\ \A n \in DOMAIN c.targets :
              /\ c.targets[n] = [i \in 1 .. Len(c.targets[n]) |-> c.targets[n][i]]
              /\ Len(c.targets[n]) \in Nat
        /\ Mutable(c) =>
              LET rel == Mapping(c)
                  j == rel.junction
              IN  /\ DOMAIN j.src = 1 .. Len(rel.src) /\ DOMAIN j.tgt = 1 .. Len(rel.tgt)
                  /\ IsInjective(j.src) /\ IsInjective(j.tgt)
                  /\ ToSet(j.src) \cap ToSet(j.tgt) = {}

VARIABLES
    original,  \* history: the tables at the start
    written,   \* the call and the answer of every writer
    changes    \* history: changes of other clients so far

writeVars == <<db, original, written, changes>>

NotYet == [state |-> "pending", call |-> NoCall, affected |-> 0, parameters |-> 0]
Answer(state, c, affected, parameters) ==
    [state |-> state, call |-> c, affected |-> affected, parameters |-> parameters]

WriteInit ==
    /\ db \in Databases
    /\ original = db
    /\ written = [w \in Writers |-> NotYet]
    /\ changes = 0

---------------------------------------------------------------------------
(* Compilation: what is refused, what needs no statement, what is sent.       *)

\* appendRelationKeyArguments: every component of the mapping, none of them nil.
UsableKey(key, width) == Len(key) = width /\ Valid(key)

Parameters(c) ==
    LET src == Len(Mapping(c).src)  tgt == Len(Mapping(c).tgt)
    IN  CASE c.op = "add"    -> Len(c.targets) * (src + tgt)
          [] c.op = "remove" -> src + Len(c.targets) * tgt
          [] c.op = "clear"  -> src

WithinLimit(c) ==
    LET src == Len(Mapping(c).src)  tgt == Len(Mapping(c).tgt)
    IN  CASE c.op = "add"    -> Len(c.targets) <= ParameterLimit \div (src + tgt)
          [] c.op = "remove" -> src + Len(c.targets) * tgt <= ParameterLimit
          [] c.op = "clear"  -> TRUE

NoOp(c) == c.op # "clear" /\ c.targets = <<>>

Compiles(c) ==
    /\ Mutable(c)
    /\ UsableKey(c.source, Len(Mapping(c).src))
    /\ WithinLimit(c)
    /\ \A i \in DOMAIN c.targets : UsableKey(c.targets[i], Len(Mapping(c).tgt))

---------------------------------------------------------------------------
(* The statements on the junction.                                            *)

JunctionKey(rel, row) == <<KeyOf(row, rel.junction.src), KeyOf(row, rel.junction.tgt)>>

PairRow(rel, source, target) ==
    [f \in ToSet(rel.junction.src) \cup ToSet(rel.junction.tgt) |->
        IF f \in ToSet(rel.junction.src)
        THEN source[CHOOSE i \in DOMAIN source : rel.junction.src[i] = f]
        ELSE target[CHOOSE i \in DOMAIN target : rel.junction.tgt[i] = f]]

\* renderRelationInsert: the rows of a multi-row VALUES list, in target order.
Inserted(c) == [i \in DOMAIN c.targets |-> PairRow(Mapping(c), c.source, c.targets[i])]

\* A repeated or existing pair is a duplicate-key error; ON DUPLICATE KEY
\* UPDATE source = source keeps what is there instead.
Duplicates(c) ==
    \/ ~IsInjective(Inserted(c))
    \/ ToSet(Inserted(c)) \cap db[Mapping(c).junction.table] # {}

\* Mutant: the OR of the targets is not in parentheses.
RemovedUnbracketed(c) ==
    {r \in db[Mapping(c).junction.table] :
        \/ /\ JunctionKey(Mapping(c), r)[1] = c.source
           /\ JunctionKey(Mapping(c), r)[2] = Head(c.targets)
        \/ JunctionKey(Mapping(c), r)[2] \in ToSet(Tail(c.targets))}

\* renderRelationRemove: source AND (target OR target ...).
Removed(c) ==
    {r \in db[Mapping(c).junction.table] :
        /\ JunctionKey(Mapping(c), r)[1] = c.source
        /\ JunctionKey(Mapping(c), r)[2] \in ToSet(c.targets)}

\* renderRelationClear: every pair of the source.
Cleared(c) == {r \in db[Mapping(c).junction.table] : JunctionKey(Mapping(c), r)[1] = c.source}

\* Mutant: every target counts, also one whose pair was there already.
EffectPerTarget(c) ==
    LET before == db[Mapping(c).junction.table]
        after  == CASE c.op = "add"    -> before \cup ToSet(Inserted(c))
                    [] c.op = "remove" -> before \ Removed(c)
                    [] c.op = "clear"  -> before \ Cleared(c)
    IN  [rows |-> after, affected |-> IF c.op = "clear" THEN Cardinality(before \ after) ELSE Len(c.targets)]

\* The junction after the statement, and the affected rows it reports.
Effect(c) ==
    LET before == db[Mapping(c).junction.table]
        after  == CASE c.op = "add"    -> before \cup ToSet(Inserted(c))
                    [] c.op = "remove" -> before \ Removed(c)
                    [] c.op = "clear"  -> before \ Cleared(c)
    IN  [rows |-> after, affected |-> Cardinality(after \ before) + Cardinality(before \ after)]

---------------------------------------------------------------------------
(* RelationAddQuery.Exec and RelationDeleteQuery.Exec.                        *)

RefuseMutation(w, c) ==
    /\ written[w] = NotYet
    /\ ~(Mutable(c) /\ UsableKey(c.source, Len(Mapping(c).src)) /\ NoOp(c))
    /\ ~Compiles(c)
    /\ written' = [written EXCEPT ![w] = Answer("failed", c, 0, 0)]
    /\ UNCHANGED <<db, original, changes>>

SkipMutation(w, c) ==
    /\ written[w] = NotYet
    /\ Mutable(c) /\ UsableKey(c.source, Len(Mapping(c).src)) /\ NoOp(c)
    /\ written' = [written EXCEPT ![w] = Answer("returned", c, 0, 0)]
    /\ UNCHANGED <<db, original, changes>>

\* The statement is refused: a duplicate pair, or a failure of the executor.
FailMutation(w, c) ==
    /\ written[w] = NotYet
    /\ Compiles(c) /\ ~NoOp(c)
    /\ "exec" \in WriteFaults \/ (c.op = "add" /\ ~c.ignore /\ Duplicates(c))
    /\ written' = [written EXCEPT ![w] = Answer("failed", c, 0, Parameters(c))]
    /\ UNCHANGED <<db, original, changes>>

\* The statement takes effect; its answer arrives or is lost.
ExecMutation(w, c) ==
    /\ written[w] = NotYet
    /\ Compiles(c) /\ ~NoOp(c)
    /\ c.op = "add" /\ ~c.ignore => ~Duplicates(c)
    /\ db' = [db EXCEPT ![Mapping(c).junction.table] = Effect(c).rows]
    /\ \/ written' = [written EXCEPT ![w] = Answer("returned", c, Effect(c).affected, Parameters(c))]
       \/ /\ "reply" \in WriteFaults
          /\ written' = [written EXCEPT ![w] = Answer("unknown", c, 0, Parameters(c))]
    /\ UNCHANGED <<original, changes>>

\* Another client changes, adds (no old row) or deletes (no new row) a row.
Change(x) ==
    /\ changes + Cardinality({w \in Writers : written[w] # NotYet}) < MaxChanges
    /\ x.old \subseteq db[x.table] /\ x.new \cap db[x.table] = {}
    /\ db' = [db EXCEPT ![x.table] = (@ \ x.old) \cup x.new]
    /\ changes' = changes + 1
    /\ UNCHANGED <<original, written>>

Write ==
    \/ \E w \in Writers, c \in RelationCalls :
          RefuseMutation(w, c) \/ SkipMutation(w, c) \/ FailMutation(w, c) \/ ExecMutation(w, c)
    \/ \E x \in Changes : Change(x)

\* The mutations and the other clients by themselves.
WriteSpec == WriteInit /\ [][Write]_writeVars

---------------------------------------------------------------------------

\* The affected rows that writers were told of mutations of one table.
Told(answers, t, ops) ==
    {w \in Writers : /\ answers[w].state = "returned" /\ answers[w].call.op \in ops
                     /\ Mapping(answers[w].call).junction.table = t}

Total(answers, t, ops) ==
    FoldSet(LAMBDA w, n : n + answers[w].affected, 0, Told(answers, t, ops))

\* The affected rows the writers were told account for a table that no other client
\* changes: whatever the order of concurrent adds, repeats, removes and clears, its
\* size is the original one plus the additions less the removals, unless an answer
\* was lost.
AffectedAccountsForJunction ==
    (\A w \in Writers : written[w].state # "unknown") =>
        \A t \in DOMAIN db \ {x.table : x \in Changes} :
            Cardinality(db[t]) + Total(written, t, {"remove", "clear"})
              = Cardinality(original[t]) + Total(written, t, {"add"})

\* A relation mutation changes pairs of its own source and targets only.
OnlyNamedPairsChange ==
    [][\A w \in Writers : written'[w] # written[w] /\ db' # db =>
         LET c == written'[w].call
             t == Mapping(c).junction.table
         IN  \A r \in (db[t] \cup db'[t]) \ (db[t] \cap db'[t]) :
                /\ JunctionKey(Mapping(c), r)[1] = c.source
                /\ c.op # "clear" => JunctionKey(Mapping(c), r)[2] \in ToSet(c.targets)]_writeVars
=============================================================================
