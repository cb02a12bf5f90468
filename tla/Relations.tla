------------------------------ MODULE Relations ------------------------------
(***************************************************************************)
(* Relation mappings and the rows they associate: the part of the model     *)
(* descriptor that preloads, relation mutations and relation-first TopN     *)
(* read, over a database of tables of rows.  A row is a function from        *)
(* fields to values, a key a sequence of values; SQL equality never holds    *)
(* for NULL.                                                                 *)
(***************************************************************************)
EXTENDS Integers, FiniteSets, Sequences, SequencesExt

CONSTANTS
    Null,         \* the SQL NULL
    NoJunction,   \* the junction of a direct relation
    Databases,    \* the tables a behaviour can start with
    Relation,     \* Relation[m][r]: the mapping of relation field r of model m
    SoftDelete    \* the tables whose rows carry a nullable deletion time, as the field del

VARIABLE db       \* TiDB's tables

\* model.Relation as the compilers read it.
Inlined(rel) == rel.kind \in {"belongs_to", "has_one"}
Pure(rel) == rel.kind = "many_to_many" /\ ~rel.junction.via

KeyOf(row, fields) == [i \in DOMAIN fields |-> row[fields[i]]]
Valid(key) == \A i \in DOMAIN key : key[i] # Null

\* writePreloadSoftDeletePredicate: deletion time IS NULL.
Visible(table, row, withDeleted) == withDeleted \/ table \notin SoftDelete \/ ~row.del

\* IN, or for several columns an OR of equalities: not true of a NULL.
KeyIn(row, columns, keys) == Valid(KeyOf(row, columns)) /\ KeyOf(row, columns) \in keys

\* The (key, row) pairs a relation's statement returns for the sources whose
\* key is in keys: the target rows of a direct relation under their own key,
\* one row for each junction row of a many-to-many relation under the source
\* key the junction row holds.  withDeleted lifts the scope on both hops.
Associated(d, rel, keys, withDeleted) ==
    IF rel.junction = NoJunction
    THEN {[key |-> KeyOf(t, rel.tgt), edge |-> t, row |-> t] :
            t \in {u \in d[rel.target] : /\ KeyIn(u, rel.tgt, keys)
                                          /\ Visible(rel.target, u, withDeleted)}}
    ELSE {[key |-> KeyOf(p[1], rel.junction.src), edge |-> p[1], row |-> p[2]] :
            p \in {q \in d[rel.junction.table] \X d[rel.target] :
                     /\ KeyIn(q[1], rel.junction.src, keys)
                     /\ Valid(KeyOf(q[1], rel.junction.tgt))
                     /\ KeyOf(q[1], rel.junction.tgt) = KeyOf(q[2], rel.tgt)
                     /\ Visible(rel.junction.table, q[1], withDeleted)
                     /\ Visible(rel.target, q[2], withDeleted)}}
=============================================================================
