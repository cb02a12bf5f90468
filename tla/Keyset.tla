------------------------------- MODULE Keyset -------------------------------
(* Keyset pagination of package orm (keyset.go): which SeekAfter cursors a     *)
(* SELECT accepts, and the truth of the condition it renders for a row.        *)
(* A field is "id" (the primary key), "rank" or "del" (the soft-delete time);  *)
(* a model says which of them are Go pointers.  Values are numbers or NULL.    *)
EXTENDS Naturals, Sequences, FiniteSets

CONSTANT NULL

Fields == {"id", "rank", "del"}

Asc(f)  == [field |-> f, direction |-> "asc"]
Desc(f) == [field |-> f, direction |-> "desc"]

---------------------------------------------------------------------------
(* SQL's three-valued logic.                                               *)

Bool(b)    == IF b THEN "true" ELSE "false"
Less(a, b) == IF NULL \in {a, b} THEN "unknown" ELSE Bool(a < b)
Equal(a, b) == IF NULL \in {a, b} THEN "unknown" ELSE Bool(a = b)
IsNull(a)  == Bool(a = NULL)
Negate(p)  == CASE p = "true" -> "false" [] p = "false" -> "true" [] OTHER -> "unknown"
Conj(p, q) == IF "false" \in {p, q} THEN "false"
              ELSE IF "unknown" \in {p, q} THEN "unknown" ELSE "true"
Disj(p, q) == IF "true" \in {p, q} THEN "true"
              ELSE IF "unknown" \in {p, q} THEN "unknown" ELSE "false"

---------------------------------------------------------------------------

\* Go types that can hold a nil: the primary key never counts.
CursorFieldCanBeNull(m, f) == f # "id" /\ f \in m.pointers

\* What a SELECT with this order and cursor is checked for before it is rendered.
ValidateSeekAfter(m, order, cursor) ==
    /\ Len(cursor) = Len(order) /\ order # <<>>
    /\ \A i, j \in DOMAIN order : order[i].field = order[j].field => i = j
    /\ \A i \in DOMAIN order : cursor[i] = NULL => CursorFieldCanBeNull(m, order[i].field)
    /\ \E i \in DOMAIN order : order[i].field = "id"

\* The level of a NULL cursor value: NULLs come first ascending, last descending.
NullLevel(direction, value, deeper) ==
    IF direction = "asc"
      THEN Disj(Negate(IsNull(value)), Conj(IsNull(value), deeper))
      ELSE Conj(IsNull(value), deeper)

\* Mutant: a descending order forgets the NULLs that follow every value.
ValueLevelWithoutNulls(m, term, value, bound, deeper) ==
    Disj(IF term.direction = "asc" THEN Less(bound, value) ELSE Less(value, bound),
         Conj(Equal(value, bound), deeper))

\* The level of a cursor value: descending, the NULLs a Go field can hold follow.
ValueLevel(m, term, value, bound, deeper) ==
    LET after == CASE term.direction = "asc" -> Less(bound, value)
                   [] /\ term.direction = "desc"
                      /\ CursorFieldCanBeNull(m, term.field) -> Disj(Less(value, bound), IsNull(value))
                   [] OTHER -> Less(value, bound)
    IN  Disj(after, Conj(Equal(value, bound), deeper))

\* The truth of the rendered condition for a row; below the last level is nothing.
SeekCondition(m, order, cursor, row) ==
    LET level[i \in 1 .. Len(order) + 1] ==
            IF i > Len(order) THEN "false"
            ELSE LET value == row[order[i].field]
                 IN  IF cursor[i] = NULL
                       THEN NullLevel(order[i].direction, value, level[i + 1])
                       ELSE ValueLevel(m, order[i], value, cursor[i], level[i + 1])
    IN  level[1]

---------------------------------------------------------------------------
(* The order TiDB gives the rows, for ORDER BY and as the reference.       *)

TermBefore(term, a, b) ==
    LET less(x, y) == IF x = NULL THEN y # NULL ELSE y # NULL /\ x < y
    IN  IF term.direction = "asc" THEN less(a, b) ELSE less(b, a)

Before(order, r, s) ==
    \E i \in DOMAIN order :
        /\ TermBefore(order[i], r[order[i].field], s[order[i].field])
        /\ \A j \in 1 .. i - 1 : r[order[j].field] = s[order[j].field]
=============================================================================
