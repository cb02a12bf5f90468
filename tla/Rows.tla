-------------------------------- MODULE Rows --------------------------------
(* A caller that reads a table page by page with SELECT ... ORDER BY, SeekAfter *)
(* and LIMIT (select_clause.go, keyset.go, scan.go) while other goroutines      *)
(* change it with the typed mutations of module Mutations.  The cursor of a     *)
(* page is taken from the Go model decoded from the last row of the page        *)
(* before; a page shorter than the limit is the last.                           *)
EXTENDS Mutations

CONSTANTS Orders,  \* ORDER BY clauses the caller may choose, by model
          Limit    \* rows per page

ASSUME PagesAssumption ==
    /\ DOMAIN Orders = Models /\ Limit \in Nat \ {0}
    /\ \A m \in Models : Orders[m] \subseteq Seq([field : Fields, direction : {"asc", "desc"}])

VARIABLES pager,     \* the query, how far it got, and the rows it delivered
          expected   \* history: rows visible when paging began and unchanged since

rowsVars == <<vars, pager, expected>>

Idle == [state |-> "idle", order |-> <<>>, withDeleted |-> FALSE, delivered |-> <<>>]

---------------------------------------------------------------------------
(* The SELECT.                                                             *)

Visible(row, withDeleted) ==
    Matches(FoldLeft(AppendGroup, <<<<>>>>, Active(withDeleted)), row)

RowSet == {AsRow(id, table) : id \in DOMAIN table}

\* A value-form deletion time decodes NULL as the zero time.
Decoded(f, v) == IF f = "del" /\ f \notin model.pointers /\ v = NULL THEN Zero ELSE v

\* SeekAfter with the fields of the last model, position by position; <<>> at first.
Cursor ==
    IF pager.delivered = <<>> THEN <<>>
    ELSE [i \in DOMAIN pager.order |->
             Decoded(pager.order[i].field, Last(pager.delivered)[pager.order[i].field])]

Seekable(cursor) == cursor # <<>> => ValidateSeekAfter(model, pager.order, cursor)

Candidates(cursor) ==
    {row \in RowSet :
        /\ Visible(row, pager.withDeleted)
        /\ cursor # <<>> => SeekCondition(model, pager.order, cursor, row) = "true"}

\* Every order that ORDER BY allows; rows that tie come in any order.
Sorted(rows) ==
    {page \in SetToSeqs(rows) :
        \A i, j \in DOMAIN page : i < j => ~Before(pager.order, page[j], page[i])}

Pages(cursor) ==
    {SubSeq(page, 1, Min({Limit, Len(page)})) : page \in Sorted(Candidates(cursor))}

---------------------------------------------------------------------------

StartPaging ==
    /\ pager.state = "idle"
    /\ \E order \in Orders[model], withDeleted \in BOOLEAN :
        /\ withDeleted => model.soft
        /\ pager' = [Idle EXCEPT !.state = "reading", !.order = order,
                                 !.withDeleted = withDeleted]
        /\ expected' = {row.id : row \in {r \in RowSet : Visible(r, withDeleted)}}
    /\ UNCHANGED vars

ReadPage ==
    /\ pager.state = "reading"
    /\ Seekable(Cursor)
    /\ \E page \in Pages(Cursor) :
          pager' = [pager EXCEPT !.delivered = @ \o page,
                                 !.state = IF Len(page) < Limit THEN "done" ELSE @]
    /\ UNCHANGED <<vars, expected>>

RefusePage ==
    /\ pager.state = "reading"
    /\ ~Seekable(Cursor)
    /\ pager' = [pager EXCEPT !.state = "refused"]
    /\ UNCHANGED <<vars, expected>>

Mutate ==
    /\ Next
    /\ expected' = IF pager.state = "reading" THEN expected \ Differs(table, table') ELSE expected
    /\ UNCHANGED pager

RowsInit == Init /\ pager = Idle /\ expected = {}
RowsNext == Mutate \/ StartPaging \/ ReadPage \/ RefusePage
RowsSpec == RowsInit /\ [][RowsNext]_rowsVars

---------------------------------------------------------------------------
(* Properties.                                                             *)

\* Pages in an order over the primary key continue one another: rows come strictly
\* after one another over all pages, whatever changes in between, and a row that was
\* visible when paging began and never changed has been delivered when it ends.  NULLs
\* come first ascending and last descending.
PagesFollowTheOrder ==
    (\E i \in DOMAIN pager.order : pager.order[i].field = "id") =>
    /\ \A i, j \in DOMAIN pager.delivered :
          i < j => Before(pager.order, pager.delivered[i], pager.delivered[j])
    /\ pager.state = "done" => expected \subseteq {row.id : row \in Range(pager.delivered)}
=============================================================================
