------------------------------- MODULE MCRows -------------------------------
(* Instances of Rows for TLC. *)
EXTENDS Rows

CONSTANTS w1, w2

Model(soft, auto, width, limit, pointers) ==
    [soft |-> soft, auto |-> auto, width |-> width, limit |-> limit, pointers |-> pointers]

Plain     == Model(FALSE, FALSE, 1, 3, {})
Broad     == Model(FALSE, FALSE, 6, 3, {})            \* one row exceeds a statement
Narrow    == Model(TRUE, TRUE, 1, 2, {})              \* the third id overflows
ValueForm == Model(TRUE, FALSE, 1, 3, {})
Pointers  == Model(TRUE, FALSE, 1, 3, {"id", "rank", "del"})

AllModels  == {Plain, Broad, Narrow, ValueForm, Pointers}
ValueForms == {ValueForm}


Row(rank, del) == [rank |-> rank, del |-> del]
NoRows   == [id \in {} |-> Row(1, NULL)]
OneRow   == [id \in {1} |-> Row(1, NULL)]
\* A deleted row, an active one, and one without a rank.
MixedRows  == 1 :> Row(1, 7) @@ 2 :> Row(1, NULL) @@ 3 :> Row(NULL, NULL)
RankedRows == 1 :> Row(1, 7) @@ 2 :> Row(1, NULL) @@ 3 :> Row(2, NULL)
AllTables    == {NoRows, OneRow, MixedRows, RankedRows}
RankedTables == {RankedRows}

Call(op, rows, fields, withDeleted, where, set) ==
    [op |-> op, rows |-> rows, fields |-> fields, withDeleted |-> withDeleted,
     where |-> where, set |-> set]
R(id, rank, del) == [id |-> id, rank |-> rank, del |-> del]
A(field, op, value) == [field |-> field, op |-> op, value |-> value]

\* Rows are active in both forms of a deletion time.
RowCalls == UNION {
    {Call("insert", <<R(2, 1, active)>>, <<>>, FALSE, <<>>, <<>>),
     Call("insert many", <<R(1, 1, active), R(2, 1, active), R(3, 2, active)>>, <<>>, FALSE, <<>>, <<>>),
     Call("upsert", <<R(1, 2, active)>>, <<>>, FALSE, <<>>, <<>>),
     Call("upsert many", <<R(1, 1, active), R(2, 2, active), R(1, 2, active)>>, <<"rank">>, FALSE, <<>>, <<>>),
     Call("update", <<R(1, 2, active)>>, <<>>, TRUE, <<>>, <<>>),
     Call("update", <<R(1, 3, active)>>, <<"rank">>, FALSE, <<>>, <<>>),
     Call("update many", <<R(1, 3, active), R(2, 2, active), R(3, 1, active)>>, <<"rank">>, FALSE, <<>>, <<>>),
     Call("update many", <<R(1, 3, active), R(2, 2, active), R(1, 1, active)>>, <<"rank">>, TRUE, <<>>, <<>>),
     Call("update many", <<>>, <<>>, FALSE, <<>>, <<>>),
     Call("delete", <<R(2, 1, active)>>, <<>>, FALSE, <<>>, <<>>)} : active \in {Zero, NULL}}

\* Rank 1 or NULL, and not rank 2; one of them; a relation.
Ors    == <<<<A("rank", "=", 1), A("rank", "is null", NULL)>>, <<A("rank", "not", 2)>>>>
Lesser == <<<<A("rank", "<", 2)>>>>
Linked == <<<<A("id", "has relation", 1)>>>>

WhereCalls ==
    {Call("update where", <<>>, <<>>, FALSE, Ors, <<A("rank", "increment", 1)>>),
     Call("update where", <<>>, <<>>, TRUE, Lesser, <<A("del", "set", Zero), A("rank", "set", 3)>>),
     Call("update where", <<>>, <<>>, TRUE, <<>>, <<A("rank", "set", 3)>>),
     Call("update where", <<>>, <<>>, FALSE, Lesser, <<A("rank", "set", 3), A("rank", "increment", 1)>>),
     Call("delete where", <<>>, <<>>, FALSE, Ors, <<>>),
     Call("delete where", <<>>, <<>>, FALSE, Linked, <<>>)}

BadCalls == {Call("insert many", <<R(2, 1, NULL), NilRow>>, <<>>, FALSE, <<>>, <<>>),
             Call("update", <<R(NULL, 1, NULL)>>, <<>>, FALSE, <<>>, <<>>)}

AllCalls == RowCalls \cup WhereCalls \cup BadCalls
OneCall  == {Call("delete", <<R(2, 1, Zero)>>, <<>>, FALSE, <<>>, <<>>)}

\* Value-form deletion times are sorted by in a run of their own.
AllOrders == [m \in AllModels |->
    {<<Desc("rank"), Asc("id")>>, <<Asc("rank"), Desc("id")>>}
    \cup (IF "del" \in m.pointers THEN {<<Desc("del"), Asc("id")>>} ELSE {<<Desc("rank")>>})]
ByDeletion == [m \in ValueForms |-> {<<Desc("del"), Asc("id")>>}]

Symmetric == Permutations(Workers)
=============================================================================
