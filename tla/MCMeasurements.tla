--------------------------- MODULE MCMeasurements ---------------------------
(* Small instances of LibraryTasks. *)
EXTENDS LibraryTasks
LOCAL INSTANCE TLC

\* Readiness: no table, a table without and with replicas, building or
\* available, and rows that are no description of one.
Row(count, available, progress) == [count |-> count, available |-> available, progress |-> progress]
MCReplicas ==
    {<<>>, <<Row(Null, Null, Null)>>, <<Row(0, 1, 0)>>, <<Row(1, 0, 50)>>, <<Row(2, 1, 100)>>,
     <<Row(Null, 1, 0)>>, <<Row(1, 0, 50), Row(2, 1, 100)>>}
MCCapabilities == <<"metadata", "settings">>

\* Comparisons: every statement costs 10 RU, but the last, which costs more.
MCCost == [n \in 1..9 |-> IF n = 9 THEN 14 ELSE 10]
Operator(known, mpp, engine, access) == [known |-> known, mpp |-> mpp, engine |-> engine, access |-> access]
MCPlans ==
    {{Operator(TRUE, TRUE, "tiflash", "T"), Operator(TRUE, FALSE, "", "none")},
     {Operator(TRUE, FALSE, "tikv", "T")},
     {Operator(TRUE, TRUE, "tiflash", "T"), Operator(TRUE, TRUE, "tiflash", "unbound")},
     {Operator(TRUE, FALSE, "tiflash", "T")}, {Operator(FALSE, FALSE, "tikv", "T")}}

\* Captures.
Statement(op, source, terminal, fp, ru) ==
    [op |-> op, source |-> source, terminal |-> terminal, fp |-> fp, ru |-> ru, failed |-> FALSE,
     metadata |-> TRUE, pattern |-> {}, index |-> "", warned |-> {}, batched |-> FALSE, torn |-> FALSE]
Measured(value) == [known |-> TRUE, value |-> value, failed |-> FALSE]
ReleaseFailed == [known |-> TRUE, value |-> 10, failed |-> TRUE]
Find(ru) == Statement("SELECT", "typed_select", "all", 1, ru)
Insert == Statement("INSERT", "typed_mutation", "insert", 2, Measured(10))
Begin == Statement("BEGIN", "transaction", "", 3, NoRU)
Update == [Statement("UPDATE", "typed_mutation", "update_where", 5, NoRU) EXCEPT !.index = "QRY008"]
MCKinds ==
    {Find(Measured(10)), Find(Measured(14)), Find(NoRU), Insert, Begin, Update,
     [Find(ReleaseFailed) EXCEPT !.pattern = {"QRY003"}, !.index = "QRY006"],
     [Statement("RAW", "raw", "", 4, NoRU) EXCEPT !.failed = TRUE],
     [Find(NoRU) EXCEPT !.torn = TRUE]}
MCLaterKinds == {Find(Measured(10)), Find(Measured(14)), Find(NoRU), Find(ReleaseFailed), Insert}
MCScopes == {<<"a", 1>>, <<"b", 1>>}
Request(workload, schema, compared, suppress) ==
    [workload |-> workload, schema |-> schema, baseline |-> compared, suppress |-> suppress]
MCRequests ==
    {Request("", FALSE, TRUE, <<>>), Request("w", FALSE, TRUE, <<>>),
     Request("", TRUE, FALSE, <<>>), Request("", FALSE, FALSE, <<"RUN002">>)}
MCSavedBaselines ==
    {[entries |-> (1 :> [count |-> 2, samples |-> 1, total |-> 10, min |-> 10, max |-> 10]),
      workload |-> NoWorkload]}

\* IndexChecks: rows of two keys and the soft-delete column.
Leaf(op, column, values) == [op |-> op, column |-> column, values |-> values, children |-> {}]
Node(op, children) == [op |-> op, column |-> NoColumn, values |-> {}, children |-> children]
MCNodes ==
    <<Leaf("equal", "a", {1}), Leaf("equal", "b", {1}), Leaf("in", "b", {1}),
      Leaf("in", "b", {}), Leaf("not_in", "b", {}), Leaf("not_equal", "a", {1}),
      Leaf("is_null", "b", {0}), Leaf("in", "a", {}), Leaf("greater_than", "b", {0}),
      Node("and", {1, 2}), Node("or", {1, 2}), Node("or", {1, 4}), Node("or", {1, 5}),
      Node("not", {5}), Node("not", {1}), Node("or", {7, 10})>>
Term(column, direction) == [column |-> column, direction |-> direction]
MCQueries ==
    [engine : {""}, limited : {TRUE}, topn : {"", "junction", "target"}, force : {"", "i1"},
     withDeleted : BOOLEAN,
     order : {<<Term("b", "asc")>>, <<Term("b", "desc"), Term("b", "desc"), Term("a", "desc")>>},
     predicates : {{}, {1}, {10}}]
    \cup [engine : {"", "tiflash"}, limited : BOOLEAN, topn : {""}, force : {""}, withDeleted : {FALSE},
          order : {<<>>, <<Term("a", "asc"), Term("b", "desc")>>, <<Term("a", "asc")>>},
          predicates : {{1, 3}, {2}}]
MCWrites ==
    [topn : {""}, withDeleted : BOOLEAN,
     predicates : {{1}, {11}, {12}, {2, 13}, {14}, {15}, {6, 7}, {8}, {5, 9}, {16}}]
Index(name, columns, unique, form) == [name |-> name, columns |-> columns, unique |-> unique, form |-> form]
MCTables ==
    [columns : {{"a", "b", "d"}},
     indexes : {{}, {Index("i1", <<"a", "b">>, FALSE, "direct")}, {Index("i1", <<"b", "a", "d">>, FALSE, "direct")},
                {Index("i1", <<"d", "a", "b">>, FALSE, "direct")}, {Index("i2", <<"a">>, TRUE, "direct")},
                {Index("i1", <<"a", "d">>, TRUE, "direct")},
                {Index("i1", <<"b">>, FALSE, "expression"), Index("i2", <<"b", "a">>, TRUE, "invisible")},
                {Index("i1", <<"a", "d", "b">>, FALSE, "direct"), Index("i2", <<"b">>, TRUE, "partial")}}]
    \cup {[columns |-> {"a", "d"}, indexes |-> {}]}

\* SchemaChecks: a model of two fields with and without its schema, and a model
\* with one relation.  The columns of a junction's pair are stored columns.
Field(column, kind, null) == [column |-> column, kind |-> kind, null |-> null, own |-> FALSE, auto |-> FALSE]
Key == Field("a", "int", FALSE)
Model(fields, key, uniques, relations) ==
    [table |-> "t", fields |-> fields, key |-> key, uniques |-> uniques, relations |-> relations]
SecondFields ==
    {Field("b", kind, null) : kind \in {"string", "time"}, null \in BOOLEAN}
    \cup {[Field("b", "int", FALSE) EXCEPT !.own = TRUE]}
PlainModels ==
    {Model(<<[Key EXCEPT !.auto = auto], second>>, key, uniques, {}) :
        auto \in BOOLEAN, second \in SecondFields, key \in {<<"a">>, <<"a", "b">>}, uniques \in {{}, {{"b"}}}}
    \cup {Model(<<Key, second>>, <<>>, {}, {}) : second \in SecondFields}
Relation(kind, columns, edge, deleted) ==
    [kind |-> kind, target |-> "u", uniques |-> {{"b"}}, edge |-> edge, deleted |-> deleted, junction |-> "j",
     fields |-> [i \in DOMAIN columns |-> Field(columns[i], "int", FALSE)],
     source |-> <<Key>>, sourceColumns |-> <<"s">>, targetColumns |-> [i \in DOMAIN columns |-> <<"x", "y">>[i]]]
RelatedModels ==
    {Model(<<Key>>, <<"a">>, {}, {r}) :
        r \in {Relation(kind, columns, "", <<>>) : kind \in {"one", "many", "through"}, columns \in {<<"a">>, <<"a", "b">>}}
              \cup {Relation("through", <<"a">>, "edge", deleted) : deleted \in {<<>>, <<Field("d", "time", TRUE)>>}}}
MCAppModels == PlainModels \cup RelatedModels

Column(type, nullable) ==
    [type |-> type, nullable |-> nullable, default |-> FALSE, generated |-> FALSE, auto |-> ""]
Table(columns, indexes) == [columns |-> columns, indexes |-> indexes]
Primary(columns) == Index("PRIMARY", columns, TRUE, "direct")
\* What TiDB accepts: a primary key is NOT NULL, and AUTO_RANDOM leads it.
Possible(tables) ==
    {t \in tables : \A c \in DOMAIN t.columns :
        /\ c \in Range(PrimaryKey(t)) => ~t.columns[c].nullable
        /\ t.columns[c].auto = "random" => PrimaryKey(t) # <<>> /\ PrimaryKey(t)[1] = c}
PlainTables ==
    Possible({Table(("a" :> [Column("integer", FALSE) EXCEPT !.auto = auto]) @@ ("b" :> second) @@ other, indexes) :
        auto \in {"", "random"},
        second \in {Column("text", FALSE), Column("date", TRUE), [Column("text", TRUE) EXCEPT !.generated = TRUE]},
        other \in {<<>>, "c" :> Column("text", FALSE), "c" :> [Column("text", FALSE) EXCEPT !.default = TRUE]},
        indexes \in {{Primary(<<"a">>)}, {Primary(<<"a", "b">>)}, {Primary(<<"b", "a">>)}, {Primary(<<"a">>), Index("i1", <<"b">>, TRUE, "direct")},
                     {Primary(<<"a">>), Index("i1", <<"b", "a">>, TRUE, "direct")},
                     {Primary(<<"a">>), Index("i1", <<"b">>, TRUE, "expression")}}})
Keyed == Table("a" :> Column("integer", FALSE), {Primary(<<"a">>)})
Targets ==
    {Table(("a" :> Column("integer", nullable)) @@ ("b" :> Column("integer", FALSE)), indexes \cup unique) :
        nullable \in BOOLEAN, unique \in {{}, {Index("i2", <<"b">>, TRUE, "invisible")}},
        indexes \in {{}, {Index("i1", <<"a">>, TRUE, "direct")}, {Index("i1", <<"b", "a">>, TRUE, "direct")},
                     {Index("i1", <<"a", "b">>, FALSE, "direct")}, {Index("i1", <<"a">>, FALSE, "invisible")}}}
Junctions ==
    Possible({Table(("s" :> Column("integer", FALSE)) @@ ("x" :> Column("integer", nullable)) @@ other, indexes) :
        nullable \in BOOLEAN, other \in {<<>>, "d" :> Column("date", TRUE), "d" :> Column("integer", FALSE)},
        indexes \in {{Primary(<<"s", "x">>)}, {Primary(<<"x", "s">>)}, {Primary(<<"s", "x">>), Index("i1", <<"s">>, TRUE, "direct")},
                     {Index("i1", <<"s">>, TRUE, "direct")}, {Index("i1", <<"s", "x">>, FALSE, "direct")},
                     {Index("i1", <<"x", "s">>, TRUE, "direct"), Index("i2", <<"s">>, FALSE, "direct")}}})
    \cup {Table([c \in {"s", "x", "y"} |-> Column("integer", FALSE)], {Primary(columns)}) :
             columns \in {<<"s", "x", "y">>, <<"s", "y">>, <<"x", "s", "y">>}}
MCCatalogs ==
    {"t" :> t : t \in PlainTables}
    \cup {("t" :> Keyed) @@ ("u" :> u) @@ ("j" :> j) : u \in Targets, j \in Junctions}
    \cup {("t" :> Keyed) @@ ("u" :> u) : u \in Targets} \cup {"u" :> Keyed}
=============================================================================
