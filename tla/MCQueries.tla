------------------------------ MODULE MCQueries ------------------------------
(* Instances of RelationQueries for TLC: posts with slugs (has_many), tags     *)
(* through a pure junction and topics through an edge model.                   *)
EXTENDS MCRelations

Through(target, table, src, tgt, via) ==
    [kind |-> "many_to_many", target |-> target, src |-> <<"id">>, tgt |-> <<"id">>,
     junction |-> [table |-> table, src |-> <<src>>, tgt |-> <<tgt>>, via |-> via]]

QueryMappings ==
    [Article |-> [Slugs  |-> Direct("has_many", "Slug", <<"id">>, <<"post">>),
               Twins  |-> Direct("has_many", "Article", <<"kind">>, <<"kind">>),
               Tags   |-> Through("Topic", "ArticleTopic", "post", "tag", FALSE),
               Topics |-> Through("Topic", "Edge", "post", "tag", TRUE),
               Loose  |-> Through("Topic", "Mention", "post", "tag", TRUE),
               Labels |-> Through("Label", "ArticleLabel", "post", "label", FALSE)],
     Slug |-> [Post |-> Direct("belongs_to", "Article", <<"post">>, <<"id">>)],
     Topic |-> <<>>, Label |-> <<>>]

AllMappings == Mappings @@ QueryMappings

Tables == {"Article", "Slug", "Topic", "Label", "ArticleTopic", "Edge", "Mention", "ArticleLabel"}
Primary == [t \in Tables |-> CASE t = "ArticleTopic" -> <<"post", "tag">>
                               [] t = "ArticleLabel" -> <<"post", "label">> [] OTHER -> <<"id">>]
Uniques == [t \in Tables |-> CASE t = "Slug" -> {<<"post", "lang">>} [] t = "Edge" -> {<<"post", "tag">>}
                               [] t = "Topic" -> {<<"name">>} [] t = "Mention" -> {<<"post", "rank">>}
                               [] OTHER -> {}]

\* Up to two rows, of different ids, that keep the unique key.
Rows(fields, key) ==
    LET row(i, f) == [n \in DOMAIN f \cup {"id"} |-> IF n = "id" THEN i ELSE f[n]]
    IN  {{}} \cup {{row(1, f)} : f \in fields}
        \cup {{row(1, x[1]), row(2, x[2])} : x \in {y \in fields \X fields :
                 ~Valid(KeyOf(y[1], key)) \/ KeyOf(y[1], key) # KeyOf(y[2], key)}}

SlugRows(posts) == Rows([post : posts, lang : {1, 2}], <<"post", "lang">>)
EdgeRows    == Rows([post : {1, 2, Null}, tag : {1, 2, Null}, del : BOOLEAN], <<"post", "tag">>)
MentionRows == Rows([post : {1, 2}, tag : {1}, rank : {1, 2}, del : {FALSE}], <<"post", "rank">>)

Article(i, d) == [id |-> i, kind |-> 1, del |-> d]
Empty == [Article |-> {Article(1, FALSE), Article(2, TRUE)}, Slug |-> {},
          Topic |-> {[id |-> 1, name |-> 1], [id |-> 2, name |-> 2]},
          Label |-> {[id |-> 1, del |-> FALSE], [id |-> 2, del |-> TRUE]},
          ArticleTopic |-> {}, Edge |-> {}, Mention |-> {}, ArticleLabel |-> {}]

With(table, rows) == {[Empty EXCEPT ![table] = r] : r \in rows}
\* Every reference that is not NULL names a row; here no slug has a NULL post.
Contract == With("Slug", SlugRows({1, 2})) \cup With("Edge", EdgeRows) \cup With("Mention", MentionRows)
            \cup With("ArticleTopic", SUBSET [post : {1, 2}, tag : {1, 2}])
            \cup With("ArticleLabel", SUBSET [post : {1, 2}, label : {1, 2}])
\* A slug without a post is within the contract as well.
NullableKeys == With("Slug", SlugRows({1, Null}))

Everything == Blog \cup Contract

P(op, field, values) == [op |-> op, field |-> field, values |-> values, children |-> <<>>]
Is(field, v) == P("=", field, <<v>>)
Has(r, ps)   == [op |-> "has", field |-> r, values |-> <<>>, children |-> ps]
Group(op, ps) == [op |-> op, field |-> "", values |-> <<>>, children |-> ps]

Term(f, d) == [field |-> f, direction |-> d]
Query(ps, order, limit) ==
    [model |-> "Article", predicates |-> ps, order |-> order, limit |-> limit, offset |-> 0,
     seek |-> FALSE, forceIndex |-> FALSE, withDeleted |-> TRUE]
ById == <<Term("id", "asc")>>

Existence == {<<Has("Slugs", <<Is("lang", 1)>>)>>, <<Has("Slugs", <<>>)>>,
          <<Has("Slugs", <<Group("or", <<Is("lang", 1), Is("lang", 2)>>)>>)>>,
          <<Has("Tags", <<Is("id", 1)>>)>>, <<Has("Tags", <<Is("name", 2)>>)>>,
          <<Has("Tags", <<Group("and", <<Is("id", 1), P("<>", "name", <<2>>)>>)>>)>>,
          <<Has("Topics", <<Is("id", 1)>>)>>, <<Has("Topics", <<Is("name", 1)>>)>>,
          <<Has("Loose", <<Is("id", 1)>>)>>,
          <<Has("Labels", <<Is("id", 2)>>)>>, <<Has("Twins", <<Is("id", 1)>>)>>,
          <<Group("not", <<Has("Tags", <<Is("id", 1)>>)>>)>>,
          <<Has("Tags", <<Is("id", 1)>>), Is("kind", 1)>>,
          <<Group("and", <<Has("Tags", <<Is("id", 1)>>), Has("Slugs", <<>>)>>)>>,
          <<Has("Slugs", <<Has("Article", <<P("not null", "kind", <<>>)>>), P("in", "lang", <<>>)>>)>>,
          <<Is("id", Null)>>, <<P("not in", "id", <<1>>)>>, <<P("between", "id", <<1, 1>>)>>}

AskedLists == {Query(ps, ById, 1) : ps \in Existence} \cup {Query(ps, <<>>, 0) : ps \in Existence}
         \cup {[Query(ps, <<Term("id", "desc")>>, 1) EXCEPT !.offset = 1] : ps \in Existence}
         \cup {[Query(ps, ById, 2) EXCEPT !.withDeleted = FALSE] : ps \in Existence}
         \cup {[Query(<<Has("Tags", <<Is("id", 1)>>)>>, ById, 1) EXCEPT !.seek = TRUE],
               [Query(<<Has("Tags", <<Is("id", 1)>>)>>, ById, 1) EXCEPT !.forceIndex = TRUE],
               Query(<<Has("Tags", <<Is("id", 1)>>)>>, <<Term("kind", "asc"), Term("id", "asc")>>, 1)}

InFrench == {Query(<<Has("Slugs", <<Is("lang", 1)>>)>>, ById, 1)}
=============================================================================
