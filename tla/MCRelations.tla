----------------------------- MODULE MCRelations -----------------------------
(* Instances of Preload and RelationMutations for TLC: posts of users, with   *)
(* tags through a pure junction.                                              *)
EXTENDS RelationReads, TLC

CONSTANTS w1, w2

Direct(kind, target, src, tgt) ==
    [kind |-> kind, target |-> target, src |-> src, tgt |-> tgt, junction |-> NoJunction]
\* The key of a tag is composite, its id and its language.
Many(target, key, targetKey, src, tgt) ==
    [kind |-> "many_to_many", target |-> target, src |-> key, tgt |-> targetKey,
     junction |-> [table |-> "PostTag", src |-> src, tgt |-> tgt, via |-> FALSE]]

Mappings ==
    [Post |-> [User  |-> Direct("belongs_to", "User", <<"user">>, <<"id">>),
               Peers |-> Direct("has_many", "Post", <<"user", "kind">>, <<"user", "kind">>),
               Tags  |-> Many("Tag", <<"id">>, <<"id", "lang">>, <<"post">>, <<"tag", "lang">>)],
     User |-> [Posts |-> Direct("has_many", "Post", <<"id">>, <<"user">>)],
     Tag  |-> [Posts |-> Many("Post", <<"id", "lang">>, <<"id">>, <<"tag", "lang">>, <<"post">>)]]

User(i) == [id |-> i]
Post(i, u) == [id |-> i, user |-> u, kind |-> 1]
\* One tag in two languages; none of the columns alone is a key.
Tag(l, d) == [id |-> 1, lang |-> l, del |-> d]
Pair(p, l) == [post |-> p, tag |-> 1, lang |-> l]

Blog == {[User |-> {User(1), User(2)}, Post |-> {Post(1, 1), Post(2, u), Post(3, Null)},
          Tag |-> {Tag(1, FALSE), Tag(2, TRUE)}, PostTag |-> {Pair(1, 1), Pair(2, 1), Pair(2, 2)}] :
             u \in {1}}

Edits ==
    {[table |-> "Post", old |-> {Post(1, 1)}, new |-> {Post(1, 2), Post(4, 1)}],
     [table |-> "Tag", old |-> {Tag(1, FALSE), Tag(2, TRUE)}, new |-> {Tag(1, TRUE), Tag(2, FALSE)}]}

Tags(op, p, ts, ignore) == [op |-> op, model |-> "Post", relation |-> "Tags", source |-> <<p>>,
                            targets |-> [i \in DOMAIN ts |-> <<1, ts[i]>>], ignore |-> ignore]
PostTags ==
    {Tags("add", 1, <<2, 1>>, TRUE), Tags("add", 1, <<2>>, FALSE), Tags("remove", 1, <<1, 2>>, FALSE),
     Tags("clear", 2, <<>>, FALSE), Tags("add", 3, <<1, 2, 3>>, TRUE), Tags("add", Null, <<1>>, FALSE),
     Tags("remove", 2, <<>>, FALSE), [Tags("add", 1, <<2>>, FALSE) EXCEPT !.relation = "Peers"]}

Select(model, paths) ==
    [model |-> model, paths |-> paths, unfiltered |-> FALSE, rootDeleted |-> FALSE, only |-> {1, 2, 3},
     fields |-> <<>>, ordered |-> {}, withDeleted |-> {}]

Lists ==
    {[Select("Post", <<<<"Tags">>>>) EXCEPT !.unfiltered = TRUE],
     [Select("Post", <<<<"Tags">>, <<"Peers">>>>) EXCEPT !.only = {2, 3}, !.withDeleted = {<<"Tags">>},
                                                        !.fields = (<<>> :> {"id"})],
     [Select("Post", <<<<"User", "Posts", "Tags">>>>) EXCEPT !.only = {1, 2}],
     [Select("Post", <<<<"Peers">>, <<"Peers", "Tags">>>>) EXCEPT
        !.fields = (<<"Peers">> :> {"kind"}), !.unfiltered = TRUE],
     [Select("User", <<<<"Posts", "User">>, <<"Posts">>>>) EXCEPT
        !.ordered = {<<"Posts">>}, !.unfiltered = TRUE],
     [Select("Tag", <<<<"Posts", "User">>>>) EXCEPT !.unfiltered = TRUE],
     Select("Post", <<<<"Tags">>, <<"Tags">>>>), Select("Post", <<<<"Tags", "User">>>>),
     [Select("Post", <<<<"User">>>>) EXCEPT !.ordered = {<<"User">>}],
     [Select("Post", <<<<"Peers">>>>) EXCEPT !.withDeleted = {<<"Peers">>}]}

\* A collection below a to-one relation of a collection of shared keys.
Nested == {[Select("Post", <<<<"User", "Posts", "User", "Posts">>>>) EXCEPT !.only = {1, 2}]}
Symmetric == Permutations(Writers)
====
