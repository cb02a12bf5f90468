------------------------------ MODULE RelationsProofs ------------------------------
(***************************************************************************)
(* A relation mutation touches pairs of its own source and targets only, and *)
(* the affected rows it reports account for the junction; a SELECT that      *)
(* preloads relations captures as many batches, for as many keys, as each of *)
(* them says, and its ordered collections have their order: for every        *)
(* request, mapping and database, whatever is written in between.            *)
(***************************************************************************)
EXTENDS Preload, FoldTheorems, TLAPS

\* The junction row of a pair, read through the junction's columns, is the pair:
\* the columns of a mapping are as many as its key fields and all distinct.
LEMMA PairKey ==
  ASSUME NEW c \in RelationCalls, Compiles(c), NEW n \in DOMAIN c.targets
  PROVE  JunctionKey(Mapping(c), PairRow(Mapping(c), c.source, c.targets[n])) = <<c.source, c.targets[n]>>
<1> DEFINE j == Mapping(c).junction
           source == c.source
           target == c.targets[n]
           row == PairRow(Mapping(c), source, target)
<1>1. /\ DOMAIN j.src = DOMAIN source /\ DOMAIN j.tgt = DOMAIN target
      /\ IsInjective(j.src) /\ IsInjective(j.tgt) /\ ToSet(j.src) \cap ToSet(j.tgt) = {}
      /\ source = [i \in DOMAIN source |-> source[i]] /\ target = [i \in DOMAIN target |-> target[i]]
  <2>1. Mutable(c) /\ Len(source) = Len(Mapping(c).src) /\ Len(target) = Len(Mapping(c).tgt)
    BY DEF Compiles, UsableKey
  <2>2. /\ DOMAIN source = 1 .. Len(source) /\ DOMAIN target = 1 .. Len(target)
        /\ source = [i \in 1 .. Len(source) |-> source[i]]
        /\ target = [i \in 1 .. Len(target) |-> target[i]]
    BY JunctionAssumption
  <2>3. /\ DOMAIN Mapping(c).junction.src = 1 .. Len(Mapping(c).src)
        /\ DOMAIN Mapping(c).junction.tgt = 1 .. Len(Mapping(c).tgt)
        /\ IsInjective(Mapping(c).junction.src) /\ IsInjective(Mapping(c).junction.tgt)
        /\ ToSet(Mapping(c).junction.src) \cap ToSet(Mapping(c).junction.tgt) = {}
    BY <2>1, JunctionAssumption
  <2>4. source = [i \in DOMAIN source |-> source[i]]
    BY <2>2
  <2>5. target = [i \in DOMAIN target |-> target[i]]
    BY <2>2
  <2> QED BY <2>1, <2>2, <2>3, <2>4, <2>5
<1>2. ASSUME NEW columns, NEW key, DOMAIN columns = DOMAIN key, IsInjective(columns), NEW k \in DOMAIN key
      PROVE  (CHOOSE i \in DOMAIN key : columns[i] = columns[k]) = k
  <2>1. \A i \in DOMAIN key : columns[i] = columns[k] => i = k
    BY <1>2 DEF IsInjective
  <2> QED BY <2>1
<1>3. ASSUME NEW k \in DOMAIN source PROVE row[j.src[k]] = source[k]
  <2>1. j.src[k] \in ToSet(j.src)
    BY <1>1 DEF ToSet
  <2>2. row[j.src[k]] = source[CHOOSE i \in DOMAIN source : j.src[i] = j.src[k]]
    BY <2>1 DEF PairRow
  <2>3. (CHOOSE i \in DOMAIN source : j.src[i] = j.src[k]) = k
    BY <1>1, <1>2
  <2> QED BY <2>2, <2>3
<1>4. ASSUME NEW k \in DOMAIN target PROVE row[j.tgt[k]] = target[k]
  <2>1. j.tgt[k] \in ToSet(j.tgt) /\ j.tgt[k] \notin ToSet(j.src)
    BY <1>1 DEF ToSet
  <2>2. row[j.tgt[k]] = target[CHOOSE i \in DOMAIN target : j.tgt[i] = j.tgt[k]]
    BY <2>1 DEF PairRow
  <2>3. (CHOOSE i \in DOMAIN target : j.tgt[i] = j.tgt[k]) = k
    BY <1>1, <1>2
  <2> QED BY <2>2, <2>3
<1>5. KeyOf(row, j.src) = source
  BY <1>1, <1>3 DEF KeyOf
<1>6. KeyOf(row, j.tgt) = target
  BY <1>1, <1>4 DEF KeyOf
<1> QED BY <1>5, <1>6 DEF JunctionKey

\* What a statement adds to the junction or takes from it.
LEMMA EffectIsNamed ==
  ASSUME NEW c \in RelationCalls, Compiles(c),
         NEW r \in Effect(c).rows \cup db[Mapping(c).junction.table],
         r \notin Effect(c).rows \/ r \notin db[Mapping(c).junction.table]
  PROVE  /\ JunctionKey(Mapping(c), r)[1] = c.source
         /\ c.op # "clear" => JunctionKey(Mapping(c), r)[2] \in ToSet(c.targets)
<1> DEFINE before == db[Mapping(c).junction.table]
<1>1. CASE c.op = "add"
  <2>1. Effect(c).rows = before \cup ToSet(Inserted(c))
    BY <1>1 DEF Effect
  <2>2. r \in ToSet(Inserted(c))
    BY <2>1
  <2>3. PICK n \in DOMAIN c.targets : r = PairRow(Mapping(c), c.source, c.targets[n])
    BY <2>2 DEF ToSet, Inserted
  <2>4. JunctionKey(Mapping(c), r) = <<c.source, c.targets[n]>>
    BY <2>3, PairKey
  <2>5. c.targets[n] \in ToSet(c.targets)
    BY DEF ToSet
  <2> QED BY <2>4, <2>5
<1>2. CASE c.op = "remove"
  <2>1. Effect(c).rows = before \ Removed(c)
    BY <1>2 DEF Effect
  <2>2. r \in Removed(c)
    BY <2>1
  <2> QED BY <2>2 DEF Removed
<1>3. CASE c.op = "clear"
  <2>1. Effect(c).rows = before \ Cleared(c)
    BY <1>3 DEF Effect
  <2>2. r \in Cleared(c)
    BY <2>1
  <2> QED BY <1>3, <2>2 DEF Cleared
<1> QED BY <1>1, <1>2, <1>3, RelationMutationsAssumption

\* Tables and answers are kept in functions.
WriteShape ==
    /\ db = [t \in DOMAIN db |-> db[t]]
    /\ written = [w \in Writers |-> written[w]]

LEMMA WriteShapeInit == WriteInit => WriteShape
  BY DatabaseAssumption DEF WriteInit, WriteShape

LEMMA WriteShapeStep == WriteShape /\ [Write]_writeVars => WriteShape'
<1> SUFFICES ASSUME WriteShape, [Write]_writeVars PROVE WriteShape'
  OBVIOUS
<1> USE DEF WriteShape
<1>1. CASE UNCHANGED writeVars
  BY <1>1 DEF writeVars
<1>2. CASE \E w \in Writers, c \in RelationCalls :
              RefuseMutation(w, c) \/ SkipMutation(w, c) \/ FailMutation(w, c) \/ ExecMutation(w, c)
  BY <1>2 DEF RefuseMutation, SkipMutation, FailMutation, ExecMutation
<1>3. CASE \E x \in Changes : Change(x)
  BY <1>3 DEF Change
<1> QED BY <1>1, <1>2, <1>3 DEF Write

\* The change of a step, for one writer.
NamedPairs(w) ==
    written'[w] # written[w] /\ db' # db =>
        LET c == written'[w].call
            t == Mapping(c).junction.table
        IN  \A r \in (db[t] \cup db'[t]) \ (db[t] \cap db'[t]) :
               /\ JunctionKey(Mapping(c), r)[1] = c.source
               /\ c.op # "clear" => JunctionKey(Mapping(c), r)[2] \in ToSet(c.targets)

LEMMA StepIsNamed ==
  ASSUME WriteShape, [Write]_writeVars, NEW w \in Writers
  PROVE  NamedPairs(w)
<1>1. CASE UNCHANGED writeVars
  BY <1>1 DEF writeVars, NamedPairs
<1>2. CASE \E x \in Changes : Change(x)
  BY <1>2 DEF Change, NamedPairs
<1>3. CASE \E v \in Writers, c \in RelationCalls : RefuseMutation(v, c) \/ SkipMutation(v, c) \/ FailMutation(v, c)
  BY <1>3 DEF RefuseMutation, SkipMutation, FailMutation, NamedPairs
<1>4. CASE \E v \in Writers, c \in RelationCalls : ExecMutation(v, c)
  <2>1. PICK v \in Writers, c \in RelationCalls : ExecMutation(v, c)
    BY <1>4
  <2>2. SUFFICES ASSUME written'[w] # written[w], db' # db PROVE NamedPairs(w)
    BY DEF NamedPairs
  <2>3. w = v
    BY <2>1, <2>2 DEF ExecMutation, WriteShape
  <2>4. written'[w].call = c
    BY <2>1, <2>3 DEF ExecMutation, WriteShape, Answer
  <2> DEFINE t == Mapping(c).junction.table
  <2>5. db'[t] = Effect(c).rows
    <3>1. db' = [db EXCEPT ![t] = Effect(c).rows]
      BY <2>1 DEF ExecMutation
    <3>2. t \in DOMAIN db
      BY <2>2, <3>1 DEF WriteShape
    <3> QED BY <3>1, <3>2
  <2>6. Compiles(c)
    BY <2>1 DEF ExecMutation
  <2> HIDE DEF t
  <2>7. ASSUME NEW r \in (db[t] \cup db'[t]) \ (db[t] \cap db'[t])
        PROVE  /\ JunctionKey(Mapping(c), r)[1] = c.source
               /\ c.op # "clear" => JunctionKey(Mapping(c), r)[2] \in ToSet(c.targets)
    BY <2>5, <2>6, <2>7, EffectIsNamed DEF t
  <2> QED BY <2>4, <2>7 DEF NamedPairs, t
<1> QED BY <1>1, <1>2, <1>3, <1>4 DEF Write

\* AddRelation, RemoveRelation and ClearRelation insert and delete pairs of the
\* source they were given, and of the targets they were given, and no others:
\* the brackets and columns of renderRelationInsert and renderRelationRemove.
THEOREM OnlyNamedPairs == WriteSpec => OnlyNamedPairsChange
<1>1. WriteSpec => []WriteShape
  BY WriteShapeInit, WriteShapeStep, PTL DEF WriteSpec
<1>2. WriteShape /\ [Write]_writeVars
        => [\A w \in Writers : NamedPairs(w)]_writeVars
  BY StepIsNamed
<1>3. WriteSpec => [][\A w \in Writers : NamedPairs(w)]_writeVars
  BY <1>1, <1>2, PTL DEF WriteSpec
<1> QED BY <1>3 DEF OnlyNamedPairsChange, NamedPairs

---------------------------------------------------------------------------
(* The affected rows.                                                       *)

\* A total is a sum over the answers, whichever set of writers it is taken over.
Affected(f, answers, S) == \A w \in S : f[w] = answers[w].affected /\ f[w] \in Nat

Summed(f, total, S) == \E g \in [SUBSET S -> Nat] : Adds(g, f, S) /\ total = g[S]

LEMMA TotalIsSum ==
  ASSUME NEW answers, NEW t, NEW ops, NEW f, Affected(f, answers, Told(answers, t, ops))
  PROVE  Summed(f, Total(answers, t, ops), Told(answers, t, ops))
<1> DEFINE S == Told(answers, t, ops)
           Step(g) == [s \in SUBSET S |-> IF s = {} THEN 0 ELSE g[s \ {Pick(s)}] + answers[Pick(s)].affected]
           Sums(g) == g = Step(g)
<1>1. \A w \in S : f[w] = answers[w].affected /\ f[w] \in Nat
  BY DEF Affected
<1>2. IsFiniteSet(S)
  <2>1. S \in SUBSET Writers
    BY DEF Told
  <2> QED BY <2>1, FS_Subset, RelationMutationsAssumption
<1>3. Total(answers, t, ops) = (CHOOSE it : Sums(it))[S]
  BY Zenon DEF Total, FoldSet, MapThenFoldSet, Pick
<1> HIDE DEF S
<1>4. PICK g \in [SUBSET S -> Nat] : Adds(g, f, S)
  <2>1. Numbers(f, S)
    BY <1>1 DEF Numbers
  <2> QED BY <1>2, <2>1, SumExists, Zenon
<1>5. \A s \in SUBSET S : s # {} => f[Pick(s)] = answers[Pick(s)].affected
  BY <1>1, Picked
<1>6. Sums(g)
  BY <1>4, <1>5 DEF Adds
<1> DEFINE it == CHOOSE h : Sums(h)
<1>7. Sums(it)
  <2> HIDE DEF Sums
  <2> QED BY <1>6
<1>8. Adds(it, f, S)
  <2>1. \A s \in SUBSET S : it[s] = IF s = {} THEN 0 ELSE it[s \ {Pick(s)}] + answers[Pick(s)].affected
    <3> HIDE DEF it
    <3> QED BY <1>7
  <2> HIDE DEF it
  <2> QED BY <1>5, <2>1 DEF Adds
<1> HIDE DEF it, Sums
<1>9. \A s \in SUBSET S : g[s] = it[s]
  BY <1>2, <1>4, <1>8, SumsAgree
<1>10. g[S] = it[S]
  BY <1>9
<1>11. Total(answers, t, ops) = it[S]
  BY <1>3 DEF it
<1>12. Summed(f, Total(answers, t, ops), S)
  BY <1>4, <1>10, <1>11 DEF Summed
<1> QED BY <1>12 DEF S

\* What an answer does not change stays in the total.
Keeps(a, b, S) == \A w \in S : b[w].affected = a[w].affected /\ a[w].affected \in Nat

LEMMA TotalSame ==
  ASSUME NEW a, NEW b, NEW t, NEW ops,
         Told(b, t, ops) = Told(a, t, ops), Keeps(a, b, Told(a, t, ops))
  PROVE  Total(b, t, ops) = Total(a, t, ops) /\ Total(a, t, ops) \in Nat
<1> DEFINE S == Told(a, t, ops)
           f == [w \in S |-> a[w].affected]
<1>1. Affected(f, a, Told(a, t, ops)) /\ Affected(f, b, Told(b, t, ops))
  BY DEF Affected, Keeps
<1>2. IsFiniteSet(S)
  <2>1. S \in SUBSET Writers
    BY DEF Told
  <2> QED BY <2>1, FS_Subset, RelationMutationsAssumption
<1> HIDE DEF f
<1>3. PICK g \in [SUBSET S -> Nat] : Adds(g, f, S) /\ Total(a, t, ops) = g[S]
  <2>1. Summed(f, Total(a, t, ops), Told(a, t, ops))
    BY <1>1, TotalIsSum, Zenon
  <2> QED BY <2>1 DEF Summed
<1>4. PICK h \in [SUBSET S -> Nat] : Adds(h, f, S) /\ Total(b, t, ops) = h[S]
  <2>1. Summed(f, Total(b, t, ops), Told(b, t, ops))
    BY <1>1, TotalIsSum, Zenon
  <2> QED BY <2>1 DEF Summed
<1> HIDE DEF S
<1>5. \A s \in SUBSET S : g[s] = h[s]
  BY <1>2, <1>3, <1>4, SumsAgree
<1> QED BY <1>3, <1>4, <1>5

\* One more answer adds its affected rows.
LEMMA TotalOneMore ==
  ASSUME NEW a, NEW b, NEW t, NEW ops, NEW w, w \notin Told(a, t, ops),
         Told(b, t, ops) = Told(a, t, ops) \cup {w}, b[w].affected \in Nat,
         Keeps(a, b, Told(a, t, ops))
  PROVE  Total(b, t, ops) = Total(a, t, ops) + b[w].affected /\ Total(a, t, ops) \in Nat
<1> DEFINE T == Told(a, t, ops)
           S == Told(b, t, ops)
           f == [v \in S |-> b[v].affected]
<1>1. /\ Affected(f, b, Told(b, t, ops)) /\ Affected(f, a, Told(a, t, ops))
      /\ T \in SUBSET S /\ w \in S /\ S \ {w} = T
  BY DEF Affected, Keeps
<1>2. IsFiniteSet(S)
  <2>1. S \in SUBSET Writers
    BY DEF Told
  <2> QED BY <2>1, FS_Subset, RelationMutationsAssumption
<1> HIDE DEF f
<1>3. PICK g \in [SUBSET T -> Nat] : Adds(g, f, T) /\ Total(a, t, ops) = g[T]
  <2>1. Summed(f, Total(a, t, ops), Told(a, t, ops))
    BY <1>1, TotalIsSum, Zenon
  <2> QED BY <2>1 DEF Summed
<1>4. PICK h \in [SUBSET S -> Nat] : Adds(h, f, S) /\ Total(b, t, ops) = h[S]
  <2>1. Summed(f, Total(b, t, ops), Told(b, t, ops))
    BY <1>1, TotalIsSum, Zenon
  <2> QED BY <2>1 DEF Summed
<1> HIDE DEF S, T
<1>5. \A s \in SUBSET T : h[s] = g[s]
  BY <1>1, <1>2, <1>3, <1>4, SumsAgree
<1>6. \A s \in SUBSET S : \A x \in s : h[s] = h[s \ {x}] + f[x]
  <2>1. Numbers(f, S)
    BY <1>1 DEF Affected, Numbers, S
  <2>2. Adds(h, f, S)
    BY <1>4
  <2>3. \A s \in SUBSET S : TakesOff(h, f, s)
    BY <1>2, <1>4, <2>1, <2>2, SumTakesOff
  <2> QED BY <2>3 DEF TakesOff
<1>7. h[S] = h[T] + f[w] /\ h[T] = g[T] /\ f[w] = b[w].affected
  <2>1. f[w] = b[w].affected
    BY <1>1 DEF Affected, S
  <2> QED BY <1>1, <1>5, <1>6, <2>1
<1> QED BY <1>3, <1>4, <1>7

\* The rows of an add are finitely many.
LEMMA InsertedIsFinite ==
  ASSUME NEW c \in RelationCalls
  PROVE  IsFiniteSet(ToSet(Inserted(c)))
<1> DEFINE n == Len(c.targets)
<1>1. n \in Nat /\ DOMAIN c.targets = 1 .. n
  BY JunctionAssumption
<1>2. IsFiniteSet(1 .. n)
  BY <1>1, FS_Interval
<1>3. DOMAIN Inserted(c) = 1 .. n /\ ToSet(Inserted(c)) = {Inserted(c)[i] : i \in 1 .. n}
  BY <1>1 DEF Inserted, ToSet
<1>4. [i \in 1 .. n |-> Inserted(c)[i]] \in Surjection(1 .. n, ToSet(Inserted(c)))
  <2> HIDE DEF n
  <2> QED BY <1>3 DEF Surjection
<1> QED BY <1>2, <1>4, FS_Surjection

\* The affected rows are the change of the junction's size.
LEMMA EffectCounts ==
  ASSUME NEW c \in RelationCalls, IsFiniteSet(db[Mapping(c).junction.table])
  PROVE  LET before == Cardinality(db[Mapping(c).junction.table])
             after == Cardinality(Effect(c).rows)
             n == Effect(c).affected
         IN  /\ IsFiniteSet(Effect(c).rows) /\ before \in Nat /\ after \in Nat /\ n \in Nat
             /\ c.op = "add" => after = before + n
             /\ c.op \in {"remove", "clear"} => before = after + n
<1> DEFINE t == Mapping(c).junction.table
           X == db[t]
           Y == Effect(c).rows
<1>1. Effect(c).affected = Cardinality(Y \ X) + Cardinality(X \ Y)
  BY DEF Effect
<1>2. \/ c.op = "add" /\ Y = X \cup ToSet(Inserted(c))
      \/ c.op \in {"remove", "clear"} /\ Y \in SUBSET X
  BY RelationMutationsAssumption DEF Effect
<1>3. CASE c.op = "add" /\ Y = X \cup ToSet(Inserted(c))
  <2>1. IsFiniteSet(Y)
    BY <1>3, InsertedIsFinite, FS_Union
  <2> HIDE DEF Y, X
  <2>2. X \ Y = {} /\ Y \cap X = X
    BY <1>3
  <2>3. IsFiniteSet(X)
    BY DEF X
  <2>4. Cardinality(Y \ X) = Cardinality(Y) - Cardinality(X) /\ Cardinality(X \ Y) = 0
    <3>1. Cardinality(Y \ X) = Cardinality(Y) - Cardinality(Y \cap X)
      BY <2>1, FS_Difference, Zenon
    <3> QED BY <2>2, <3>1, FS_EmptySet, Zenon
  <2>5. Cardinality(Y) \in Nat /\ Cardinality(X) \in Nat /\ Cardinality(Y \ X) \in Nat
    BY <2>1, <2>3, FS_CardinalityType, FS_Difference
  <2> QED BY <1>1, <1>3, <2>1, <2>4, <2>5 DEF X, Y
<1>4. CASE c.op \in {"remove", "clear"} /\ Y \in SUBSET X
  <2> HIDE DEF Y, X
  <2>1. IsFiniteSet(X)
    BY DEF X
  <2>2. IsFiniteSet(Y) /\ Y \ X = {} /\ X \cap Y = Y
    BY <1>4, <2>1, FS_Subset
  <2>3. Cardinality(X \ Y) = Cardinality(X) - Cardinality(Y) /\ Cardinality(Y \ X) = 0
    <3>1. Cardinality(X \ Y) = Cardinality(X) - Cardinality(X \cap Y)
      BY <2>1, FS_Difference, Zenon
    <3> QED BY <2>2, <3>1, FS_EmptySet, Zenon
  <2>4. Cardinality(Y) \in Nat /\ Cardinality(X) \in Nat /\ Cardinality(X \ Y) \in Nat
    BY <2>1, <2>2, FS_CardinalityType, FS_Difference
  <2> QED BY <1>1, <1>4, <2>2, <2>3, <2>4 DEF X, Y
<1> QED BY <1>2, <1>3, <1>4

---------------------------------------------------------------------------
(* The account of a junction.                                               *)

Foreign == {x.table : x \in Changes}

\* Every table and every number of rows an answer told is finite, and while no
\* answer was lost the answers account for every table no other client changes.
AccountsInv ==
    /\ WriteShape
    /\ DOMAIN original = DOMAIN db
    /\ \A t \in DOMAIN db : IsFiniteSet(db[t]) /\ Cardinality(original[t]) \in Nat
    /\ \A w \in Writers : written[w].state = "returned" =>
          /\ written[w].call \in RelationCalls
          /\ Mapping(written[w].call).junction.table \in DOMAIN db => written[w].affected \in Nat
    /\ AffectedAccountsForJunction

LEMMA AccountsInit == WriteInit => AccountsInv
<1> SUFFICES ASSUME WriteInit PROVE AccountsInv
  OBVIOUS
<1>1. /\ db \in Databases /\ original = db /\ written = [w \in Writers |-> NotYet]
      /\ db = [t \in DOMAIN db |-> db[t]] /\ \A t \in DOMAIN db : IsFiniteSet(db[t])
  BY DatabaseAssumption DEF WriteInit
<1>2. \A t \in DOMAIN db : Cardinality(original[t]) \in Nat
  BY <1>1, FS_CardinalityType
<1>3. \A w \in Writers : written[w].state = "pending"
  BY <1>1 DEF NotYet
<1>4. ASSUME NEW t \in DOMAIN db
      PROVE  Cardinality(db[t]) + Total(written, t, {"remove", "clear"})
               = Cardinality(original[t]) + Total(written, t, {"add"})
  <2>1. ASSUME NEW ops PROVE Total(written, t, ops) = 0
    <3>1. Told(written, t, ops) = {}
      BY <1>3 DEF Told
    <3>2. Affected([w \in {} |-> 0], written, Told(written, t, ops))
      BY <3>1 DEF Affected
    <3>3. Summed([w \in {} |-> 0], Total(written, t, ops), Told(written, t, ops))
      BY <3>2, TotalIsSum, Zenon
    <3> QED BY <3>1, <3>3 DEF Summed, Adds
  <2> QED BY <1>1, <1>2, <2>1
<1> QED BY <1>1, <1>2, <1>3, <1>4 DEF AccountsInv, WriteShape, AffectedAccountsForJunction

\* A mutation that changes no table and is told no rows.
LEMMA AnswerKeepsAccounts ==
  ASSUME AccountsInv, NEW w \in Writers, NEW c \in RelationCalls, NEW parameters, NEW state \in {"failed", "returned"},
         written[w] = NotYet, written' = [written EXCEPT ![w] = Answer(state, c, 0, parameters)],
         db' = db, original' = original
  PROVE  AccountsInv'
<1> USE DEF AccountsInv, WriteShape
<1>1. \A v \in Writers : written'[v] = IF v = w THEN Answer(state, c, 0, parameters) ELSE written[v]
  OBVIOUS
<1>2. written' = [v \in Writers |-> written'[v]]
  OBVIOUS
<1>3. /\ written'[w].state = state /\ written'[w].call = c /\ written'[w].affected = 0
      /\ written[w].state = "pending"
  BY <1>1 DEF Answer, NotYet
<1>4. \A v \in Writers : written'[v].state = "returned" =>
         /\ written'[v].call \in RelationCalls
         /\ Mapping(written'[v].call).junction.table \in DOMAIN db => written'[v].affected \in Nat
  BY <1>1, <1>3
<1>5. ASSUME NEW t \in DOMAIN db, NEW ops
      PROVE  Total(written', t, ops) = Total(written, t, ops)
  <2>1. w \notin Told(written, t, ops)
    BY <1>3 DEF Told
  <2>2. Keeps(written, written', Told(written, t, ops))
    BY <1>1, <2>1 DEF Told, Keeps
  <2>3. CASE w \in Told(written', t, ops)
    <3>1. Told(written', t, ops) = Told(written, t, ops) \cup {w}
      BY <1>1, <2>3 DEF Told
    <3>2. /\ Total(written', t, ops) = Total(written, t, ops) + written'[w].affected
          /\ Total(written, t, ops) \in Nat
      BY <1>3, <2>1, <2>2, <3>1, TotalOneMore
    <3> QED BY <1>3, <3>2
  <2>4. CASE w \notin Told(written', t, ops)
    <3>1. Told(written', t, ops) = Told(written, t, ops)
      BY <1>1, <2>1, <2>4 DEF Told
    <3> QED BY <2>2, <3>1, TotalSame
  <2> QED BY <2>3, <2>4
<1>6. (\A v \in Writers : written'[v].state # "unknown") => \A v \in Writers : written[v].state # "unknown"
  BY <1>1, <1>3
<1>7. AffectedAccountsForJunction'
  BY <1>5, <1>6 DEF AffectedAccountsForJunction
<1> QED BY <1>2, <1>4, <1>7

\* A statement that took effect, whose answer arrived.
LEMMA ExecKeepsAccounts ==
  ASSUME AccountsInv, NEW w \in Writers, NEW c \in RelationCalls, ExecMutation(w, c)
  PROVE  AccountsInv'
<1> USE DEF AccountsInv, WriteShape
<1> DEFINE u == Mapping(c).junction.table
           n == Effect(c).affected
<1>1. /\ written[w].state = "pending" /\ original' = original
      /\ db' = [db EXCEPT ![u] = Effect(c).rows]
      /\ \/ written' = [written EXCEPT ![w] = Answer("returned", c, n, Parameters(c))]
         \/ written' = [written EXCEPT ![w] = Answer("unknown", c, 0, Parameters(c))]
  BY DEF ExecMutation, NotYet
<1>2. /\ DOMAIN db' = DOMAIN db /\ db' = [t \in DOMAIN db' |-> db'[t]]
      /\ \A t \in DOMAIN db : db'[t] = IF t = u THEN Effect(c).rows ELSE db[t]
  BY <1>1
<1>3. written' = [v \in Writers |-> written'[v]] /\ \A v \in Writers : v # w => written'[v] = written[v]
  BY <1>1
<1>4. /\ written'[w].call = c
      /\ \/ written'[w].state = "returned" /\ written'[w].affected = n
         \/ written'[w].state = "unknown"
  BY <1>1 DEF Answer
<1>5. u \in DOMAIN db =>
        /\ IsFiniteSet(Effect(c).rows) /\ Cardinality(db[u]) \in Nat
        /\ Cardinality(Effect(c).rows) \in Nat /\ n \in Nat
        /\ c.op = "add" => Cardinality(Effect(c).rows) = Cardinality(db[u]) + n
        /\ c.op \in {"remove", "clear"} => Cardinality(db[u]) = Cardinality(Effect(c).rows) + n
  BY EffectCounts
<1> HIDE DEF n
<1>6. \A t \in DOMAIN db' : IsFiniteSet(db'[t])
  BY <1>2, <1>5
<1>7. \A v \in Writers : written'[v].state = "returned" =>
         /\ written'[v].call \in RelationCalls
         /\ Mapping(written'[v].call).junction.table \in DOMAIN db' => written'[v].affected \in Nat
  BY <1>2, <1>3, <1>4, <1>5
<1>8. ASSUME \A v \in Writers : written'[v].state # "unknown", NEW t \in DOMAIN db \ Foreign
      PROVE  Cardinality(db'[t]) + Total(written', t, {"remove", "clear"})
               = Cardinality(original[t]) + Total(written', t, {"add"})
  <2>1. written'[w].state = "returned" /\ written'[w].affected = n /\ written'[w].call = c
    BY <1>4, <1>8
  <2>2. Cardinality(db[t]) + Total(written, t, {"remove", "clear"})
          = Cardinality(original[t]) + Total(written, t, {"add"})
    <3>1. \A v \in Writers : written[v].state # "unknown"
      BY <1>1, <1>3, <1>8
    <3> QED BY <3>1 DEF AffectedAccountsForJunction, Foreign
  <2>3. ASSUME NEW ops
        PROVE  /\ Total(written, t, ops) \in Nat
               /\ IF t = u /\ c.op \in ops THEN Total(written', t, ops) = Total(written, t, ops) + n
                                          ELSE Total(written', t, ops) = Total(written, t, ops)
    <3>1. w \notin Told(written, t, ops)
      BY <1>1 DEF Told
    <3>2. Keeps(written, written', Told(written, t, ops))
      BY <1>3, <3>1 DEF Told, Keeps
    <3>3. CASE t = u /\ c.op \in ops
      <4>1. Told(written', t, ops) = Told(written, t, ops) \cup {w}
        BY <1>3, <2>1, <3>1, <3>3 DEF Told
      <4>2. written'[w].affected \in Nat
        BY <1>5, <2>1, <3>3
      <4>3. /\ Total(written', t, ops) = Total(written, t, ops) + written'[w].affected
            /\ Total(written, t, ops) \in Nat
        BY <3>1, <3>2, <4>1, <4>2, TotalOneMore
      <4> QED BY <2>1, <3>3, <4>3
    <3>4. CASE ~ (t = u /\ c.op \in ops)
      <4>1. Told(written', t, ops) = Told(written, t, ops)
        BY <1>3, <2>1, <3>1, <3>4 DEF Told
      <4>2. Total(written', t, ops) = Total(written, t, ops) /\ Total(written, t, ops) \in Nat
        BY <3>2, <4>1, TotalSame
      <4> QED BY <3>4, <4>2
    <3> QED BY <3>3, <3>4
  <2> DEFINE removed == Total(written, t, {"remove", "clear"})
             added == Total(written, t, {"add"})
             removed2 == Total(written', t, {"remove", "clear"})
             added2 == Total(written', t, {"add"})
  <2>4. /\ removed \in Nat /\ added \in Nat
        /\ IF t = u /\ c.op \in {"remove", "clear"} THEN removed2 = removed + n ELSE removed2 = removed
        /\ IF t = u /\ c.op \in {"add"} THEN added2 = added + n ELSE added2 = added
    BY <2>3
  <2> HIDE DEF removed, added, removed2, added2
  <2>5. Cardinality(db[t]) \in Nat /\ Cardinality(original[t]) \in Nat
    BY FS_CardinalityType
  <2>6. Cardinality(db[t]) + removed = Cardinality(original[t]) + added
    BY <2>2 DEF removed, added
  <2>7. Cardinality(db'[t]) + removed2 = Cardinality(original[t]) + added2
    <3>1. CASE t # u
      <4>1. db'[t] = db[t]
        BY <1>2, <3>1
      <4> QED BY <2>4, <2>6, <3>1, <4>1
    <3>2. CASE t = u /\ c.op = "add"
      <4>1. db'[t] = Effect(c).rows /\ Cardinality(Effect(c).rows) = Cardinality(db[t]) + n /\ n \in Nat
        BY <1>2, <1>5, <3>2
      <4>2. added2 = added + n /\ removed2 = removed
        BY <2>4, <3>2
      <4> QED BY <2>4, <2>5, <2>6, <4>1, <4>2
    <3>3. CASE t = u /\ c.op \in {"remove", "clear"}
      <4>1. /\ db'[t] = Effect(c).rows /\ Cardinality(db[t]) = Cardinality(Effect(c).rows) + n
            /\ n \in Nat /\ Cardinality(Effect(c).rows) \in Nat
        BY <1>2, <1>5, <3>3
      <4>2. added2 = added /\ removed2 = removed + n
        BY <2>4, <3>3
      <4> QED BY <2>4, <2>5, <2>6, <4>1, <4>2
    <3> QED BY <3>1, <3>2, <3>3, RelationMutationsAssumption
  <2> QED BY <2>7 DEF removed2, added2
<1>9. AffectedAccountsForJunction'
  BY <1>1, <1>2, <1>8 DEF AffectedAccountsForJunction, Foreign
<1> QED BY <1>1, <1>2, <1>3, <1>6, <1>7, <1>9

\* A change of another client.
LEMMA ChangeKeepsAccounts ==
  ASSUME AccountsInv, NEW x \in Changes, Change(x)
  PROVE  AccountsInv'
<1> USE DEF AccountsInv, WriteShape
<1>1. /\ original' = original /\ written' = written
      /\ db' = [db EXCEPT ![x.table] = (db[x.table] \ x.old) \cup x.new]
  BY DEF Change
<1>2. /\ DOMAIN db' = DOMAIN db /\ db' = [t \in DOMAIN db' |-> db'[t]]
      /\ \A t \in DOMAIN db : db'[t] = IF t = x.table THEN (db[t] \ x.old) \cup x.new ELSE db[t]
  BY <1>1
<1>3. ASSUME NEW t \in DOMAIN db PROVE IsFiniteSet(db'[t])
  <2>1. IsFiniteSet(db[t]) /\ IsFiniteSet(x.new)
    BY RelationMutationsAssumption
  <2>2. IsFiniteSet(db[t] \ x.old)
    BY <2>1, FS_Difference
  <2>3. IsFiniteSet((db[t] \ x.old) \cup x.new)
    BY <2>1, <2>2, FS_Union
  <2> QED BY <1>2, <2>1, <2>3
<1>4. AffectedAccountsForJunction'
  BY <1>1, <1>2 DEF AffectedAccountsForJunction
<1> QED BY <1>1, <1>2, <1>3, <1>4

LEMMA AccountsStep == AccountsInv /\ [Write]_writeVars => AccountsInv'
<1> SUFFICES ASSUME AccountsInv, [Write]_writeVars PROVE AccountsInv'
  OBVIOUS
<1>1. CASE UNCHANGED writeVars
  BY <1>1 DEF writeVars, AccountsInv, WriteShape, AffectedAccountsForJunction
<1>2. ASSUME NEW w \in Writers, NEW c \in RelationCalls, RefuseMutation(w, c)
      PROVE  AccountsInv'
  BY <1>2, AnswerKeepsAccounts DEF RefuseMutation
<1>3. ASSUME NEW w \in Writers, NEW c \in RelationCalls, SkipMutation(w, c)
      PROVE  AccountsInv'
  BY <1>3, AnswerKeepsAccounts DEF SkipMutation
<1>4. ASSUME NEW w \in Writers, NEW c \in RelationCalls, FailMutation(w, c)
      PROVE  AccountsInv'
  BY <1>4, AnswerKeepsAccounts DEF FailMutation
<1>5. ASSUME NEW w \in Writers, NEW c \in RelationCalls, ExecMutation(w, c)
      PROVE  AccountsInv'
  BY <1>5, ExecKeepsAccounts
<1>6. ASSUME NEW x \in Changes, Change(x)
      PROVE  AccountsInv'
  BY <1>6, ChangeKeepsAccounts
<1> QED BY <1>1, <1>2, <1>3, <1>4, <1>5, <1>6 DEF Write

\* Nothing of a junction is lost or counted twice: the affected rows that AddRelation,
\* RemoveRelation and ClearRelation return account for the size of a junction that only
\* they write, however goroutines add, repeat, remove and clear pairs of it, as long as
\* no answer was lost (the affected rows of RelationAddQuery.Exec are the new pairs,
\* not the targets it was given).
THEOREM AffectedAccounts == WriteSpec => []AffectedAccountsForJunction
<1>1. AccountsInv => AffectedAccountsForJunction
  BY DEF AccountsInv
<1> QED BY AccountsInit, AccountsStep, <1>1, PTL DEF WriteSpec

---------------------------------------------------------------------------
(* Preload: folds, one step after the other.                               *)

\* g follows the recursion where the values are of V.
Unfolds(g, n, V, base, H) ==
    \A s \in SUBSET (1 .. n) :
       g[s \ {Max(s)}] \in V \/ s = {} => g[s] = IF s = {} THEN base ELSE H[Max(s)][g[s \ {Max(s)}]]

\* A solution of the recursion goes through the values of its steps.
LEMMA FoldIsSteps ==
    ASSUME NEW n \in Nat, NEW V, NEW base \in V, NEW H \in [1 .. n -> [V -> V]], NEW g, Unfolds(g, n, V, base, H)
    PROVE  \E G \in [0 .. n -> V] : Steps(G, n, base, H) /\ g[1 .. n] = G[n]
<1> DEFINE G == [k \in 0 .. n |-> g[1 .. k]]
<1>1. G[0] = base /\ g[1 .. n] = G[n]
  <2>1. {} \in SUBSET (1 .. n) /\ 1 .. 0 = {} /\ G[0] = g[1 .. 0] /\ G[n] = g[1 .. n]
    OBVIOUS
  <2>2. g[{}] = base
    BY <2>1 DEF Unfolds
  <2> QED
    BY <2>1, <2>2
<1>2. ASSUME NEW k \in 1 .. n, G[k - 1] \in V
      PROVE  G[k] = H[k][G[k - 1]]
  <2>1. 1 .. k \in SUBSET (1 .. n) /\ 1 .. k # {} /\ Max(1 .. k) = k /\ (1 .. k) \ {k} = 1 .. k - 1
    BY MaxOfPrefix
  <2>2. G[k] = g[1 .. k] /\ G[k - 1] = g[1 .. k - 1]
    OBVIOUS
  <2> HIDE DEF G
  <2>3. g[(1 .. k) \ {Max(1 .. k)}] \in V
    BY <1>2, <2>1, <2>2
  <2>4. g[1 .. k] = H[Max(1 .. k)][g[(1 .. k) \ {Max(1 .. k)}]]
    BY <2>1, <2>3 DEF Unfolds
  <2> QED
    BY <2>1, <2>2, <2>4
<1> HIDE DEF G
<1>3. \A k \in 0 .. n : G[k] \in V
  <2> DEFINE Q == {k \in 0 .. n : G[k] \in V}
  <2>1. 0 \in Q
    BY <1>1
  <2>2. ASSUME NEW k \in 0 .. n - 1, k \in Q
        PROVE  k + 1 \in Q
    <3>1. k + 1 \in 1 .. n /\ (k + 1) - 1 = k /\ k + 1 \in 0 .. n /\ G[k] \in V
      BY <2>2
    <3>2. G[k + 1] = H[k + 1][G[k]]
      BY <1>2, <3>1
    <3> QED
      BY <3>1, <3>2
  <2> HIDE DEF Q
  <2>3. \A k \in 0 .. n : k \in Q
    BY <2>1, <2>2, UpTo
  <2> QED
    BY <2>3 DEF Q
<1>4. \A k \in 1 .. n : G[k] = H[k][G[k - 1]]
  <2>1. \A k \in 1 .. n : k - 1 \in 0 .. n
    OBVIOUS
  <2> QED
    BY <1>2, <1>3, <2>1
<1>5. G \in [0 .. n -> V]
  BY <1>3 DEF G
<1> QED
  BY <1>1, <1>4, <1>5 DEF Steps

---------------------------------------------------------------------------
(* Sequences filtered and without repetitions.                               *)

OneMore(S, kept, x) == IF x \in S THEN Append(kept, x) ELSE kept

KeepsUpTo(G, V, S, seq) ==
    /\ G \in [0 .. Len(seq) -> Seq(V)] /\ G[0] = <<>> /\ Among(S, seq) = G[Len(seq)]
    /\ \A k \in 1 .. Len(seq) : G[k] = OneMore(S, G[k - 1], seq[k])

\* What Among computes, one element after the other.
LEMMA AmongSteps ==
    ASSUME NEW V, NEW seq \in Seq(V), NEW S
    PROVE  \E G : KeepsUpTo(G, V, S, seq)
<1> DEFINE n == Len(seq)
           W == Seq(V)
           Folding(g) == g = [s \in SUBSET DOMAIN seq |->
                                 IF s = {} THEN <<>> ELSE OneMore(S, g[s \ {Max(s)}], seq[Max(s)])]
           H == [i \in 1 .. n |-> [v \in W |-> OneMore(S, v, seq[i])]]
           g == CHOOSE it : Folding(it)
<1>1. n \in Nat /\ DOMAIN seq = 1 .. n /\ (\A i \in 1 .. n : seq[i] \in V) /\ <<>> \in W
  OBVIOUS
<1>2. \A kept \in W : \A x \in V : OneMore(S, kept, x) \in W
  BY DEF OneMore
<1>3. Among(S, seq) = g[1 .. n]
  <2>1. Among(S, seq) = g[DOMAIN seq]
    BY Zenon DEF Among, FoldLeft, MapThenFoldSet, OneMore
  <2> HIDE DEF g
  <2> QED
    BY <1>1, <2>1
<1> HIDE DEF W, n
<1>4. H \in [1 .. n -> [W -> W]] /\ \A i \in 1 .. n : \A v \in W : H[i][v] = OneMore(S, v, seq[i])
  BY <1>1, <1>2
<1> HIDE DEF H
<1>5. \A s \in SUBSET (1 .. n) : s # {} => Max(s) \in 1 .. n /\ s \ {Max(s)} \in SUBSET (1 .. n)
  BY <1>1, MaxUpTo
<1>6. PICK F \in [SUBSET (1 .. n) -> W] : Folds(F, n, <<>>, H)
  BY <1>1, <1>4, FoldExists
<1>7. Folding(F)
  <2>1. F = [s \in SUBSET (1 .. n) |-> F[s]]
    BY <1>6
  <2>2. \A s \in SUBSET (1 .. n) :
           F[s] = IF s = {} THEN <<>> ELSE OneMore(S, F[s \ {Max(s)}], seq[Max(s)])
    BY <1>4, <1>5, <1>6 DEF Folds
  <2> QED
    BY <1>1, <2>1, <2>2
<1>8. Folding(g)
  <2> HIDE DEF Folding
  <2> QED
    BY <1>7
<1> HIDE DEF g
<1>9. \A s \in SUBSET (1 .. n) :
         g[s] = IF s = {} THEN <<>> ELSE OneMore(S, g[s \ {Max(s)}], seq[Max(s)])
  BY <1>1, <1>8
<1> HIDE DEF Folding
<1>10. PICK G \in [0 .. n -> W] : Steps(G, n, <<>>, H) /\ g[1 .. n] = G[n]
  <2>1. Unfolds(g, n, W, <<>>, H)
    BY <1>4, <1>5, <1>9 DEF Unfolds
  <2>2. n \in Nat /\ <<>> \in W /\ H \in [1 .. n -> [W -> W]]
    BY <1>1, <1>4
  <2> QED
    BY <2>1, <2>2, FoldIsSteps
<1>11. \A k \in 1 .. n : G[k] = OneMore(S, G[k - 1], seq[k])
  <2>1. \A k \in 1 .. n : k - 1 \in 0 .. n
    BY <1>1
  <2> QED
    BY <1>4, <1>10, <2>1 DEF Steps
<1> QED
  BY <1>3, <1>10, <1>11 DEF W, n, Steps, KeepsUpTo

NewOne(seen, x) == IF x \in ToSet(seen) THEN seen ELSE Append(seen, x)

DistinctUpTo(G, V, seq) ==
    /\ G \in [0 .. Len(seq) -> Seq(V)] /\ G[0] = <<>> /\ Distinct(seq) = G[Len(seq)]
    /\ \A k \in 1 .. Len(seq) : G[k] = NewOne(G[k - 1], seq[k])

\* What Distinct computes, one element after the other.
LEMMA DistinctSteps ==
    ASSUME NEW V, NEW seq \in Seq(V)
    PROVE  \E G : DistinctUpTo(G, V, seq)
<1> DEFINE n == Len(seq)
           W == Seq(V)
           Folding(g) == g = [s \in SUBSET DOMAIN seq |->
                                 IF s = {} THEN <<>> ELSE NewOne(g[s \ {Max(s)}], seq[Max(s)])]
           H == [i \in 1 .. n |-> [v \in W |-> NewOne(v, seq[i])]]
           g == CHOOSE it : Folding(it)
<1>1. n \in Nat /\ DOMAIN seq = 1 .. n /\ (\A i \in 1 .. n : seq[i] \in V) /\ <<>> \in W
  OBVIOUS
<1>2. \A seen \in W : \A x \in V : NewOne(seen, x) \in W
  BY DEF NewOne
<1>3. Distinct(seq) = g[1 .. n]
  <2>1. Distinct(seq) = g[DOMAIN seq]
    BY Zenon DEF Distinct, FoldLeft, MapThenFoldSet, NewOne
  <2> HIDE DEF g
  <2> QED
    BY <1>1, <2>1
<1> HIDE DEF W, n
<1>4. H \in [1 .. n -> [W -> W]] /\ \A i \in 1 .. n : \A v \in W : H[i][v] = NewOne(v, seq[i])
  BY <1>1, <1>2
<1> HIDE DEF H
<1>5. \A s \in SUBSET (1 .. n) : s # {} => Max(s) \in 1 .. n /\ s \ {Max(s)} \in SUBSET (1 .. n)
  BY <1>1, MaxUpTo
<1>6. PICK F \in [SUBSET (1 .. n) -> W] : Folds(F, n, <<>>, H)
  BY <1>1, <1>4, FoldExists
<1>7. Folding(F)
  <2>1. F = [s \in SUBSET (1 .. n) |-> F[s]]
    BY <1>6
  <2>2. \A s \in SUBSET (1 .. n) : F[s] = IF s = {} THEN <<>> ELSE NewOne(F[s \ {Max(s)}], seq[Max(s)])
    BY <1>4, <1>5, <1>6 DEF Folds
  <2> QED
    BY <1>1, <2>1, <2>2
<1>8. Folding(g)
  <2> HIDE DEF Folding
  <2> QED
    BY <1>7
<1> HIDE DEF g
<1>9. \A s \in SUBSET (1 .. n) : g[s] = IF s = {} THEN <<>> ELSE NewOne(g[s \ {Max(s)}], seq[Max(s)])
  BY <1>1, <1>8
<1> HIDE DEF Folding
<1>10. PICK G \in [0 .. n -> W] : Steps(G, n, <<>>, H) /\ g[1 .. n] = G[n]
  <2>1. Unfolds(g, n, W, <<>>, H)
    BY <1>4, <1>5, <1>9 DEF Unfolds
  <2>2. n \in Nat /\ <<>> \in W /\ H \in [1 .. n -> [W -> W]]
    BY <1>1, <1>4
  <2> QED
    BY <2>1, <2>2, FoldIsSteps
<1>11. \A k \in 1 .. n : G[k] = NewOne(G[k - 1], seq[k])
  <2>1. \A k \in 1 .. n : k - 1 \in 0 .. n
    BY <1>1
  <2> QED
    BY <1>4, <1>10, <2>1 DEF Steps
<1> QED
  BY <1>3, <1>10, <1>11 DEF W, n, Steps, DistinctUpTo

\* Steps from the same value with the same rule agree.
LEMMA AmongEmpty == ASSUME NEW S PROVE Among(S, <<>>) = <<>>
<1>1. <<>> \in Seq({}) /\ Len(<<>>) = 0
  OBVIOUS
<1>2. PICK G : KeepsUpTo(G, {}, S, <<>>)
  BY <1>1, AmongSteps
<1> QED
  BY <1>1, <1>2 DEF KeepsUpTo

\* One more element is kept when it is in the set.
LEMMA AmongAppend ==
    ASSUME NEW V, NEW seq \in Seq(V), NEW x \in V, NEW S, NEW T,
           S \cap ToSet(seq) = T \cap ToSet(seq)
    PROVE  /\ Among(S, seq) \in Seq(V)
           /\ Among(T, Append(seq, x)) = OneMore(T, Among(S, seq), x)
<1> DEFINE n == Len(seq)
           t == Append(seq, x)
<1>1. /\ n \in Nat /\ t \in Seq(V) /\ Len(t) = n + 1 /\ t[n + 1] = x
      /\ \A k \in 1 .. n : t[k] = seq[k] /\ seq[k] \in ToSet(seq)
  BY DEF ToSet
<1>2. PICK G : KeepsUpTo(G, V, S, seq)
  BY AmongSteps
<1>3. PICK K : KeepsUpTo(K, V, T, t)
  <2> HIDE DEF t
  <2> QED
    BY <1>1, AmongSteps
<1> USE DEF KeepsUpTo
<1> HIDE DEF t
<1>4. \A k \in 0 .. n : G[k] = K[k]
  <2> DEFINE Q == {k \in 0 .. n : G[k] = K[k]}
  <2>1. 0 \in Q
    BY <1>1, <1>2, <1>3
  <2>2. ASSUME NEW k \in 0 .. n - 1, k \in Q
        PROVE  k + 1 \in Q
    <3>1. k + 1 \in 1 .. n /\ (k + 1) - 1 = k /\ k + 1 \in 1 .. n + 1 /\ G[k] = K[k]
      BY <1>1, <2>2
    <3>2. G[k + 1] = OneMore(S, G[k], seq[k + 1]) /\ K[k + 1] = OneMore(T, K[k], seq[k + 1])
      BY <1>1, <1>2, <1>3, <3>1
    <3>3. seq[k + 1] \in S <=> seq[k + 1] \in T
      BY <1>1, <3>1
    <3> QED
      BY <1>1, <3>1, <3>2, <3>3 DEF OneMore
  <2> HIDE DEF Q, n
  <2>3. \A k \in 0 .. n : k \in Q
    BY <1>1, <2>1, <2>2, UpTo
  <2> QED
    BY <2>3 DEF Q
<1>5. K[n + 1] = OneMore(T, G[n], x)
  <2>1. n + 1 \in 1 .. n + 1 /\ (n + 1) - 1 = n /\ n \in 0 .. n
    BY <1>1
  <2> QED
    BY <1>1, <1>3, <1>4, <2>1
<1>6. Among(S, seq) = G[n] /\ G[n] \in Seq(V) /\ Among(T, t) = K[n + 1]
  BY <1>1, <1>2, <1>3
<1> QED
  BY <1>5, <1>6 DEF t

\* What is kept, and that nothing comes twice when nothing did.
LEMMA AmongKeeps ==
    ASSUME NEW V, NEW seq \in Seq(V), NEW S
    PROVE  /\ Among(S, seq) \in Seq(V) /\ ToSet(Among(S, seq)) = S \cap ToSet(seq)
           /\ IsInjective(seq) => IsInjective(Among(S, seq))
<1> DEFINE n == Len(seq)
           first(k) == {seq[i] : i \in 1 .. k}
<1>1. n = Len(seq) /\ n \in Nat /\ DOMAIN seq = 1 .. n /\ ToSet(seq) = first(n)
  BY DEF ToSet
<1>2. PICK G : KeepsUpTo(G, V, S, seq)
  BY AmongSteps
<1> USE DEF KeepsUpTo
<1> HIDE DEF n
<1> DEFINE Good(k) == ToSet(G[k]) = S \cap first(k) /\ (IsInjective(seq) => IsInjective(G[k]))
<1>3. \A k \in 0 .. n : Good(k)
  <2> DEFINE Q == {k \in 0 .. n : Good(k)}
  <2>1. 0 \in Q
    <3>1. DOMAIN G[0] = {} /\ ToSet(G[0]) = {} /\ first(0) = {} /\ 0 \in 0 .. n
      BY <1>1, <1>2 DEF ToSet
    <3>2. IsInjective(G[0])
      BY <3>1 DEF IsInjective
    <3> QED
      BY <3>1, <3>2
  <2>2. ASSUME NEW k \in 0 .. n - 1, k \in Q
        PROVE  k + 1 \in Q
    <3>0. k \in 0 .. n /\ Good(k)
      BY <2>2
    <3>1. k + 1 \in 1 .. n /\ (k + 1) - 1 = k /\ k \in 0 .. n /\ k + 1 \in 0 .. n
      BY <1>1
    <3>2. G[k] \in Seq(V) /\ seq[k + 1] \in V /\ G[k + 1] = OneMore(S, G[k], seq[k + 1])
      BY <1>1, <1>2, <3>1
    <3>3. first(k + 1) = first(k) \cup {seq[k + 1]}
      <4>1. 1 .. k + 1 = (1 .. k) \cup {k + 1}
        BY <3>0, <3>1
      <4> QED
        BY <4>1
    <3>4. CASE seq[k + 1] \in S
      <4> DEFINE old == G[k]
                 new == Append(old, seq[k + 1])
      <4>1. G[k + 1] = new
        BY <3>2, <3>4 DEF OneMore
      <4>2. old \in Seq(V) /\ Len(old) \in Nat
        BY <3>2
      <4> HIDE DEF old
      <4>3. /\ DOMAIN old = 1 .. Len(old) /\ DOMAIN new = 1 .. Len(old) + 1 /\ new[Len(old) + 1] = seq[k + 1]
            /\ \A i \in DOMAIN old : new[i] = old[i]
        BY <3>2, <4>2
      <4> HIDE DEF new
      <4>4. ToSet(new) = ToSet(old) \cup {seq[k + 1]}
        <5>1. \A i \in DOMAIN new : i \in DOMAIN old \/ i = Len(old) + 1
          BY <4>2, <4>3
        <5>2. DOMAIN old \subseteq DOMAIN new /\ Len(old) + 1 \in DOMAIN new
          BY <4>2, <4>3
        <5> QED
          BY <4>3, <5>1, <5>2 DEF ToSet
      <4>5. ToSet(G[k + 1]) = S \cap first(k + 1)
        BY <3>0, <3>1, <3>3, <3>4, <4>1, <4>4 DEF old
      <4>6. ASSUME IsInjective(seq)
            PROVE  IsInjective(new)
        <5>1. seq[k + 1] \notin first(k)
          <6>1. \A i \in 1 .. k : i \in DOMAIN seq /\ i # k + 1 /\ k + 1 \in DOMAIN seq
            BY <1>1, <3>1
          <6> QED
            BY <4>6, <6>1 DEF IsInjective
        <5>2. seq[k + 1] \notin ToSet(old)
          BY <3>0, <3>1, <5>1 DEF old
        <5>3. \A i \in DOMAIN old : old[i] # seq[k + 1]
          BY <5>2 DEF ToSet
        <5>4. IsInjective(old)
          BY <3>0, <3>1, <4>6 DEF old
        <5>5. \A i \in DOMAIN new : i \in DOMAIN old \/ i = Len(old) + 1
          BY <4>2, <4>3
        <5> QED
          BY <4>3, <5>3, <5>4, <5>5 DEF IsInjective
      <4> QED
        BY <3>0, <3>1, <4>1, <4>5, <4>6
    <3>5. CASE seq[k + 1] \notin S
      BY <3>0, <3>1, <3>2, <3>3, <3>5 DEF OneMore
    <3> QED
      BY <3>4, <3>5
  <2> HIDE DEF Q
  <2>3. \A k \in 0 .. n : k \in Q
    BY <1>1, <2>1, <2>2, UpTo
  <2> QED
    BY <2>3 DEF Q
<1> QED
  BY <1>1, <1>2, <1>3

\* Distinct holds what the sequence holds, each once.
LEMMA DistinctKeeps ==
    ASSUME NEW V, NEW seq \in Seq(V)
    PROVE  /\ Distinct(seq) \in Seq(V) /\ ToSet(Distinct(seq)) = ToSet(seq)
           /\ IsInjective(Distinct(seq))
<1> DEFINE n == Len(seq)
           first(k) == {seq[i] : i \in 1 .. k}
<1>1. n = Len(seq) /\ n \in Nat /\ DOMAIN seq = 1 .. n /\ ToSet(seq) = first(n)
  BY DEF ToSet
<1>2. PICK G : DistinctUpTo(G, V, seq)
  BY DistinctSteps
<1> USE DEF DistinctUpTo
<1> HIDE DEF n
<1> DEFINE Good(k) == ToSet(G[k]) = first(k) /\ IsInjective(G[k])
<1>3. \A k \in 0 .. n : Good(k)
  <2> DEFINE Q == {k \in 0 .. n : Good(k)}
  <2>1. 0 \in Q
    <3>1. DOMAIN G[0] = {} /\ ToSet(G[0]) = {} /\ first(0) = {} /\ 0 \in 0 .. n
      BY <1>1, <1>2 DEF ToSet
    <3>2. IsInjective(G[0])
      BY <3>1 DEF IsInjective
    <3> QED
      BY <3>1, <3>2
  <2>2. ASSUME NEW k \in 0 .. n - 1, k \in Q
        PROVE  k + 1 \in Q
    <3>0. k \in 0 .. n /\ Good(k)
      BY <2>2
    <3>1. k + 1 \in 1 .. n /\ (k + 1) - 1 = k /\ k \in 0 .. n /\ k + 1 \in 0 .. n
      BY <1>1
    <3>2. G[k] \in Seq(V) /\ seq[k + 1] \in V /\ G[k + 1] = NewOne(G[k], seq[k + 1])
      BY <1>1, <1>2, <3>1
    <3>3. first(k + 1) = first(k) \cup {seq[k + 1]}
      <4>1. 1 .. k + 1 = (1 .. k) \cup {k + 1}
        BY <3>0, <3>1
      <4> QED
        BY <4>1
    <3>4. CASE seq[k + 1] \notin ToSet(G[k])
      <4> DEFINE old == G[k]
                 new == Append(old, seq[k + 1])
      <4>1. G[k + 1] = new
        BY <3>2, <3>4 DEF NewOne
      <4>2. old \in Seq(V) /\ Len(old) \in Nat /\ ToSet(old) = first(k) /\ IsInjective(old)
            /\ seq[k + 1] \notin ToSet(old)
        BY <3>0, <3>1, <3>2, <3>4
      <4> HIDE DEF old
      <4>3. /\ DOMAIN old = 1 .. Len(old) /\ DOMAIN new = 1 .. Len(old) + 1 /\ new[Len(old) + 1] = seq[k + 1]
            /\ \A i \in DOMAIN old : new[i] = old[i]
        BY <3>2, <4>2
      <4> HIDE DEF new
      <4>4. (\A i \in DOMAIN new : i \in DOMAIN old \/ i = Len(old) + 1)
            /\ DOMAIN old \subseteq DOMAIN new /\ Len(old) + 1 \in DOMAIN new
        BY <4>2, <4>3
      <4>5. ToSet(new) = ToSet(old) \cup {seq[k + 1]}
        BY <4>3, <4>4 DEF ToSet
      <4>6. \A i \in DOMAIN old : old[i] # seq[k + 1]
        BY <4>2 DEF ToSet
      <4>7. IsInjective(new)
        BY <4>2, <4>3, <4>4, <4>6 DEF IsInjective
      <4> QED
        BY <3>0, <3>1, <3>3, <4>1, <4>2, <4>5, <4>7
    <3>5. CASE seq[k + 1] \in ToSet(G[k])
      BY <3>0, <3>1, <3>2, <3>3, <3>5 DEF NewOne
    <3> QED
      BY <3>4, <3>5
  <2> HIDE DEF Q
  <2>3. \A k \in 0 .. n : k \in Q
    BY <1>1, <2>1, <2>2, UpTo
  <2> QED
    BY <2>3 DEF Q
<1> QED
  BY <1>1, <1>2, <1>3

\* What a sequence holds, it holds with more before or behind it.
LEMMA JoinedHolds ==
    ASSUME NEW V, NEW u \in Seq(V), NEW v \in Seq(V)
    PROVE  u \o v \in Seq(V) /\ ToSet(u) \subseteq ToSet(u \o v) /\ ToSet(v) \subseteq ToSet(u \o v)
<1> DEFINE w == u \o v
<1>1. /\ w \in Seq(V) /\ DOMAIN w = 1 .. Len(u) + Len(v) /\ DOMAIN u = 1 .. Len(u) /\ DOMAIN v = 1 .. Len(v)
      /\ \A i \in 1 .. Len(u) : w[i] = u[i]
      /\ \A i \in 1 .. Len(v) : w[Len(u) + i] = v[i]
      /\ Len(u) \in Nat /\ Len(v) \in Nat
  OBVIOUS
<1> HIDE DEF w
<1>2. /\ \A i \in DOMAIN u : i \in DOMAIN w /\ w[i] = u[i]
      /\ \A i \in DOMAIN v : Len(u) + i \in DOMAIN w /\ w[Len(u) + i] = v[i]
  BY <1>1
<1>3. ToSet(u) \subseteq ToSet(w) /\ ToSet(v) \subseteq ToSet(w)
  BY <1>2 DEF ToSet
<1> QED
  BY <1>1, <1>3 DEF w

\* A sequence of sequences, one after the other.
LEMMA FlattenSteps ==
    ASSUME NEW V, NEW seqs \in Seq(Seq(V))
    PROVE  /\ FlattenSeq(seqs) \in Seq(V)
           /\ \A i \in DOMAIN seqs : ToSet(seqs[i]) \subseteq ToSet(FlattenSeq(seqs))
<1> DEFINE n == Len(seqs)
           W == Seq(V)
           Folding(f) == f = [i \in 1 .. n |-> IF i = 1 THEN seqs[i] ELSE f[i - 1] \o seqs[i]]
           H == [i \in 1 .. n |-> [v \in W |-> v \o seqs[i]]]
           f == CHOOSE it : Folding(it)
<1>1. n \in Nat /\ (\A i \in 1 .. n : seqs[i] \in W) /\ <<>> \in W
  OBVIOUS
<1>2. CASE n = 0
  <2>1. seqs = <<>>
    BY <1>2
  <2>2. FlattenSeq(seqs) = seqs
    BY <1>2 DEF FlattenSeq
  <2>3. <<>> \in Seq(V) /\ DOMAIN <<>> = {}
    OBVIOUS
  <2> HIDE DEF W
  <2> QED
    BY <2>1, <2>2, <2>3
<1>3. CASE n # 0
  <2>1. FlattenSeq(seqs) = f[n]
    BY <1>3, Zenon DEF FlattenSeq
  <2>2. \A v \in W : \A u \in W : v \o u \in W
    OBVIOUS
  <2>3. \A v \in W : <<>> \o v = v
    OBVIOUS
  <2> HIDE DEF W, n
  <2>4. H \in [1 .. n -> [W -> W]] /\ \A i \in 1 .. n : \A v \in W : H[i][v] = v \o seqs[i]
    BY <1>1, <2>2
  <2> HIDE DEF H
  <2>5. PICK G \in [0 .. n -> W] : Steps(G, n, <<>>, H)
    BY <1>1, <2>4, StepsExist
  <2> DEFINE K == [i \in 1 .. n |-> G[i]]
  <2>6. Folding(K)
    <3>1. ASSUME NEW i \in 1 .. n
          PROVE  K[i] = IF i = 1 THEN seqs[i] ELSE K[i - 1] \o seqs[i]
      <4>1. i - 1 \in 0 .. n /\ G[i - 1] \in W /\ seqs[i] \in W
        BY <1>1, <2>5
      <4>2. G[i] = H[i][G[i - 1]]
        BY <2>5 DEF Steps
      <4>3. G[i] = G[i - 1] \o seqs[i]
        BY <2>4, <4>1, <4>2
      <4>4. CASE i = 1
        <5>1. G[i - 1] = <<>>
          BY <2>5, <4>4 DEF Steps
        <5> QED
          BY <2>3, <4>1, <4>3, <4>4, <5>1
      <4>5. CASE i # 1
        <5>1. i - 1 \in 1 .. n
          BY <1>1, <4>5
        <5> QED
          BY <4>3, <4>5, <5>1
      <4> QED
        BY <4>4, <4>5
    <3>2. K = [i \in 1 .. n |-> K[i]]
      OBVIOUS
    <3> HIDE DEF K
    <3> QED
      BY <3>1, <3>2
  <2>7. Folding(f)
    <3> HIDE DEF Folding
    <3> QED
      BY <2>6
  <2> HIDE DEF f
  <2>8. \A i \in 1 .. n : f[i] = IF i = 1 THEN seqs[i] ELSE f[i - 1] \o seqs[i]
    BY <2>7
  <2> HIDE DEF Folding, K
  <2> DEFINE Holds(k) == f[k] \in W /\ \A i \in 1 .. k : ToSet(seqs[i]) \subseteq ToSet(f[k])
             Q == {k \in 0 .. n : k = 0 \/ Holds(k)}
  <2>9. 0 \in Q
    <3>1. 0 \in 0 .. n
      BY <1>1
    <3> QED
      BY <3>1
  <2>10. ASSUME NEW k \in 0 .. n - 1, k \in Q
         PROVE  k + 1 \in Q
    <3>1. k + 1 \in 1 .. n /\ k + 1 \in 0 .. n /\ (k + 1) - 1 = k /\ (k + 1 = 1 <=> k = 0)
      BY <1>1
    <3>4. seqs[k + 1] \in W
      BY <1>1, <3>1
    <3>2. f[k + 1] = IF k = 0 THEN seqs[k + 1] ELSE f[k] \o seqs[k + 1]
      BY <2>8, <3>1
    <3>3. k # 0 => Holds(k)
      BY <2>10
    <3>5. CASE k = 0
      <4>1. f[k + 1] = seqs[k + 1] /\ \A i \in 1 .. k + 1 : i = k + 1
        BY <3>2, <3>5
      <4>2. Holds(k + 1)
        BY <3>4, <4>1
      <4> QED
        BY <3>1, <4>2
    <3>6. CASE k # 0
      <4>1. f[k + 1] = f[k] \o seqs[k + 1] /\ f[k] \in W
        BY <3>2, <3>3, <3>6
      <4>2. f[k + 1] \in W /\ ToSet(f[k]) \subseteq ToSet(f[k + 1]) /\ ToSet(seqs[k + 1]) \subseteq ToSet(f[k + 1])
        BY <3>4, <4>1, JoinedHolds DEF W
      <4>3. \A i \in 1 .. k + 1 : i \in 1 .. k \/ i = k + 1
        BY <3>1
      <4>4. Holds(k + 1)
        BY <3>3, <3>6, <4>2, <4>3
      <4> QED
        BY <3>1, <4>4
    <3> QED
      BY <3>5, <3>6
  <2> HIDE DEF Q
  <2>11. \A k \in 0 .. n : k \in Q
    BY <1>1, <2>9, <2>10, UpTo
  <2>12. Holds(n)
    <3>1. n \in Q /\ n # 0
      BY <1>1, <1>3, <2>11
    <3> HIDE DEF Holds
    <3> QED
      BY <3>1 DEF Q
  <2>13. DOMAIN seqs = 1 .. n
    BY <1>1 DEF n
  <2> QED
    BY <2>1, <2>12, <2>13 DEF W
<1> QED
  BY <1>2, <1>3

---------------------------------------------------------------------------
(* The batches of a SELECT.                                                  *)

Batch == [node : Seq(STRING), count : Nat, rows : Nat, total : Nat, loadAll : BOOLEAN]

Mine(c)     == Among({b \in ToSet(batches) : b.node = c}, batches)
RowsOf(s)   == [i \in DOMAIN s |-> s[i].rows]
KeysRead(c) == {x.key : x \in {y \in read : y.node = c}}
Started     == {b.node : b \in ToSet(batches)} \cup {y.node : y \in read}
Width(c)    == Len(Plan(req, c).src)

\* Every batch of c says that there are m of them for n keys.
Says(c, m, n) ==
    \A i \in DOMAIN Mine(c) : /\ Mine(c)[i].count = m /\ Mine(c)[i].total = n
                              /\ ~Mine(c)[i].loadAll => Mine(c)[i].rows * Width(c) <= ParameterLimit

\* The batches of a collection that is done.
Done(c) ==
    Mine(c) # <<>> => /\ Says(c, Len(Mine(c)), Cardinality(KeysRead(c)))
                      /\ Sum(RowsOf(Mine(c))) = Cardinality(KeysRead(c))

\* The collection whose batches are being read: as many keys as its batches say
\* are read, and as many batches as the keys behind start make.
Reading ==
    LET c == run.node  n == Len(run.keys)  m == Len(Mine(c))  b == BatchSize(req, c)
    IN  /\ DOMAIN run = {"node", "parents", "keys", "start", "count"}
        /\ run.keys \in Seq(ToSet(run.keys)) /\ IsInjective(run.keys)
        /\ run.start \in 0 .. n
        /\ KeysRead(c) = {run.keys[i] : i \in 1 .. run.start}
        /\ Says(c, run.count, n) /\ Sum(RowsOf(Mine(c))) = run.start
        /\ LoadAll(req, c)  => run.count = 1 /\ m = (IF run.start = 0 THEN 0 ELSE 1) /\ run.start \in {0, n}
        /\ ~LoadAll(req, c) => /\ run.count = (n + b - 1) \div b
                               /\ run.start = IF m * b < n THEN m * b ELSE n
                               /\ m = 0 \/ (m - 1) * b < n

\* What is still to be executed was not started, and no task is above another.
Waiting ==
    /\ work \in Seq(ToSet(work))
    /\ \A i \in DOMAIN work : work[i].node \in ToSet(NodeList(req)) /\ work[i].node # <<>>
    /\ \A i, j \in DOMAIN work : i # j => ~IsPrefix(work[i].node, work[j].node)
    /\ \A i \in DOMAIN work : \A n \in Started :
          IsPrefix(work[i].node, n) => run # Idle /\ i = 1 /\ n = run.node

BatchesInv ==
    /\ phase \in {"select", "preload", "returned"} => req \in Requests /\ ~CompileFails(req)
    /\ phase = "compile" => req \in Requests
    /\ phase \in {"idle", "compile", "select"} => work = <<>> /\ run = Idle /\ batches = <<>> /\ read = {}
    /\ phase = "returned" => run = Idle
    /\ batches \in Seq(Batch) /\ \A y \in read : y.node \in Seq(STRING)
    /\ phase \in {"select", "preload", "returned"} => Waiting
    /\ run # Idle => work # <<>> /\ run.node = work[1].node /\ Reading
    /\ \A n \in ToSet(NodeList(req)) : (run # Idle /\ n = run.node) \/ Done(n)

Nodes == Seq(STRING)

\* A prefix agrees element by element.
LEMMA PrefixMeans ==
    ASSUME NEW s \in Nodes, NEW t \in Nodes
    PROVE  IsPrefix(s, t) <=> Len(s) <= Len(t) /\ \A i \in 1 .. Len(s) : s[i] = t[i]
<1> DEFINE n == Len(s)
<1>1. CASE Len(s) <= Len(t)
  <2>1. /\ SubSeq(s, 1, n) \in Nodes /\ Len(SubSeq(s, 1, n)) = n /\ \A i \in 1 .. n : SubSeq(s, 1, n)[i] = s[i]
        /\ SubSeq(t, 1, n) \in Nodes /\ Len(SubSeq(t, 1, n)) = n /\ \A i \in 1 .. n : SubSeq(t, 1, n)[i] = t[i]
    BY <1>1 DEF Nodes
  <2>2. SubSeq(s, 1, n) = SubSeq(t, 1, n) <=> \A i \in 1 .. n : s[i] = t[i]
    <3> DEFINE u == SubSeq(s, 1, n)
               v == SubSeq(t, 1, n)
    <3>1. u \in Nodes /\ v \in Nodes /\ Len(u) = n /\ Len(v) = n /\ \A i \in 1 .. n : u[i] = s[i] /\ v[i] = t[i]
      BY <2>1
    <3> HIDE DEF u, v, n
    <3>2. (\A i \in 1 .. n : u[i] = v[i]) => u = v
      BY <3>1 DEF Nodes
    <3>3. u = v <=> \A i \in 1 .. n : s[i] = t[i]
      BY <3>1, <3>2
    <3> QED
      BY <3>3 DEF u, v
  <2> QED
    BY <1>1, <2>2 DEF IsPrefix
<1>2. CASE ~(Len(s) <= Len(t))
  BY <1>2 DEF IsPrefix
<1> QED
  BY <1>1, <1>2

\* Each plan of a tree is listed once.
LEMMA NodesAreDistinct ==
    ASSUME NEW q \in Requests
    PROVE  /\ NodeList(q) \in Seq(Nodes) /\ IsInjective(NodeList(q))
           /\ \A p \in ToSet(q.paths) : \A n \in 1 .. Len(p) : SubSeq(p, 1, n) \in ToSet(NodeList(q))
<1> DEFINE prefixes(p) == [n \in 1 .. Len(p) |-> SubSeq(p, 1, n)]
           all == [i \in DOMAIN q.paths |-> prefixes(q.paths[i])]
<1>1. q.paths \in Seq(Nodes)
  BY RequestAssumption DEF Nodes
<1>2. ASSUME NEW p \in Nodes PROVE prefixes(p) \in Seq(Nodes)
  <2>1. Len(p) \in Nat /\ \A n \in 1 .. Len(p) : SubSeq(p, 1, n) \in Nodes
    BY DEF Nodes
  <2> QED
    BY <2>1
<1>3. all \in Seq(Seq(Nodes))
  <2>1. Len(q.paths) \in Nat /\ DOMAIN q.paths = 1 .. Len(q.paths) /\ \A i \in DOMAIN q.paths : q.paths[i] \in Nodes
    BY <1>1
  <2> HIDE DEF Nodes
  <2>2. \A i \in DOMAIN q.paths : prefixes(q.paths[i]) \in Seq(Nodes)
    BY <1>2, <2>1
  <2> HIDE DEF prefixes
  <2> QED
    BY <2>1, <2>2
<1>4. NodeList(q) = Distinct(FlattenSeq(all))
  BY Zenon DEF NodeList
<1>6. ASSUME NEW i \in DOMAIN q.paths, NEW n \in 1 .. Len(q.paths[i])
      PROVE  i \in DOMAIN all /\ SubSeq(q.paths[i], 1, n) \in ToSet(all[i])
  BY DEF ToSet
<1> HIDE DEF all, Nodes
<1>5. FlattenSeq(all) \in Seq(Nodes) /\ \A i \in DOMAIN all : ToSet(all[i]) \subseteq ToSet(FlattenSeq(all))
  BY <1>3, FlattenSteps
<1>7. NodeList(q) \in Seq(Nodes) /\ IsInjective(NodeList(q)) /\ ToSet(NodeList(q)) = ToSet(FlattenSeq(all))
  BY <1>4, <1>5, DistinctKeeps
<1>8. ASSUME NEW p \in ToSet(q.paths), NEW n \in 1 .. Len(p) PROVE SubSeq(p, 1, n) \in ToSet(NodeList(q))
  <2>1. PICK i \in DOMAIN q.paths : q.paths[i] = p
    BY DEF ToSet
  <2> QED
    BY <1>5, <1>6, <1>7, <2>1
<1> QED
  BY <1>7, <1>8

\* The children of a plan are one field longer.
LEMMA ChildrenAreBelow ==
    ASSUME NEW q \in Requests, NEW p
    PROVE  /\ Children(q, p) \in Seq(Nodes) /\ IsInjective(Children(q, p))
           /\ \A i \in DOMAIN Children(q, p) :
                 LET c == Children(q, p)[i]
                 IN  c \in Nodes /\ c \in ToSet(NodeList(q)) /\ Len(c) = Len(p) + 1 /\ IsPrefix(p, c)
<1> DEFINE S == {n \in ToSet(NodeList(q)) : Len(n) = Len(p) + 1 /\ IsPrefix(p, n)}
<1>1. NodeList(q) \in Seq(Nodes) /\ IsInjective(NodeList(q))
  BY NodesAreDistinct
<1>2. Children(q, p) = Among(S, NodeList(q))
  BY DEF Children
<1> HIDE DEF S, Nodes
<1>3. Children(q, p) \in Seq(Nodes) /\ ToSet(Children(q, p)) = S \cap ToSet(NodeList(q)) /\ IsInjective(Children(q, p))
  BY <1>1, <1>2, AmongKeeps
<1>4. \A i \in DOMAIN Children(q, p) : Children(q, p)[i] \in ToSet(Children(q, p)) /\ Children(q, p)[i] \in Nodes
  BY <1>3 DEF ToSet
<1> QED
  BY <1>3, <1>4 DEF S

\* A task for every child of p, or none.
LEMMA TasksAreChildren ==
    ASSUME NEW q \in Requests, NEW p, NEW parents
    PROVE  LET t == Tasks(q, p, parents)
           IN  /\ t \in Seq(ToSet(t))
               /\ \A i \in DOMAIN t : /\ t[i].node \in Nodes /\ t[i].node \in ToSet(NodeList(q))
                                      /\ Len(t[i].node) = Len(p) + 1 /\ IsPrefix(p, t[i].node)
               /\ \A i, j \in DOMAIN t : i # j => t[i].node # t[j].node
<1> DEFINE t == Tasks(q, p, parents)
           cs == Children(q, p)
<1>1. CASE parents = <<>>
  <2>1. t = <<>>
    BY <1>1 DEF Tasks
  <2>2. DOMAIN <<>> = {} /\ <<>> \in Seq(ToSet(<<>>))
    OBVIOUS
  <2> QED
    BY <2>1, <2>2
<1>2. CASE parents # <<>>
  <2>1. t = [i \in DOMAIN cs |-> [node |-> cs[i], parents |-> parents]]
    BY <1>2 DEF Tasks
  <2>2. cs \in Seq(Nodes) /\ IsInjective(cs)
        /\ \A i \in DOMAIN cs : /\ cs[i] \in Nodes /\ cs[i] \in ToSet(NodeList(q))
                                /\ Len(cs[i]) = Len(p) + 1 /\ IsPrefix(p, cs[i])
    BY ChildrenAreBelow
  <2> HIDE DEF t, cs, Nodes
  <2>3. DOMAIN t = DOMAIN cs /\ \A i \in DOMAIN t : t[i].node = cs[i]
    BY <2>1
  <2>4. DOMAIN cs = 1 .. Len(cs) /\ Len(cs) \in Nat
    BY <2>2
  <2>5. t \in Seq(ToSet(t))
    <3>1. \A i \in 1 .. Len(cs) : t[i] \in ToSet(t)
      BY <2>3, <2>4 DEF ToSet
    <3>2. t = [i \in 1 .. Len(cs) |-> t[i]]
      BY <2>1, <2>4
    <3> DEFINE V == ToSet(t)
    <3> HIDE DEF V
    <3>3. \A i \in 1 .. Len(cs) : t[i] \in V
      BY <3>1 DEF V
    <3>4. t \in Seq(V)
      BY <2>4, <3>2, <3>3
    <3> QED
      BY <3>4 DEF V
  <2>6. \A i, j \in DOMAIN t : i # j => t[i].node # t[j].node
    BY <2>2, <2>3 DEF IsInjective
  <2> QED
    BY <2>2, <2>3, <2>5, <2>6 DEF t
<1> QED
  BY <1>1, <1>2

\* What the integer quotient leaves.
LEMMA Division ==
    ASSUME NEW a \in Nat, NEW b \in Nat \ {0}
    PROVE  a \div b \in Nat /\ (a \div b) * b <= a /\ a < (a \div b) * b + b
  BY Z3

\* Division that rounds up.
LEMMA CeilingIs ==
    ASSUME NEW n \in Nat, NEW b \in Nat \ {0}, NEW m \in Nat \ {0}, (m - 1) * b < n, n <= m * b
    PROVE  (n + b - 1) \div b = m
<1> DEFINE x == n + b - 1
           q == x \div b
<1>1. x \in Nat /\ m - 1 \in Nat /\ m * b \in Nat /\ (m - 1) * b \in Nat
  OBVIOUS
<1>2. (m - 1) * b = m * b - b
  OBVIOUS
<1>3. m * b <= x /\ x < m * b + b
  BY <1>1, <1>2
<1>4. q \in Nat /\ q * b <= x /\ x < q * b + b
  <2> HIDE DEF x
  <2> QED
    BY <1>1, Division
<1> HIDE DEF x, q
<1>5. \A i, j \in Nat : i < j => i * b + b <= j * b
  <2> SUFFICES ASSUME NEW i \in Nat, NEW j \in Nat, i < j PROVE i * b + b <= j * b
    OBVIOUS
  <2>1. j - i - 1 \in Nat /\ (j - i - 1) * b \in Nat
    OBVIOUS
  <2>2. (j - i - 1) * b = j * b - i * b - b
    OBVIOUS
  <2>3. i * b \in Nat /\ j * b \in Nat
    OBVIOUS
  <2> QED
    BY <2>1, <2>2, <2>3
<1>6. ~(q < m)
  <2>1. q < m => q * b + b <= m * b
    BY <1>4, <1>5
  <2>2. q * b \in Nat
    BY <1>4
  <2> QED
    BY <1>1, <1>3, <1>4, <2>1, <2>2
<1>7. ~(m < q)
  <2>1. m < q => m * b + b <= q * b
    BY <1>4, <1>5
  <2>2. q * b \in Nat
    BY <1>4
  <2> QED
    BY <1>1, <1>3, <1>4, <2>1, <2>2
<1>8. q = m
  BY <1>4, <1>6, <1>7
<1> QED
  BY <1>8 DEF q, x

\* A batch has room for at least one key, and the keys of a batch are within the limit.
LEMMA BatchFits ==
    ASSUME NEW q \in Requests, ~CompileFails(q), NEW c \in ToSet(NodeList(q))
    PROVE  /\ BatchSize(q, c) \in Nat \ {0}
           /\ \A n \in 0 .. BatchSize(q, c) : n * Len(Plan(q, c).src) <= ParameterLimit
<1> DEFINE w == Len(Plan(q, c).src)
           least == IF KeyBudget < ParameterLimit THEN KeyBudget ELSE ParameterLimit
           b == IF least \div w = 0 THEN 1 ELSE least \div w
<1>1. w \in 1 .. ParameterLimit /\ ParameterLimit \in Nat \ {0} /\ KeyBudget \in Nat \ {0}
  BY KeyWidthAssumption, RequestAssumption, RelationMutationsAssumption
<1>2. BatchSize(q, c) = b
  BY Zenon DEF BatchSize
<1> HIDE DEF w
<1>3. least \in Nat \ {0} /\ least <= ParameterLimit
  BY <1>1
<1> HIDE DEF least
<1>4. least \div w \in Nat /\ (least \div w) * w <= least
  BY <1>1, <1>3, Division
<1>5. b \in Nat \ {0}
  BY <1>4
<1>6. b * w <= ParameterLimit
  <2> DEFINE d == least \div w
  <2>1. d \in Nat /\ d * w <= least /\ b = IF d = 0 THEN 1 ELSE d
    BY <1>4
  <2> HIDE DEF d, b
  <2>2. CASE d = 0
    BY <1>1, <2>1, <2>2
  <2>3. CASE d # 0
    <3>1. b = d /\ d * w \in Nat
      BY <1>1, <2>1, <2>3
    <3> QED
      BY <1>1, <1>3, <2>1, <3>1
  <2> QED
    BY <2>2, <2>3
<1> HIDE DEF b
<1>7. ASSUME NEW n \in 0 .. b PROVE n * w <= ParameterLimit
  <2>1. n \in Nat /\ b - n \in Nat /\ w \in Nat
    BY <1>1, <1>5
  <2>2. (b - n) * w \in Nat /\ n * w \in Nat /\ b * w \in Nat /\ (b - n) * w = b * w - n * w
    BY <1>5, <2>1
  <2> QED
    BY <1>1, <1>6, <2>2
<1> QED
  BY <1>2, <1>5, <1>7 DEF w

\* What the batches of c become with one more batch.
LEMMA MineAfter ==
    ASSUME batches \in Seq(Batch), NEW b \in Batch, batches' = Append(batches, b), NEW c
    PROVE  /\ Mine(c) \in Seq(Batch)
           /\ Mine(c)' = IF b.node = c THEN Append(Mine(c), b) ELSE Mine(c)
<1> DEFINE S == {x \in ToSet(batches) : x.node = c}
           T == {x \in ToSet(Append(batches, b)) : x.node = c}
<1>1. ToSet(Append(batches, b)) = ToSet(batches) \cup {b}
  <2> DEFINE t == Append(batches, b)
             n == Len(batches)
  <2>1. n \in Nat /\ DOMAIN batches = 1 .. n /\ DOMAIN t = 1 .. n + 1 /\ t[n + 1] = b
        /\ \A i \in 1 .. n : t[i] = batches[i]
    BY DEF Batch
  <2> HIDE DEF t, n
  <2>2. \A i \in DOMAIN t : i \in DOMAIN batches \/ i = n + 1
    BY <2>1
  <2>3. DOMAIN batches \subseteq DOMAIN t /\ n + 1 \in DOMAIN t
    BY <2>1
  <2>4. ToSet(t) = ToSet(batches) \cup {b}
    BY <2>1, <2>2, <2>3 DEF ToSet
  <2> QED
    BY <2>4 DEF t
<1>2. S \cap ToSet(batches) = T \cap ToSet(batches) /\ (b \in T <=> b.node = c)
  BY <1>1
<1>3. Mine(c) = Among(S, batches)
  BY DEF Mine
<1>4. Mine(c)' = Among(T, Append(batches, b))
  BY DEF Mine
<1> HIDE DEF S, T, Batch
<1>5. Among(S, batches) \in Seq(Batch) /\ Among(T, Append(batches, b)) = OneMore(T, Among(S, batches), b)
  BY <1>2, AmongAppend
<1> QED
  BY <1>2, <1>3, <1>4, <1>5 DEF OneMore

\* A collection no batch names has none.
LEMMA MineIsNone ==
    ASSUME batches \in Seq(Batch), NEW c, c \notin {b.node : b \in ToSet(batches)}
    PROVE  Mine(c) = <<>>
<1> DEFINE S == {x \in ToSet(batches) : x.node = c}
<1>1. S = {}
  OBVIOUS
<1>2. Mine(c) = Among(S, batches)
  BY DEF Mine
<1> HIDE DEF S, Batch
<1>3. Among(S, batches) \in Seq(Batch) /\ ToSet(Among(S, batches)) = {}
  BY <1>1, AmongKeeps
<1> QED
  BY <1>2, <1>3 DEF ToSet

\* One more batch adds its keys.
LEMMA RowsAdded ==
    ASSUME NEW s \in Seq(Batch), NEW b \in Batch
    PROVE  Sum(RowsOf(s)) \in Nat /\ Sum(RowsOf(Append(s, b))) = Sum(RowsOf(s)) + b.rows
<1>1. RowsOf(s) \in Seq(Nat) /\ b.rows \in Nat
  <2>1. Len(s) \in Nat /\ DOMAIN s = 1 .. Len(s) /\ \A i \in 1 .. Len(s) : s[i] \in Batch
    OBVIOUS
  <2>2. \A x \in Batch : x.rows \in Nat
    BY DEF Batch
  <2>3. RowsOf(s) = [i \in 1 .. Len(s) |-> s[i].rows]
    BY <2>1 DEF RowsOf
  <2> QED
    BY <2>1, <2>2, <2>3
<1>2. RowsOf(Append(s, b)) = Append(RowsOf(s), b.rows)
  <2> DEFINE t == Append(s, b)
             n == Len(s)
  <2>1. n \in Nat /\ DOMAIN s = 1 .. n /\ DOMAIN t = 1 .. n + 1 /\ t[n + 1] = b
        /\ \A i \in 1 .. n : t[i] = s[i]
    OBVIOUS
  <2>2. RowsOf(s) = [i \in 1 .. n |-> s[i].rows] /\ Len(RowsOf(s)) = n
    BY <2>1 DEF RowsOf
  <2>3. RowsOf(t) = [i \in 1 .. n + 1 |-> t[i].rows]
    BY <2>1 DEF RowsOf
  <2> HIDE DEF t, n
  <2> DEFINE u == Append(RowsOf(s), b.rows)
  <2>4. u \in Seq(Nat) /\ Len(u) = n + 1 /\ u[n + 1] = b.rows /\ \A i \in 1 .. n : u[i] = s[i].rows
    BY <1>1, <2>1, <2>2
  <2>5. u = [i \in 1 .. n + 1 |-> u[i]]
    BY <2>1, <2>4
  <2> HIDE DEF u
  <2>6. \A i \in 1 .. n + 1 : t[i].rows = u[i]
    <3>1. \A i \in 1 .. n + 1 : i \in 1 .. n \/ i = n + 1
      BY <2>1
    <3> QED
      BY <2>1, <2>4, <3>1
  <2>7. RowsOf(t) = u
    BY <2>3, <2>5, <2>6
  <2> QED
    BY <2>7 DEF t, u
<1> QED
  BY <1>1, <1>2, SumOfAppend

\* Nothing about the batches changes with the rest.
LEMMA BatchesStay ==
    ASSUME req' = req, read' = read, batches' = batches
    PROVE  /\ Started' = Started
           /\ \A c : Mine(c)' = Mine(c) /\ KeysRead(c)' = KeysRead(c) /\ Done(c)' = Done(c)
           /\ run' = run => Reading' = Reading
<1>1. Started' = Started
  BY DEF Started
<1>2. ASSUME NEW c PROVE Mine(c)' = Mine(c) /\ KeysRead(c)' = KeysRead(c)
  BY DEF Mine, KeysRead
<1>3. ASSUME NEW c, NEW m, NEW n PROVE Says(c, m, n)' = Says(c, m, n)
  BY <1>2 DEF Says, Width
<1>4. ASSUME NEW c PROVE Done(c)' = Done(c)
  BY <1>2, <1>3 DEF Done, Says, Width
<1>5. ASSUME run' = run PROVE Reading' = Reading
  BY <1>2, <1>3, <1>5 DEF Reading, Says, Width
<1> QED
  BY <1>1, <1>2, <1>4, <1>5

\* The keys read of a collection are counted.
LEMMA KeysCounted ==
    ASSUME NEW s, s \in Seq(ToSet(s)), IsInjective(s)
    PROVE  Cardinality({s[i] : i \in 1 .. Len(s)}) = Len(s)
<1> DEFINE n == Len(s)
           K == {s[i] : i \in 1 .. n}
<1>1. n \in Nat /\ DOMAIN s = 1 .. n /\ s = [i \in 1 .. n |-> s[i]]
  <2> DEFINE V == ToSet(s)
  <2> HIDE DEF V
  <2>1. s \in Seq(V)
    BY DEF V
  <2> QED
    BY <2>1
<1>2. s \in [1 .. n -> K] /\ \A x \in K : \E i \in 1 .. n : s[i] = x
  BY <1>1
<1>3. s \in Surjection(1 .. n, K) /\ s \in Injection(1 .. n, K)
  BY <1>1, <1>2 DEF Surjection, Injection, IsInjective
<1>4. IsFiniteSet(1 .. n) /\ Cardinality(1 .. n) = n
  <2>1. 1 \in Int /\ n \in Int /\ (1 > n => n = 0) /\ n - 1 + 1 = n
    BY <1>1
  <2> QED
    BY <2>1, FS_Interval
<1> HIDE DEF K, n
<1>5. Cardinality(K) = Cardinality(1 .. n)
  BY <1>3, <1>4, FS_Surjection
<1> QED
  BY <1>4, <1>5 DEF K, n

\* A sequence over some set is one over its own elements.
LEMMA SeqOfItself ==
    ASSUME NEW V, NEW s \in Seq(V)
    PROVE  s \in Seq(ToSet(s)) /\ ToSet(s) \subseteq V
<1>1. /\ Len(s) \in Nat /\ DOMAIN s = 1 .. Len(s) /\ s = [i \in 1 .. Len(s) |-> s[i]]
      /\ \A i \in 1 .. Len(s) : s[i] \in V
  OBVIOUS
<1>2. \A i \in 1 .. Len(s) : s[i] \in ToSet(s)
  BY <1>1 DEF ToSet
<1> DEFINE W == ToSet(s)
<1>3. W \subseteq V
  BY <1>1 DEF ToSet
<1> HIDE DEF W
<1>4. s \in Seq(W)
  <2>1. \A i \in 1 .. Len(s) : s[i] \in W
    BY <1>2 DEF W
  <2> QED
    BY <1>1, <2>1
<1> QED
  BY <1>3, <1>4 DEF W

\* A plan of the tree is a path of fields.
LEMMA NodeInList ==
    ASSUME NEW q \in Requests, NEW n \in ToSet(NodeList(q))
    PROVE  n \in Nodes
<1>1. NodeList(q) \in Seq(Nodes)
  BY NodesAreDistinct
<1> HIDE DEF Nodes
<1>2. ToSet(NodeList(q)) \subseteq Nodes
  BY <1>1, SeqOfItself
<1> QED
  BY <1>2

\* Nodes of one length are not above one another, and a node is not above those
\* that its descendants are not above.
LEMMA PrefixFacts ==
    ASSUME NEW s \in Nodes, NEW t \in Nodes, NEW p \in Nodes
    PROVE  /\ IsPrefix(s, s)
           /\ Len(s) = Len(t) /\ IsPrefix(s, t) => s = t
           /\ IsPrefix(p, s) /\ IsPrefix(s, t) => IsPrefix(p, t)
           /\ IsPrefix(p, s) /\ IsPrefix(t, s) /\ Len(t) <= Len(p) => IsPrefix(t, p)
<1>1. /\ IsPrefix(s, s) <=> Len(s) <= Len(s) /\ \A i \in 1 .. Len(s) : s[i] = s[i]
      /\ IsPrefix(s, t) <=> Len(s) <= Len(t) /\ \A i \in 1 .. Len(s) : s[i] = t[i]
      /\ IsPrefix(p, s) <=> Len(p) <= Len(s) /\ \A i \in 1 .. Len(p) : p[i] = s[i]
      /\ IsPrefix(p, t) <=> Len(p) <= Len(t) /\ \A i \in 1 .. Len(p) : p[i] = t[i]
      /\ IsPrefix(t, s) <=> Len(t) <= Len(s) /\ \A i \in 1 .. Len(t) : t[i] = s[i]
      /\ IsPrefix(t, p) <=> Len(t) <= Len(p) /\ \A i \in 1 .. Len(t) : t[i] = p[i]
  BY PrefixMeans
<1>2. Len(s) \in Nat /\ Len(t) \in Nat /\ Len(p) \in Nat
  BY DEF Nodes
<1>3. Len(s) = Len(t) /\ (\A i \in 1 .. Len(s) : s[i] = t[i]) => s = t
  BY DEF Nodes
<1> QED
  BY <1>1, <1>2, <1>3

\* No task of a parent is above another one.
LEMMA TasksApart ==
    ASSUME NEW q \in Requests, NEW p, NEW parents,
           NEW i \in DOMAIN Tasks(q, p, parents), NEW j \in DOMAIN Tasks(q, p, parents), i # j
    PROVE  ~IsPrefix(Tasks(q, p, parents)[i].node, Tasks(q, p, parents)[j].node)
<1> DEFINE t == Tasks(q, p, parents)
<1>1. t[i].node \in Nodes /\ t[j].node \in Nodes /\ Len(t[i].node) = Len(t[j].node) /\ t[i].node # t[j].node
  BY TasksAreChildren
<1> HIDE DEF t
<1>2. ~IsPrefix(t[i].node, t[j].node)
  BY <1>1, PrefixFacts
<1> QED
  BY <1>2 DEF t

\* Two sequences, one after the other.
LEMMA JoinedSequences ==
    ASSUME NEW V, NEW s \in Seq(V), NEW t \in Seq(V)
    PROVE  /\ s \o t \in Seq(V) /\ Len(s \o t) = Len(s) + Len(t)
           /\ \A i \in 1 .. Len(s) : (s \o t)[i] = s[i]
           /\ \A i \in Len(s) + 1 .. Len(s) + Len(t) : (s \o t)[i] = t[i - Len(s)]
OBVIOUS

\* The plans below the head of the work take its place.
LEMMA WaitingBelow ==
    ASSUME Waiting, req \in Requests, work # <<>>, NEW parents,
           req' = req, Started' = Started, run' = Idle,
           work' = Tasks(req, Head(work).node, parents) \o Tail(work),
           run # Idle => run.node = Head(work).node,
           Started \subseteq Nodes
    PROVE  Waiting'
<1> DEFINE p == Head(work).node
           t == Tasks(req, p, parents)
           w == t \o Tail(work)
           V == ToSet(t) \cup ToSet(work)
           m == Len(t)
           n == Len(work)
<1>1. /\ work \in Seq(ToSet(work))
      /\ \A i \in DOMAIN work : work[i].node \in ToSet(NodeList(req)) /\ work[i].node # <<>>
      /\ \A i, j \in DOMAIN work : i # j => ~IsPrefix(work[i].node, work[j].node)
      /\ \A i \in DOMAIN work : \A x \in Started : IsPrefix(work[i].node, x) => run # Idle /\ i = 1 /\ x = run.node
  BY DEF Waiting
<1>2. /\ t \in Seq(ToSet(t))
      /\ \A i \in DOMAIN t : /\ t[i].node \in Nodes /\ t[i].node \in ToSet(NodeList(req))
                             /\ Len(t[i].node) = Len(p) + 1 /\ IsPrefix(p, t[i].node)
  BY TasksAreChildren
<1>3. \A i, j \in DOMAIN t : i # j => ~IsPrefix(t[i].node, t[j].node)
  BY TasksApart
<1>4. t \in Seq(V) /\ work \in Seq(V)
  <2> DEFINE A == ToSet(t)
             B == ToSet(work)
  <2> HIDE DEF A, B, t
  <2>1. t \in Seq(A) /\ work \in Seq(B)
    BY <1>1, <1>2 DEF A, B
  <2>2. t \in Seq(A \cup B) /\ work \in Seq(A \cup B)
    BY <2>1
  <2> QED
    BY <2>2 DEF A, B
<1> HIDE DEF t, V
<1>5. /\ m \in Nat /\ n \in Nat \ {0} /\ DOMAIN t = 1 .. m /\ DOMAIN work = 1 .. n /\ p = work[1].node
      /\ w \in Seq(V) /\ Len(w) = m + n - 1 /\ DOMAIN w = 1 .. m + n - 1
      /\ \A i \in 1 .. m : w[i] = t[i]
      /\ \A i \in m + 1 .. m + n - 1 : w[i] = work[i - m + 1]
  <2>1. n \in Nat \ {0} /\ m \in Nat /\ DOMAIN t = 1 .. m /\ DOMAIN work = 1 .. n /\ p = work[1].node
    BY <1>4
  <2> DEFINE u == Tail(work)
  <2>2. u \in Seq(V) /\ Len(u) = n - 1 /\ \A i \in 1 .. n - 1 : u[i] = work[i + 1]
    BY <1>4, <2>1
  <2> HIDE DEF u
  <2> DEFINE k == n - 1
  <2>7. k \in Nat /\ m + n - 1 = m + k /\ Len(u) = k
    BY <2>1, <2>2
  <2>8. m = Len(t) /\ t \in Seq(V)
    BY <1>4
  <2> HIDE DEF k, m
  <2>9. t \o u \in Seq(V) /\ Len(t \o u) = m + k /\ (\A i \in 1 .. m : (t \o u)[i] = t[i])
        /\ \A i \in m + 1 .. m + k : (t \o u)[i] = u[i - m]
    BY <2>2, <2>7, <2>8, JoinedSequences
  <2>3. t \o u \in Seq(V) /\ Len(t \o u) = m + n - 1 /\ (\A i \in 1 .. m : (t \o u)[i] = t[i])
        /\ \A i \in m + 1 .. m + n - 1 : (t \o u)[i] = u[i - m]
    BY <2>7, <2>9
  <2>4. \A i \in m + 1 .. m + n - 1 : i - m \in 1 .. n - 1 /\ (i - m) + 1 = i - m + 1
    BY <2>1
  <2>5. DOMAIN (t \o u) = 1 .. m + n - 1
    BY <2>3
  <2> QED
    BY <2>1, <2>2, <2>3, <2>4, <2>5 DEF u
<1>6. work' = w
  BY DEF t
<1>14. run # Idle => run.node = p
  OBVIOUS
<1> HIDE DEF w, m, n, p
<1>7. p \in Nodes /\ Len(p) \in Nat /\ \A i \in DOMAIN work : work[i].node \in Nodes
  <2>1. \A i \in DOMAIN work : work[i].node \in Nodes
    BY <1>1, NodeInList
  <2>2. p \in Nodes
    <3>1. 1 \in DOMAIN work /\ p = work[1].node
      BY <1>5
    <3> QED
      BY <2>1, <3>1
  <2> QED
    BY <2>1, <2>2 DEF Nodes
<1>8. \A i \in DOMAIN w : \/ i \in DOMAIN t /\ w[i] = t[i]
                          \/ i - m + 1 \in DOMAIN work /\ i - m + 1 # 1 /\ w[i] = work[i - m + 1] /\ i \notin DOMAIN t
  BY <1>5
<1>9. ASSUME NEW i \in DOMAIN t, NEW k \in DOMAIN work, k # 1
      PROVE  ~IsPrefix(t[i].node, work[k].node) /\ ~IsPrefix(work[k].node, t[i].node)
  <2>1. t[i].node \in Nodes /\ work[k].node \in Nodes /\ Len(t[i].node) = Len(p) + 1 /\ IsPrefix(p, t[i].node)
    BY <1>2, <1>7
  <2>2. 1 \in DOMAIN work /\ ~IsPrefix(p, work[k].node) /\ ~IsPrefix(work[k].node, p)
    <3>1. 1 \in DOMAIN work /\ p = work[1].node
      BY <1>5
    <3> QED
      BY <1>1, <1>9, <3>1
  <2>3. ~IsPrefix(t[i].node, work[k].node)
    BY <1>7, <2>1, <2>2, PrefixFacts
  <2>4. ASSUME IsPrefix(work[k].node, t[i].node) PROVE FALSE
    <3>1. Len(work[k].node) \in Nat /\ Len(t[i].node) \in Nat /\ Len(work[k].node) <= Len(t[i].node)
      BY <2>1, <2>4, PrefixMeans DEF Nodes
    <3>2. CASE Len(work[k].node) <= Len(p)
      BY <1>7, <2>1, <2>2, <2>4, <3>2, PrefixFacts
    <3>3. CASE Len(work[k].node) = Len(t[i].node)
      <4> DEFINE x == work[k].node
                 y == t[i].node
      <4>2. x \in Nodes /\ y \in Nodes /\ Len(x) = Len(y) /\ IsPrefix(x, y)
        BY <2>1, <2>4, <3>3
      <4> HIDE DEF x, y, Nodes
      <4>3. x = y
        BY <4>2, PrefixFacts
      <4>1. work[k].node = t[i].node
        BY <4>3 DEF x, y
      <4> QED
        BY <2>1, <2>2, <4>1
    <3> QED
      BY <1>7, <2>1, <3>1, <3>2, <3>3
  <2> QED
    BY <2>3, <2>4
<1>10. w \in Seq(ToSet(w))
  BY <1>5, SeqOfItself
<1>11. \A i \in DOMAIN w : w[i].node \in ToSet(NodeList(req)) /\ w[i].node # <<>>
  <2>1. \A i \in DOMAIN t : t[i].node # <<>>
    <3>1. Len(<<>>) = 0
      OBVIOUS
    <3> QED
      BY <1>2, <1>7, <3>1
  <2> QED
    BY <1>1, <1>2, <1>8, <2>1
<1>12. ASSUME NEW i \in DOMAIN w, NEW j \in DOMAIN w, i # j
       PROVE  ~IsPrefix(w[i].node, w[j].node)
  <2>1. i - m + 1 # j - m + 1
    BY <1>5, <1>12
  <2> QED
    BY <1>1, <1>3, <1>8, <1>9, <1>12, <2>1
<1>13. ASSUME NEW i \in DOMAIN w, NEW x \in Started, IsPrefix(w[i].node, x)
       PROVE  FALSE
  <2>1. CASE i \in DOMAIN t /\ w[i] = t[i]
    <3>1. x \in Nodes /\ t[i].node \in Nodes /\ Len(t[i].node) = Len(p) + 1 /\ IsPrefix(p, t[i].node)
      BY <1>2, <2>1
    <3>2. IsPrefix(p, x)
      BY <1>7, <1>13, <2>1, <3>1, PrefixFacts
    <3>3. x = p
      <4>1. 1 \in DOMAIN work /\ p = work[1].node
        BY <1>5
      <4> QED
        BY <1>1, <1>14, <3>2, <4>1
    <3>4. Len(t[i].node) <= Len(p)
      BY <1>13, <2>1, <3>1, <3>3, PrefixMeans
    <3> QED
      BY <1>7, <3>1, <3>4
  <2>2. CASE i - m + 1 \in DOMAIN work /\ i - m + 1 # 1 /\ w[i] = work[i - m + 1]
    BY <1>1, <1>13, <2>2
  <2> QED
    BY <1>8, <2>1, <2>2
<1> QED
  BY <1>6, <1>10, <1>11, <1>12, <1>13 DEF Waiting

---------------------------------------------------------------------------
(* The heap.                                                                 *)

\* The objects of node p, and those with a field for its relation c.
Of(q, h, p) == {o \in DOMAIN h : DOMAIN h[o].rel = ToSet(Children(q, p))}
Above(h, c) == {o \in DOMAIN h : c \in DOMAIN h[o].rel}

\* A relation field refers to objects of its own node.
WellFormed(q, h) ==
    /\ h \in Seq(ToSet(h))
    /\ \A o \in DOMAIN h : /\ DOMAIN h[o] = {"row", "of", "rel"}
                           /\ \A c \in DOMAIN h[o].rel : h[o].rel[c] \in Seq(Of(q, h, c))

\* Objects are added, and none loses its row or a field.
Grows(h, g) ==
    /\ DOMAIN h \subseteq DOMAIN g
    /\ \A o \in DOMAIN h : DOMAIN g[o].rel = DOMAIN h[o].rel /\ g[o].row = h[o].row /\ g[o].of = h[o].of

\* A scan puts new objects on a heap, the one of row v last; a field of theirs
\* refers to one object or to none.
Scanned(h, g, v) ==
    /\ \A o \in DOMAIN h : g[o] = h[o]
    /\ \A o \in DOMAIN g : o \in DOMAIN h \/ \A x \in DOMAIN g[o].rel : Len(g[o].rel[x]) <= 1
    /\ g[Len(g)].of = v /\ Len(g) \notin DOMAIN h

\* A field refers to one object at most.
Lone(h) == \A o \in DOMAIN h : \A x \in DOMAIN h[o].rel : Len(h[o].rel[x]) <= 1

\* What a heap had, a grown one has.
LEMMA GrowsFacts ==
    ASSUME NEW q, NEW h, NEW g, Grows(h, g)
    PROVE  /\ \A p : Of(q, h, p) \subseteq Of(q, g, p) /\ Seq(Of(q, h, p)) \subseteq Seq(Of(q, g, p))
           /\ \A c : Above(h, c) \subseteq Above(g, c) /\ Seq(Above(h, c)) \subseteq Seq(Above(g, c))
<1>1. ASSUME NEW A, NEW B, A \subseteq B PROVE Seq(A) \subseteq Seq(B)
  BY <1>1
<1>2. ASSUME NEW p PROVE Of(q, h, p) \subseteq Of(q, g, p)
  BY DEF Of, Grows
<1>3. ASSUME NEW c PROVE Above(h, c) \subseteq Above(g, c)
  BY DEF Above, Grows
<1> QED
  BY <1>1, <1>2, <1>3

\* A heap grows on.
LEMMA GrowsOn ==
    ASSUME NEW h, NEW g, NEW f, Grows(h, g), Grows(g, f)
    PROVE  Grows(h, f)
BY DEF Grows

\* An object of a plan has a field for each of its children.
LEMMA OfIsAbove ==
    ASSUME NEW q, NEW h, NEW p, NEW c \in ToSet(Children(q, p))
    PROVE  Seq(Of(q, h, p)) \subseteq Seq(Above(h, c))
<1>1. Of(q, h, p) \subseteq Above(h, c)
  BY DEF Of, Above
<1> DEFINE A == Of(q, h, p)
           B == Above(h, c)
<1> HIDE DEF A, B
<1>2. A \subseteq B
  BY <1>1 DEF A, B
<1>3. Seq(A) \subseteq Seq(B)
  BY <1>2
<1> QED
  BY <1>3 DEF A, B

\* A scanned row: objects for it and for what was joined to it, itself the last.
LEMMA HydrateAdds ==
    ASSUME NEW q \in Requests, NEW h, WellFormed(q, h), NEW p \in Nodes, NEW tree
    PROVE  /\ WellFormed(q, Hydrate(h, q, p, tree)) /\ Grows(h, Hydrate(h, q, p, tree))
           /\ Len(Hydrate(h, q, p, tree)) \in Of(q, Hydrate(h, q, p, tree), p)
           /\ Scanned(h, Hydrate(h, q, p, tree), tree[p])
<1> DEFINE present == Append(Among({n \in DOMAIN tree : tree[n] # NoRow}, Joined(q, p)), p)
           place(c) == Len(h) + CHOOSE i \in DOMAIN present : present[i] = c
           object(n) == [row |-> Fields(q, n, tree[n]), of |-> tree[n],
                         rel |-> [c \in ToSet(Children(q, n)) |->
                                     IF c \in ToSet(present) THEN <<place(c)>> ELSE <<>>]]
           new == [i \in DOMAIN present |-> object(present[i])]
           m == Len(h)
           n == Len(present)
           g == h \o new
<1>1. Hydrate(h, q, p, tree) = g
  BY Zenon DEF Hydrate
<1>2. present \in Seq(Nodes) /\ n \in Nat \ {0} /\ DOMAIN present = 1 .. n /\ present[n] = p
  <2>1. NodeList(q) \in Seq(Nodes)
    BY NodesAreDistinct
  <2> DEFINE S == {x \in ToSet(NodeList(q)) : /\ Len(x) > Len(p) /\ IsPrefix(p, x)
                                              /\ \A k \in Len(p) + 1 .. Len(x) : Inline(q, SubSeq(x, 1, k))}
             R == {x \in DOMAIN tree : tree[x] # NoRow}
  <2>2. Joined(q, p) = Among(S, NodeList(q))
    BY Zenon DEF Joined
  <2> HIDE DEF S, R, Nodes
  <2>3. Joined(q, p) \in Seq(Nodes)
    BY <2>1, <2>2, AmongKeeps
  <2>4. Among(R, Joined(q, p)) \in Seq(Nodes)
    BY <2>3, AmongKeeps
  <2> DEFINE a == Among(R, Joined(q, p))
  <2>5. present = Append(a, p)
    BY DEF R
  <2> HIDE DEF a, present
  <2>6. a \in Seq(Nodes)
    BY <2>4 DEF a
  <2> QED
    BY <2>5, <2>6
<1> HIDE DEF present
<1>3. h \in Seq(ToSet(h)) /\ m \in Nat /\ DOMAIN h = 1 .. m
  BY DEF WellFormed
<1>4. new = [i \in 1 .. n |-> object(present[i])]
  BY <1>2
<1> HIDE DEF object
<1>5. new \in Seq(ToSet(new)) /\ Len(new) = n
  <2>1. \A i \in 1 .. n : new[i] \in ToSet(new)
    BY <1>2, <1>4 DEF ToSet
  <2>2. new = [i \in 1 .. n |-> new[i]]
    BY <1>4
  <2> DEFINE V == ToSet(new)
  <2> HIDE DEF V, new, n
  <2>3. \A i \in 1 .. n : new[i] \in V
    BY <2>1 DEF V
  <2>4. new \in Seq(V) /\ Len(new) = n
    BY <1>2, <2>2, <2>3
  <2> QED
    BY <2>4 DEF V
<1> DEFINE V == ToSet(h) \cup ToSet(new)
<1>6. g \in Seq(V) /\ Len(g) = m + n /\ (\A i \in 1 .. m : g[i] = h[i])
      /\ \A i \in m + 1 .. m + n : g[i] = new[i - m]
  <2>1. h \in Seq(V) /\ new \in Seq(V)
    <3> DEFINE A == ToSet(h)
               B == ToSet(new)
    <3> HIDE DEF A, B, new
    <3>1. h \in Seq(A) /\ new \in Seq(B)
      BY <1>3, <1>5 DEF A, B
    <3>2. h \in Seq(A \cup B) /\ new \in Seq(A \cup B)
      BY <3>1
    <3> QED
      BY <3>2 DEF A, B
  <2> HIDE DEF V, new, n
  <2> QED
    BY <1>5, <2>1, JoinedSequences
<1> HIDE DEF V, new, g
<1>7. g \in Seq(ToSet(g)) /\ DOMAIN g = 1 .. m + n
  BY <1>6, SeqOfItself
<1> HIDE DEF m, n
<1>8. \A o \in DOMAIN g : \/ o \in DOMAIN h /\ g[o] = h[o]
                          \/ o - m \in DOMAIN present /\ g[o] = object(present[o - m])
  <2>1. \A o \in m + 1 .. m + n : o - m \in 1 .. n
    BY <1>2, <1>3
  <2>2. \A i \in 1 .. n : new[i] = object(present[i])
    BY <1>4
  <2> QED
    BY <1>2, <1>3, <1>6, <1>7, <2>1, <2>2
<1>9. \A i \in DOMAIN present : m + i \in DOMAIN g /\ g[m + i] = object(present[i])
  <2>1. \A i \in 1 .. n : m + i \in m + 1 .. m + n /\ m + i \in 1 .. m + n /\ (m + i) - m = i
    BY <1>2, <1>3
  <2>2. \A i \in 1 .. n : new[i] = object(present[i])
    BY <1>4
  <2> QED
    BY <1>2, <1>6, <1>7, <2>1, <2>2
<1>10. ASSUME NEW x
       PROVE  /\ DOMAIN object(x) = {"row", "of", "rel"} /\ DOMAIN object(x).rel = ToSet(Children(q, x))
              /\ object(x).of = tree[x]
              /\ \A c \in DOMAIN object(x).rel :
                    object(x).rel[c] = IF c \in ToSet(present) THEN <<place(c)>> ELSE <<>>
  BY DEF object
<1>11. \A i \in DOMAIN present : m + i \in Of(q, g, present[i])
  BY <1>9, <1>10 DEF Of
<1>12. ASSUME NEW c \in ToSet(present) PROVE <<place(c)>> \in Seq(Of(q, g, c))
  <2>1. PICK i \in DOMAIN present : present[i] = c
    BY DEF ToSet
  <2> DEFINE k == CHOOSE j \in DOMAIN present : present[j] = c
  <2>2. k \in DOMAIN present /\ present[k] = c
    BY <2>1
  <2> HIDE DEF k
  <2>3. m + k \in Of(q, g, c)
    BY <1>11, <2>2
  <2>4. place(c) = m + k
    BY DEF k, m
  <2> QED
    BY <2>3, <2>4
<1> HIDE DEF place
<1>13. Grows(h, g)
  <2>1. \A o \in DOMAIN h : o \in DOMAIN g /\ g[o] = h[o]
    BY <1>2, <1>3, <1>6, <1>7
  <2> QED
    BY <2>1 DEF Grows
<1>14. ASSUME NEW o \in DOMAIN g
       PROVE  DOMAIN g[o] = {"row", "of", "rel"} /\ \A c \in DOMAIN g[o].rel : g[o].rel[c] \in Seq(Of(q, g, c))
  <2>1. CASE o \in DOMAIN h /\ g[o] = h[o]
    <3>1. DOMAIN h[o] = {"row", "of", "rel"} /\ \A c \in DOMAIN h[o].rel : h[o].rel[c] \in Seq(Of(q, h, c))
      BY <2>1 DEF WellFormed
    <3>2. \A c : Seq(Of(q, h, c)) \subseteq Seq(Of(q, g, c))
      BY <1>13, GrowsFacts
    <3> QED
      BY <2>1, <3>1, <3>2
  <2>2. CASE o - m \in DOMAIN present /\ g[o] = object(present[o - m])
    <3> DEFINE x == present[o - m]
    <3> HIDE DEF x
    <3>1. g[o] = object(x)
      BY <2>2 DEF x
    <3>2. ASSUME NEW c \in DOMAIN object(x).rel PROVE object(x).rel[c] \in Seq(Of(q, g, c))
      <4>1. CASE c \in ToSet(present)
        BY <1>10, <1>12, <3>2, <4>1
      <4>2. CASE c \notin ToSet(present)
        <5>1. object(x).rel[c] = <<>>
          BY <1>10, <3>2, <4>2
        <5> QED
          BY <5>1
      <4> QED
        BY <4>1, <4>2
    <3> QED
      BY <1>10, <3>1, <3>2
  <2> QED
    BY <1>8, <2>1, <2>2
<1>15. Len(g) \in Of(q, g, p)
  <2>1. n \in DOMAIN present /\ Len(g) = m + n
    BY <1>2, <1>6
  <2> QED
    BY <1>2, <1>11, <2>1
<1>16. Scanned(h, g, tree[p])
  <2>1. \A o \in DOMAIN h : g[o] = h[o]
    BY <1>3, <1>6 DEF m
  <2>2. ASSUME NEW o \in DOMAIN g, o \notin DOMAIN h, NEW x \in DOMAIN g[o].rel PROVE Len(g[o].rel[x]) <= 1
    <3>1. PICK y : g[o] = object(y)
      BY <1>8, <2>2
    <3>2. object(y).rel[x] = IF x \in ToSet(present) THEN <<place(x)>> ELSE <<>>
      BY <1>10, <2>2, <3>1
    <3>3. PICK a : a = place(x)
      OBVIOUS
    <3>4. g[o].rel[x] = <<a>> \/ g[o].rel[x] = <<>>
      BY <3>1, <3>2, <3>3
    <3>5. Len(<<a>>) = 1 /\ Len(<<>>) = 0
      OBVIOUS
    <3>6. CASE g[o].rel[x] = <<a>>
      BY <3>5, <3>6
    <3>7. CASE g[o].rel[x] = <<>>
      BY <3>5, <3>7
    <3> QED
      BY <3>4, <3>6, <3>7
  <2>3. n \in DOMAIN present /\ present[n] = p /\ Len(g) = m + n
    BY <1>2, <1>6
  <2>4. g[Len(g)].of = tree[p]
    <3>1. g[m + n] = object(p)
      BY <1>9, <2>3
    <3> QED
      BY <1>10, <2>3, <3>1
  <2>5. Len(g) \notin DOMAIN h
    BY <1>2, <1>3, <2>3
  <2> QED
    BY <2>1, <2>2, <2>4, <2>5 DEF Scanned
<1> QED
  BY <1>1, <1>7, <1>13, <1>14, <1>15, <1>16 DEF WellFormed

\* One field of one object.
LEMMA FieldSet ==
    ASSUME NEW r, DOMAIN r = {"row", "of", "rel"}, NEW c, NEW v
    PROVE  LET e == [r EXCEPT !.rel[c] = v]
           IN  /\ DOMAIN e = {"row", "of", "rel"} /\ e.row = r.row /\ e.of = r.of
               /\ DOMAIN e.rel = DOMAIN r.rel
               /\ \A x \in DOMAIN r.rel : e.rel[x] = IF x = c THEN v ELSE r.rel[x]
OBVIOUS

\* A sequence whose numbers are all there is a function on them.
LEMMA IsSequence ==
    ASSUME NEW n \in Nat, NEW s, s = [i \in 1 .. n |-> s[i]]
    PROVE  s \in Seq(ToSet(s)) /\ Len(s) = n
<1>1. DOMAIN s = 1 .. n
  OBVIOUS
<1>2. \A i \in 1 .. n : s[i] \in ToSet(s)
  BY <1>1 DEF ToSet
<1> DEFINE V == ToSet(s)
<1>3. \A i \in 1 .. n : s[i] \in V
  BY <1>2
<1> HIDE DEF V
<1>4. s \in Seq(V) /\ Len(s) = n
  BY <1>3
<1> QED
  BY <1>4 DEF V

\* More objects behind the ones a field refers to, all of row v.
Extended(f, ids, longer, v) ==
    \E more \in Seq(DOMAIN f) : longer = ids \o more /\ \A i \in DOMAIN more : f[more[i]].of = v

\* The objects P get more of what the last object of the heap came from; copies of
\* it are added.
Assigned(h, f, c, P) ==
    \A o \in DOMAIN f : \E k \in DOMAIN h :
        /\ k = IF o \in DOMAIN h THEN o ELSE Len(h)
        /\ DOMAIN f[o].rel = DOMAIN h[k].rel
        /\ \A x \in DOMAIN f[o].rel :
              \/ f[o].rel[x] = h[k].rel[x]
              \/ o \in P /\ x = c /\ Extended(f, h[k].rel[x], f[o].rel[x], h[Len(h)].of)

\* The parents of a key get the scanned target and its copies.
LEMMA AssignAdds ==
    ASSUME NEW q \in Requests, NEW h, WellFormed(q, h), NEW c,
           NEW parents \in Seq(Above(h, c)), parents # <<>>, Len(h) \in Of(q, h, c)
    PROVE  /\ WellFormed(q, Assign(h, c, parents)) /\ Grows(h, Assign(h, c, parents))
           /\ Assigned(h, Assign(h, c, parents), c, ToSet(parents))
<1> DEFINE last == Len(h)
           m == Len(parents) - 1
           copies == [i \in 1 .. m |-> h[last]]
           copied == h \o copies
           targets == [i \in DOMAIN parents |-> last + i - 1]
           given(o) == Among({t \in ToSet(targets) : parents[t - last + 1] = o}, targets)
           g == [o \in DOMAIN copied |->
                    IF o \in ToSet(parents) THEN [copied[o] EXCEPT !.rel[c] = @ \o given(o)] ELSE copied[o]]
<1>1. Assign(h, c, parents) = g
  BY Zenon DEF Assign
<1>2. /\ h \in Seq(ToSet(h)) /\ last \in Nat /\ DOMAIN h = 1 .. last /\ last \in DOMAIN h
      /\ m \in Nat /\ DOMAIN parents = 1 .. m + 1
  BY DEF WellFormed, Of
<1> DEFINE V == ToSet(h)
<1>3. \A o \in DOMAIN h : h[o] \in V
  BY DEF ToSet
<1>4. h \in Seq(V) /\ copies \in Seq(V) /\ Len(copies) = m
  <2> HIDE DEF V, m
  <2>1. h[last] \in V
    BY <1>2, <1>3
  <2> QED
    BY <1>2, <2>1 DEF V
<1> HIDE DEF V
<1>5. /\ copied \in Seq(V) /\ DOMAIN copied = 1 .. last + m
      /\ \A o \in DOMAIN h : copied[o] = h[o]
      /\ \A o \in last + 1 .. last + m : copied[o] = h[last]
  <2>1. copied \in Seq(V) /\ Len(copied) = last + m /\ (\A i \in 1 .. last : copied[i] = h[i])
        /\ \A i \in last + 1 .. last + m : copied[i] = copies[i - last]
    <3> HIDE DEF copies, m, last
    <3> QED
      BY <1>4, JoinedSequences DEF last
  <2>2. \A i \in last + 1 .. last + m : i - last \in 1 .. m
    BY <1>2
  <2> HIDE DEF copied, m, last
  <2> QED
    BY <1>2, <2>1, <2>2
<1> HIDE DEF copied, copies, m, last
<1>6. \A o \in DOMAIN copied : \E k \in DOMAIN h : copied[o] = h[k] /\ k = IF o \in DOMAIN h THEN o ELSE last
  <2>1. \A o \in DOMAIN copied : o \in DOMAIN h \/ o \in last + 1 .. last + m
    BY <1>2, <1>5
  <2> QED
    BY <1>2, <1>5, <2>1
<1>7. ASSUME NEW o \in DOMAIN copied
      PROVE  /\ DOMAIN g[o] = {"row", "of", "rel"} /\ g[o].row = copied[o].row /\ g[o].of = copied[o].of
             /\ DOMAIN g[o].rel = DOMAIN copied[o].rel
             /\ \A x \in DOMAIN copied[o].rel :
                   g[o].rel[x] = IF o \in ToSet(parents) /\ x = c THEN copied[o].rel[x] \o given(o)
                                 ELSE copied[o].rel[x]
  <2> HIDE DEF given
  <2> DEFINE r == copied[o]
             v == r.rel[c] \o given(o)
             e == [r EXCEPT !.rel[c] = v]
  <2>1. DOMAIN r = {"row", "of", "rel"}
    BY <1>6 DEF WellFormed
  <2>2. g[o] = IF o \in ToSet(parents) THEN e ELSE r
    BY Zenon
  <2> HIDE DEF r, v, g
  <2>3. /\ DOMAIN e = {"row", "of", "rel"} /\ e.row = r.row /\ e.of = r.of /\ DOMAIN e.rel = DOMAIN r.rel
        /\ \A x \in DOMAIN r.rel : e.rel[x] = IF x = c THEN v ELSE r.rel[x]
    BY <2>1, FieldSet
  <2> HIDE DEF e
  <2> QED
    BY <2>1, <2>2, <2>3 DEF r, v
<1>8. DOMAIN g = 1 .. last + m /\ g \in Seq(ToSet(g))
  <2>1. last + m \in Nat /\ g = [o \in 1 .. last + m |-> g[o]]
    BY <1>2, <1>5
  <2> HIDE DEF g
  <2> QED
    BY <2>1, IsSequence
<1>9. DOMAIN g = DOMAIN copied
  OBVIOUS
<1> HIDE DEF g
<1>10. Grows(h, g)
  <2>1. DOMAIN h \subseteq DOMAIN copied
    BY <1>2, <1>5
  <2> QED
    BY <1>5, <1>7, <1>9, <2>1 DEF Grows
<1> DEFINE v == h[last].of
           fresh == {t \in Of(q, g, c) : g[t].of = v}
<1>11. \A i \in DOMAIN parents : targets[i] \in fresh
  <2> SUFFICES ASSUME NEW i \in DOMAIN parents PROVE targets[i] \in fresh
    OBVIOUS
  <2>1. targets[i] = last + i - 1
    OBVIOUS
  <2>2. last \in Of(q, h, c) /\ Of(q, h, c) \subseteq Of(q, g, c)
    BY <1>10, GrowsFacts DEF last
  <2>3. CASE i = 1
    <3>1. targets[i] = last
      BY <1>2, <2>1, <2>3
    <3>2. g[last].of = v
      BY <1>2, <1>10 DEF Grows
    <3> QED
      BY <2>2, <3>1, <3>2
  <2>4. CASE i # 1
    <3> DEFINE k == last + i - 1
    <3>1. k \in last + 1 .. last + m /\ k \in DOMAIN copied
      BY <1>2, <1>5, <2>4
    <3> HIDE DEF k
    <3>2. copied[k] = h[last] /\ DOMAIN h[last].rel = ToSet(Children(q, c))
      BY <1>5, <2>2, <3>1 DEF Of
    <3>3. k \in DOMAIN g /\ DOMAIN g[k].rel = ToSet(Children(q, c)) /\ g[k].of = v
      BY <1>7, <1>9, <3>1, <3>2
    <3> QED
      BY <2>1, <3>3 DEF k, Of
  <2> QED
    BY <2>3, <2>4
<1> HIDE DEF v
<1>17. \A o : given(o) \in Seq(fresh)
  <2>1. targets \in Seq(fresh)
    <3> HIDE DEF fresh
    <3>1. \A i \in 1 .. m + 1 : targets[i] \in fresh
      BY <1>2, <1>11
    <3>2. targets = [i \in 1 .. m + 1 |-> targets[i]] /\ m + 1 \in Nat
      BY <1>2
    <3> HIDE DEF targets
    <3> QED
      BY <3>1, <3>2
  <2> HIDE DEF fresh, targets
  <2>2. \A S : Among(S, targets) \in Seq(fresh)
    BY <2>1, AmongKeeps
  <2> QED
    BY <2>2
<1> HIDE DEF given
<1>12. \A o : /\ given(o) \in Seq(Of(q, g, c)) /\ given(o) \in Seq(DOMAIN g)
              /\ \A i \in DOMAIN given(o) : g[given(o)[i]].of = v
  <2> SUFFICES ASSUME NEW o
               PROVE  /\ given(o) \in Seq(Of(q, g, c)) /\ given(o) \in Seq(DOMAIN g)
                      /\ \A i \in DOMAIN given(o) : g[given(o)[i]].of = v
    OBVIOUS
  <2>1. given(o) \in Seq(fresh)
    BY <1>17
  <2>2. fresh \subseteq Of(q, g, c) /\ fresh \subseteq DOMAIN g /\ \A t \in fresh : g[t].of = v
    BY DEF Of
  <2> DEFINE s == given(o)
             A == Of(q, g, c)
             B == DOMAIN g
  <2> HIDE DEF s, A, B, fresh
  <2>3. s \in Seq(A) /\ s \in Seq(B) /\ \A i \in DOMAIN s : s[i] \in fresh
    BY <2>1, <2>2 DEF s, A, B
  <2> QED
    BY <2>2, <2>3 DEF s, A, B
<1>13. ASSUME NEW o \in DOMAIN g, NEW x \in DOMAIN g[o].rel PROVE g[o].rel[x] \in Seq(Of(q, g, x))
  <2> DEFINE A == Of(q, g, x)
  <2>1. copied[o].rel[x] \in Seq(A)
    <3>1. PICK k \in DOMAIN h : copied[o] = h[k]
      BY <1>6, <1>9
    <3>2. x \in DOMAIN h[k].rel
      BY <1>7, <1>9, <3>1
    <3>3. h[k].rel[x] \in Seq(Of(q, h, x)) /\ Seq(Of(q, h, x)) \subseteq Seq(Of(q, g, x))
      BY <1>10, <3>2, GrowsFacts DEF WellFormed
    <3> QED
      BY <3>1, <3>3
  <2>2. x \in DOMAIN copied[o].rel
    BY <1>7, <1>9
  <2>3. CASE o \in ToSet(parents) /\ x = c
    <3>1. given(o) \in Seq(A)
      BY <1>12, <2>3
    <3>2. g[o].rel[x] = copied[o].rel[x] \o given(o)
      BY <1>7, <1>9, <2>2, <2>3
    <3> DEFINE s == copied[o].rel[x]
               t == given(o)
    <3> HIDE DEF A, s, t
    <3>3. s \in Seq(A) /\ t \in Seq(A)
      BY <2>1, <3>1 DEF s, t
    <3>4. s \o t \in Seq(A)
      BY <3>3
    <3> QED
      BY <3>2, <3>4 DEF A, s, t
  <2>4. CASE ~(o \in ToSet(parents) /\ x = c)
    <3>1. g[o].rel[x] = copied[o].rel[x]
      BY <1>7, <1>9, <2>2, <2>4
    <3> QED
      BY <2>1, <3>1
  <2> QED
    BY <2>3, <2>4
<1>14. \A o \in DOMAIN g : DOMAIN g[o] = {"row", "of", "rel"}
  BY <1>7, <1>9
<1>15. ASSUME NEW o \in DOMAIN g
       PROVE  \E k \in DOMAIN h :
                 /\ k = IF o \in DOMAIN h THEN o ELSE Len(h)
                 /\ DOMAIN g[o].rel = DOMAIN h[k].rel
                 /\ \A x \in DOMAIN g[o].rel :
                       \/ g[o].rel[x] = h[k].rel[x]
                       \/ o \in ToSet(parents) /\ x = c /\ Extended(g, h[k].rel[x], g[o].rel[x], h[Len(h)].of)
  <2>1. PICK k \in DOMAIN h : copied[o] = h[k] /\ k = IF o \in DOMAIN h THEN o ELSE last
    BY <1>6, <1>9
  <2>2. ASSUME NEW x \in DOMAIN g[o].rel, g[o].rel[x] # h[k].rel[x]
        PROVE  o \in ToSet(parents) /\ x = c /\ Extended(g, h[k].rel[x], g[o].rel[x], v)
    <3>2. x \in DOMAIN copied[o].rel /\ o \in DOMAIN copied
      BY <1>7, <1>9, <2>2
    <3>3. g[o].rel[x] = IF o \in ToSet(parents) /\ x = c THEN copied[o].rel[x] \o given(o) ELSE copied[o].rel[x]
      BY <1>7, <3>2
    <3>1. o \in ToSet(parents) /\ x = c /\ g[o].rel[x] = h[k].rel[x] \o given(o)
      BY <2>1, <2>2, <3>3
    <3> QED
      BY <1>12, <3>1 DEF Extended
  <2>3. DOMAIN g[o].rel = DOMAIN h[k].rel
    BY <1>7, <1>9, <2>1
  <2>4. k = IF o \in DOMAIN h THEN o ELSE Len(h)
    BY <2>1 DEF last
  <2>5. v = h[Len(h)].of
    BY DEF last, v
  <2> QED
    BY <2>2, <2>3, <2>4, <2>5
<1>16. Assigned(h, g, c, ToSet(parents))
  BY <1>15 DEF Assigned
<1> QED
  BY <1>1, <1>8, <1>10, <1>13, <1>14, <1>16 DEF WellFormed

\* One row of a statement puts objects with at most one object in a field on the
\* heap, and more of row v behind those that the field c of P refers to.
OneRow(h, f, c, P, v) ==
    \A o \in DOMAIN f : \A x \in DOMAIN f[o].rel :
        \/ o \notin DOMAIN h /\ Len(f[o].rel[x]) <= 1
        \/ o \in DOMAIN h /\ f[o].rel[x] = h[o].rel[x]
        \/ o \in DOMAIN h \cap P /\ x = c /\ Extended(f, h[o].rel[x], f[o].rel[x], v)

\* The parents of a key.
Owners(h, q, c, parents, key) == {o \in ToSet(parents) : KeyOf(h[o].row, Plan(q, c).src) = key}

\* What a scanned row and its copies make of a heap.
LEMMA AssignedRow ==
    ASSUME NEW q, NEW h, NEW g, NEW f, NEW c, NEW P, P \subseteq DOMAIN h, NEW v,
           Grows(h, g), Scanned(h, g, v), Assigned(g, f, c, P)
    PROVE  OneRow(h, f, c, P, v)
<1> SUFFICES ASSUME NEW o \in DOMAIN f, NEW x \in DOMAIN f[o].rel
             PROVE  \/ o \notin DOMAIN h /\ Len(f[o].rel[x]) <= 1
                    \/ o \in DOMAIN h /\ f[o].rel[x] = h[o].rel[x]
                    \/ o \in DOMAIN h \cap P /\ x = c /\ Extended(f, h[o].rel[x], f[o].rel[x], v)
  BY DEF OneRow
<1>1. PICK k \in DOMAIN g :
         /\ k = IF o \in DOMAIN g THEN o ELSE Len(g)
         /\ DOMAIN f[o].rel = DOMAIN g[k].rel
         /\ f[o].rel[x] = g[k].rel[x] \/ (o \in P /\ x = c /\ Extended(f, g[k].rel[x], f[o].rel[x], g[Len(g)].of))
  BY DEF Assigned
<1>2. /\ g[Len(g)].of = v /\ Len(g) \notin DOMAIN h /\ DOMAIN h \subseteq DOMAIN g
      /\ \A i \in DOMAIN h : g[i] = h[i]
      /\ \A i \in DOMAIN g : i \in DOMAIN h \/ \A y \in DOMAIN g[i].rel : Len(g[i].rel[y]) <= 1
  BY DEF Scanned, Grows
<1>3. CASE o \in DOMAIN h
  BY <1>1, <1>2, <1>3
<1>4. CASE o \notin DOMAIN h
  <2>1. k \notin DOMAIN h /\ o \notin P
    BY <1>1, <1>2, <1>4
  <2> QED
    BY <1>1, <1>2, <1>4, <2>1
<1> QED
  BY <1>3, <1>4

\* One row of a statement: its tree, and what its parents get.
LEMMA HydrateRowAdds ==
    ASSUME NEW q \in Requests, NEW h, WellFormed(q, h), NEW c \in Nodes, NEW parents \in Seq(Above(h, c)), NEW r
    PROVE  /\ WellFormed(q, HydrateRow(h, q, c, parents, r)) /\ Grows(h, HydrateRow(h, q, c, parents, r))
           /\ OneRow(h, HydrateRow(h, q, c, parents, r), c, Owners(h, q, c, parents, r.key), r.tree[c])
<1> DEFINE S == Owners(h, q, c, parents, r.key)
           owners == Among(S, parents)
           g == Hydrate(h, q, c, r.tree)
           f == Assign(g, c, owners)
<1>1. HydrateRow(h, q, c, parents, r) = IF owners = <<>> THEN h ELSE f
  BY Zenon DEF HydrateRow, Owners
<1>8. S \subseteq ToSet(parents) /\ S \subseteq DOMAIN h
  <2>1. \A i \in DOMAIN parents : parents[i] \in Above(h, c)
    OBVIOUS
  <2> QED
    BY <2>1 DEF Owners, Above, ToSet
<1> HIDE DEF S
<1>2. owners \in Seq(Above(h, c)) /\ ToSet(owners) \subseteq S
  BY AmongKeeps
<1>3. WellFormed(q, g) /\ Grows(h, g) /\ Len(g) \in Of(q, g, c) /\ Scanned(h, g, r.tree[c])
  BY HydrateAdds
<1> HIDE DEF owners, g
<1>4. owners \in Seq(Above(g, c))
  BY <1>2, <1>3, GrowsFacts
<1>5. Grows(h, h) /\ OneRow(h, h, c, S, r.tree[c])
  BY DEF Grows, OneRow
<1>6. owners # <<>> => WellFormed(q, f) /\ Grows(g, f) /\ Assigned(g, f, c, ToSet(owners))
  BY <1>3, <1>4, AssignAdds
<1>7. owners # <<>> => Grows(h, f)
  BY <1>3, <1>6, GrowsOn
<1>9. owners # <<>> => OneRow(h, f, c, S, r.tree[c])
  <2> SUFFICES ASSUME owners # <<>> PROVE OneRow(h, f, c, S, r.tree[c])
    OBVIOUS
  <2>1. OneRow(h, f, c, ToSet(owners), r.tree[c])
    BY <1>2, <1>3, <1>6, <1>8, AssignedRow
  <2> QED
    BY <1>2, <2>1 DEF OneRow
<1> QED
  BY <1>1, <1>5, <1>6, <1>7, <1>9 DEF S

---------------------------------------------------------------------------
(* The order of a collection.                                                *)

\* The objects a field refers to come from rows in this order, all of them of V.
Sorted(h, ids)  == \A i, j \in DOMAIN ids : i < j => NotAfter(h[ids[i]].of, h[ids[j]].of)
From(h, ids, V) == \A i \in DOMAIN ids : h[ids[i]].of \in V

\* A heap grows without a change to what is in order.
LEMMA SortedStays ==
    ASSUME NEW h, NEW f, Grows(h, f), NEW ids \in Seq(DOMAIN h)
    PROVE  /\ Sorted(h, ids) => Sorted(f, ids)
           /\ \A V : From(h, ids, V) => From(f, ids, V)
<1>1. \A i \in DOMAIN ids : f[ids[i]].of = h[ids[i]].of
  <2>1. \A i \in DOMAIN ids : ids[i] \in DOMAIN h
    OBVIOUS
  <2> QED
    BY <2>1 DEF Grows
<1> QED
  BY <1>1 DEF Sorted, From

\* More of a row that no row before comes behind keeps the order.
LEMMA SortedOn ==
    ASSUME NEW f, NEW ids \in Seq(DOMAIN f), NEW V, NEW v, NEW longer,
           Sorted(f, ids), From(f, ids, V), \A u \in V : NotAfter(u, v), Extended(f, ids, longer, v)
    PROVE  Sorted(f, longer) /\ From(f, longer, V \cup {v})
<1>1. PICK more \in Seq(DOMAIN f) : longer = ids \o more /\ \A i \in DOMAIN more : f[more[i]].of = v
  BY DEF Extended
<1> DEFINE A == DOMAIN f
           m == Len(ids)
           n == Len(more)
<1>2. /\ m \in Nat /\ n \in Nat /\ DOMAIN ids = 1 .. m /\ DOMAIN more = 1 .. n /\ DOMAIN longer = 1 .. m + n
      /\ \A i \in 1 .. m : longer[i] = ids[i]
      /\ \A i \in m + 1 .. m + n : longer[i] = more[i - m]
  <2> HIDE DEF A
  <2>1. ids \in Seq(A) /\ more \in Seq(A)
    BY DEF A
  <2>2. /\ longer \in Seq(A) /\ Len(longer) = m + n
        /\ \A i \in 1 .. m : longer[i] = ids[i]
        /\ \A i \in m + 1 .. m + n : longer[i] = more[i - m]
    BY <1>1, <2>1, JoinedSequences
  <2> QED
    BY <2>1, <2>2
<1> HIDE DEF m, n
<1>3. ASSUME NEW i \in 1 .. m PROVE f[longer[i]].of = f[ids[i]].of /\ f[longer[i]].of \in V
  BY <1>2 DEF From
<1>4. ASSUME NEW i \in m + 1 .. m + n PROVE f[longer[i]].of = v
  <2>1. i - m \in 1 .. n
    BY <1>2
  <2> QED
    BY <1>1, <1>2, <2>1
<1>5. \A i \in DOMAIN longer : i \in 1 .. m \/ i \in m + 1 .. m + n
  BY <1>2
<1>6. From(f, longer, V \cup {v})
  BY <1>3, <1>4, <1>5 DEF From
<1>7. ASSUME NEW i \in DOMAIN longer, NEW j \in DOMAIN longer, i < j
      PROVE  NotAfter(f[longer[i]].of, f[longer[j]].of)
  <2>1. CASE j \in 1 .. m
    <3>1. i \in 1 .. m
      BY <1>2, <1>5, <1>7, <2>1
    <3> QED
      BY <1>2, <1>3, <1>7, <2>1, <3>1 DEF Sorted
  <2>2. CASE i \in 1 .. m /\ j \in m + 1 .. m + n
    BY <1>3, <1>4, <2>2
  <2>3. CASE i \in m + 1 .. m + n /\ j \in m + 1 .. m + n
    BY <1>4, <2>3 DEF NotAfter
  <2> QED
    BY <1>5, <2>1, <2>2, <2>3
<1> QED
  BY <1>6, <1>7 DEF Sorted

\* One object is in order.
LEMMA SortedShort ==
    ASSUME NEW V, NEW ids \in Seq(V), Len(ids) <= 1, NEW h
    PROVE  Sorted(h, ids)
<1>1. DOMAIN ids = 1 .. Len(ids) /\ Len(ids) \in Nat
  OBVIOUS
<1>2. \A i, j \in DOMAIN ids : ~(i < j)
  BY <1>1
<1> QED
  BY <1>2 DEF Sorted

\* The rows of a statement, by what they are for node c.
InOrder(rows, c) == \A i, j \in DOMAIN rows : i < j => NotAfter(rows[i].tree[c], rows[j].tree[c])
RowsUpTo(rows, c, n) == {rows[i].tree[c] : i \in 1 .. n}
Keyed(h, q, c, o, rows, n) == \E i \in 1 .. n : KeyOf(h[o].row, Plan(q, c).src) = rows[i].key

\* What n rows make of a heap: a field c of the parents they are for has changed,
\* and new objects have at most one object in a field.  A field that was empty
\* comes from the rows, in their order.
Given(h, f, q, c, parents, rows, n) ==
    /\ \A o \in DOMAIN f : \A x \in DOMAIN f[o].rel :
          \/ o \notin DOMAIN h /\ Len(f[o].rel[x]) <= 1
          \/ o \in DOMAIN h /\ f[o].rel[x] = h[o].rel[x]
          \/ o \in DOMAIN h \cap ToSet(parents) /\ x = c /\ Keyed(h, q, c, o, rows, n)
    /\ InOrder(rows, c) =>
          \A o \in ToSet(parents) : h[o].rel[c] = <<>> =>
              Sorted(f, f[o].rel[c]) /\ From(f, f[o].rel[c], RowsUpTo(rows, c, n))

\* What a field refers to is on the heap.
LEMMA FieldsAre ==
    ASSUME NEW q, NEW h, WellFormed(q, h), NEW o \in DOMAIN h, NEW x \in DOMAIN h[o].rel
    PROVE  h[o].rel[x] \in Seq(DOMAIN h)
<1>1. h[o].rel[x] \in Seq(Of(q, h, x)) /\ Of(q, h, x) \subseteq DOMAIN h
  BY DEF WellFormed, Of
<1>2. PICK s, A, B : s = h[o].rel[x] /\ A = Of(q, h, x) /\ B = DOMAIN h
  OBVIOUS
<1>3. s \in Seq(A) /\ A \subseteq B
  BY <1>1, <1>2
<1>4. s \in Seq(B)
  BY <1>3
<1> QED
  BY <1>2, <1>4

\* One row more.
LEMMA GivenOn ==
    ASSUME NEW q \in Requests, NEW h, NEW f, NEW e, NEW c, NEW parents \in Seq(Above(h, c)), NEW rows,
           NEW k \in Nat, k + 1 \in DOMAIN rows, Len(rows) \in Nat, DOMAIN rows = 1 .. Len(rows),
           WellFormed(q, f), WellFormed(q, e), Grows(h, f), Grows(f, e), Given(h, f, q, c, parents, rows, k),
           OneRow(f, e, c, Owners(f, q, c, parents, rows[k + 1].key), rows[k + 1].tree[c])
    PROVE  Given(h, e, q, c, parents, rows, k + 1)
<1> DEFINE r == rows[k + 1]
           v == r.tree[c]
<1>1. /\ \A o \in ToSet(parents) : o \in DOMAIN h /\ c \in DOMAIN h[o].rel
      /\ \A o \in DOMAIN h : o \in DOMAIN f /\ f[o].row = h[o].row /\ DOMAIN f[o].rel = DOMAIN h[o].rel
      /\ \A o \in DOMAIN f : o \in DOMAIN e /\ DOMAIN e[o].rel = DOMAIN f[o].rel
  <2>1. \A i \in DOMAIN parents : parents[i] \in Above(h, c)
    OBVIOUS
  <2> QED
    BY <2>1 DEF Grows, ToSet, Above
<1>2. /\ \A o : Keyed(h, q, c, o, rows, k) => Keyed(h, q, c, o, rows, k + 1)
      /\ \A o \in Owners(f, q, c, parents, r.key) : o \in ToSet(parents) /\ Keyed(h, q, c, o, rows, k + 1)
  <2>1. k + 1 \in 1 .. k + 1 /\ \A i \in 1 .. k : i \in 1 .. k + 1
    OBVIOUS
  <2> QED
    BY <1>1, <2>1 DEF Keyed, Owners
<1>3. ASSUME NEW o \in DOMAIN e, NEW x \in DOMAIN e[o].rel
      PROVE  \/ o \notin DOMAIN h /\ Len(e[o].rel[x]) <= 1
             \/ o \in DOMAIN h /\ e[o].rel[x] = h[o].rel[x]
             \/ o \in DOMAIN h \cap ToSet(parents) /\ x = c /\ Keyed(h, q, c, o, rows, k + 1)
  <2>1. CASE o \notin DOMAIN f
    <3>1. Len(e[o].rel[x]) <= 1 /\ o \notin DOMAIN h
      BY <1>1, <2>1 DEF OneRow
    <3> QED
      BY <3>1
  <2>2. CASE o \in DOMAIN f /\ e[o].rel[x] = f[o].rel[x]
    <3>1. x \in DOMAIN f[o].rel
      BY <1>1, <2>2
    <3> QED
      BY <1>2, <2>2, <3>1 DEF Given
  <2>3. CASE o \in Owners(f, q, c, parents, r.key) /\ x = c
    BY <1>1, <1>2, <2>3
  <2> QED
    BY <2>1, <2>2, <2>3 DEF OneRow
<1>4. ASSUME InOrder(rows, c), NEW o \in ToSet(parents), h[o].rel[c] = <<>>
      PROVE  Sorted(e, e[o].rel[c]) /\ From(e, e[o].rel[c], RowsUpTo(rows, c, k + 1))
  <2> DEFINE ids == f[o].rel[c]
             V == RowsUpTo(rows, c, k)
  <2>1. Sorted(f, ids) /\ From(f, ids, V)
    BY <1>4 DEF Given
  <2>2. ids \in Seq(DOMAIN f)
    BY <1>1, FieldsAre
  <2>3. Sorted(e, ids) /\ From(e, ids, V)
    BY <2>1, <2>2, SortedStays
  <2>4. ids \in Seq(DOMAIN e)
    <3>1. DOMAIN f \subseteq DOMAIN e
      BY DEF Grows
    <3> DEFINE A == DOMAIN f
               B == DOMAIN e
    <3> HIDE DEF ids, A, B
    <3>2. ids \in Seq(A) /\ A \subseteq B
      BY <2>2, <3>1 DEF A, B
    <3>3. ids \in Seq(B)
      BY <3>2
    <3> QED
      BY <3>3 DEF B
  <2>5. V \cup {v} = RowsUpTo(rows, c, k + 1)
    <3>1. \A i \in 1 .. k + 1 : i \in 1 .. k \/ i = k + 1
      OBVIOUS
    <3>2. k + 1 \in 1 .. k + 1 /\ \A i \in 1 .. k : i \in 1 .. k + 1
      OBVIOUS
    <3> QED
      BY <3>1, <3>2 DEF RowsUpTo
  <2>6. \A u \in V : NotAfter(u, v)
    <3>1. \A i \in 1 .. k : i \in DOMAIN rows /\ i < k + 1
      OBVIOUS
    <3> QED
      BY <1>4, <3>1 DEF InOrder, RowsUpTo
  <2>7. e[o].rel[c] = ids \/ Extended(e, ids, e[o].rel[c], v)
    <3>1. o \in DOMAIN f /\ o \in DOMAIN e /\ c \in DOMAIN e[o].rel
      BY <1>1
    <3> QED
      BY <3>1 DEF OneRow
  <2> HIDE DEF ids, V, v
  <2>8. CASE e[o].rel[c] = ids
    BY <2>3, <2>5, <2>8 DEF From
  <2>9. CASE Extended(e, ids, e[o].rel[c], v)
    <3>1. PICK longer : longer = e[o].rel[c]
      OBVIOUS
    <3>2. Extended(e, ids, longer, v)
      BY <2>9, <3>1
    <3>3. Sorted(e, longer) /\ From(e, longer, V \cup {v})
      BY <2>3, <2>4, <2>6, <3>2, SortedOn
    <3> QED
      BY <2>5, <3>1, <3>3
  <2> QED
    BY <2>7, <2>8, <2>9
<1> QED
  BY <1>3, <1>4 DEF Given

\* after is the heap after each of the rows.
AfterRows(after, h, q, c, parents, rows) ==
    after = [k \in 0 .. Len(rows) |-> IF k = 0 THEN h ELSE HydrateRow(after[k - 1], q, c, parents, rows[k])]

\* The heaps after each row of a statement exist.
LEMMA AfterRowsExists ==
    ASSUME NEW q, NEW h, NEW c, NEW parents, NEW rows, Len(rows) \in Nat
    PROVE  \E after : AfterRows(after, h, q, c, parents, rows)
<1> DEFINE n == Len(rows)
           After(G, m) == \A k \in 0 .. m : G[k] = IF k = 0 THEN h ELSE HydrateRow(G[k - 1], q, c, parents, rows[k])
           S == {m \in 0 .. n : \E G : After(G, m)}
<1>1. 0 \in S
  <2> DEFINE G == [k \in {0} |-> h]
  <2>1. After(G, 0)
    <3>1. \A k \in 0 .. 0 : k = 0 /\ G[k] = h
      OBVIOUS
    <3> QED
      BY <3>1
  <2> HIDE DEF G, After
  <2> QED
    BY <2>1
<1>2. ASSUME NEW m \in 0 .. n - 1, m \in S PROVE m + 1 \in S
  <2>1. PICK G : After(G, m)
    BY <1>2
  <2> DEFINE K == [k \in 0 .. m + 1 |-> IF k = m + 1 THEN HydrateRow(G[m], q, c, parents, rows[k]) ELSE G[k]]
  <2>2. ASSUME NEW k \in 0 .. m + 1
        PROVE  K[k] = IF k = 0 THEN h ELSE HydrateRow(K[k - 1], q, c, parents, rows[k])
    <3>1. CASE k = m + 1
      <4>1. k # 0 /\ k - 1 = m /\ m \in 0 .. m + 1 /\ m # m + 1
        BY <3>1
      <4>2. K[k - 1] = G[m] /\ K[k] = HydrateRow(G[m], q, c, parents, rows[k])
        BY <3>1, <4>1
      <4> HIDE DEF K
      <4> QED
        BY <4>1, <4>2
    <3>2. CASE k # m + 1
      <4>1. k \in 0 .. m /\ K[k] = G[k]
        BY <3>2
      <4>2. k # 0 => K[k - 1] = G[k - 1]
        BY <4>1
      <4>3. G[k] = IF k = 0 THEN h ELSE HydrateRow(G[k - 1], q, c, parents, rows[k])
        BY <2>1, <4>1
      <4> HIDE DEF K
      <4> QED
        BY <4>1, <4>2, <4>3
    <3> QED
      BY <3>1, <3>2
  <2>3. After(K, m + 1)
    BY <2>2
  <2>4. m + 1 \in 0 .. n
    OBVIOUS
  <2> HIDE DEF K, After
  <2> QED
    BY <2>3, <2>4
<1>3. n \in S
  <2>1. n \in 0 .. n
    OBVIOUS
  <2> HIDE DEF S
  <2>2. \A k \in 0 .. n : k \in S
    BY <1>1, <1>2, UpTo
  <2> QED
    BY <2>1, <2>2
<1>4. PICK G : After(G, n)
  BY <1>3
<1> DEFINE K == [k \in 0 .. n |-> G[k]]
<1>5. K = [k \in 0 .. n |-> IF k = 0 THEN h ELSE HydrateRow(K[k - 1], q, c, parents, rows[k])]
  <2>1. ASSUME NEW k \in 0 .. n PROVE K[k] = IF k = 0 THEN h ELSE HydrateRow(K[k - 1], q, c, parents, rows[k])
    <3>1. K[k] = G[k] /\ (k # 0 => K[k - 1] = G[k - 1])
      OBVIOUS
    <3>2. G[k] = IF k = 0 THEN h ELSE HydrateRow(G[k - 1], q, c, parents, rows[k])
      BY <1>4
    <3> HIDE DEF K
    <3> QED
      BY <3>1, <3>2
  <2>2. K = [k \in 0 .. n |-> K[k]]
    OBVIOUS
  <2> HIDE DEF K
  <2> QED
    BY <2>1, <2>2
<1> HIDE DEF K
<1> QED
  BY <1>5 DEF AfterRows

\* The rows of a statement leave a heap well formed, and only add to it.
LEMMA HydrateRowsAdds ==
    ASSUME NEW q \in Requests, NEW h, WellFormed(q, h), NEW c \in Nodes, NEW parents \in Seq(Above(h, c)),
           NEW rows, Len(rows) \in Nat, DOMAIN rows = 1 .. Len(rows)
    PROVE  /\ WellFormed(q, HydrateRows(h, q, c, parents, rows)) /\ Grows(h, HydrateRows(h, q, c, parents, rows))
           /\ Given(h, HydrateRows(h, q, c, parents, rows), q, c, parents, rows, Len(rows))
<1> DEFINE n == Len(rows)
           after == CHOOSE it : AfterRows(it, h, q, c, parents, rows)
<1>1. HydrateRows(h, q, c, parents, rows) = after[n]
  BY Zenon DEF HydrateRows, AfterRows
<1>2. AfterRows(after, h, q, c, parents, rows)
  BY AfterRowsExists
<1> HIDE DEF after
<1> DEFINE S == {k \in 0 .. n : WellFormed(q, after[k]) /\ Grows(h, after[k]) /\ Given(h, after[k], q, c, parents, rows, k)}
<1>3. 0 \in S
  <2>1. after[0] = h
    BY <1>2 DEF AfterRows
  <2>2. Given(h, h, q, c, parents, rows, 0)
    <3>1. \A i \in DOMAIN <<>> : FALSE
      OBVIOUS
    <3> QED
      BY <3>1 DEF Given, Sorted, From
  <2>3. Grows(h, h)
    BY DEF Grows
  <2> QED
    BY <2>1, <2>2, <2>3
<1>4. ASSUME NEW k \in 0 .. n - 1, k \in S PROVE k + 1 \in S
  <2>1. k + 1 \in 0 .. n /\ k + 1 # 0 /\ (k + 1) - 1 = k
    OBVIOUS
  <2>2. after[k + 1] = HydrateRow(after[k], q, c, parents, rows[k + 1])
    BY <1>2, <2>1 DEF AfterRows
  <2>3. WellFormed(q, after[k]) /\ Grows(h, after[k]) /\ Given(h, after[k], q, c, parents, rows, k)
    BY <1>4
  <2>4. parents \in Seq(Above(after[k], c))
    BY <2>3, GrowsFacts
  <2>5. /\ WellFormed(q, after[k + 1]) /\ Grows(after[k], after[k + 1])
        /\ OneRow(after[k], after[k + 1], c, Owners(after[k], q, c, parents, rows[k + 1].key), rows[k + 1].tree[c])
    BY <2>2, <2>3, <2>4, HydrateRowAdds
  <2>6. Grows(h, after[k + 1])
    BY <2>3, <2>5, GrowsOn
  <2>7. Given(h, after[k + 1], q, c, parents, rows, k + 1)
    <3>1. k \in Nat /\ k + 1 \in DOMAIN rows
      BY <2>1
    <3> QED
      BY <2>3, <2>5, <3>1, GivenOn
  <2> QED
    BY <2>1, <2>5, <2>6, <2>7
<1>5. n \in 0 .. n
  OBVIOUS
<1> HIDE DEF S
<1>6. \A k \in 0 .. n : k \in S
  BY <1>3, <1>4, UpTo
<1>7. n \in S
  BY <1>5, <1>6
<1> QED
  BY <1>1, <1>7 DEF S

\* The targets of the parents are objects of their node.
LEMMA TargetsAre ==
    ASSUME NEW q, NEW h, WellFormed(q, h), NEW c, NEW parents \in Seq(Above(h, c))
    PROVE  Targets(h, c, parents) \in Seq(Of(q, h, c))
<1> DEFINE A == Of(q, h, c)
           lists == [i \in DOMAIN parents |-> h[parents[i]].rel[c]]
<1>1. lists \in Seq(Seq(A))
  <2>1. \A i \in DOMAIN parents : parents[i] \in Above(h, c)
    OBVIOUS
  <2>2. \A o \in Above(h, c) : h[o].rel[c] \in Seq(A)
    BY DEF WellFormed, Above
  <2> HIDE DEF A
  <2>3. \A i \in DOMAIN parents : lists[i] \in Seq(A)
    BY <2>1, <2>2
  <2>4. Len(parents) \in Nat /\ DOMAIN parents = 1 .. Len(parents)
    OBVIOUS
  <2> DEFINE B == Seq(A)
  <2>5. \A i \in 1 .. Len(parents) : lists[i] \in B
    BY <2>3, <2>4
  <2> HIDE DEF B
  <2>6. lists = [i \in 1 .. Len(parents) |-> lists[i]]
    BY <2>4
  <2> HIDE DEF lists
  <2>7. lists \in Seq(B)
    BY <2>4, <2>5, <2>6
  <2> QED
    BY <2>7 DEF B
<1>2. Targets(h, c, parents) = FlattenSeq(lists)
  BY Zenon DEF Targets
<1> HIDE DEF A, lists
<1> QED
  BY <1>1, <1>2, FlattenSteps DEF A

\* The parents of a task have a field for its relation.
LEMMA TasksHaveParents ==
    ASSUME NEW q \in Requests, NEW h, NEW p, NEW parents \in Seq(Of(q, h, p))
    PROVE  LET t == Tasks(q, p, parents)
           IN  \A i \in DOMAIN t : t[i].parents \in Seq(Above(h, t[i].node))
<1> DEFINE t == Tasks(q, p, parents)
           cs == Children(q, p)
<1>1. CASE parents = <<>>
  BY <1>1 DEF Tasks
<1>2. CASE parents # <<>>
  <2>1. t = [i \in DOMAIN cs |-> [node |-> cs[i], parents |-> parents]]
    BY <1>2 DEF Tasks
  <2>2. \A i \in DOMAIN cs : cs[i] \in ToSet(cs)
    BY DEF ToSet
  <2>3. \A c \in ToSet(cs) : parents \in Seq(Above(h, c))
    BY OfIsAbove
  <2> HIDE DEF t, cs
  <2> QED
    BY <2>1, <2>2, <2>3 DEF t
<1> QED
  BY <1>1, <1>2

\* A relation field that is reset.
Resets(g, h, c, P) == g = [o \in DOMAIN h |-> IF o \in P THEN [h[o] EXCEPT !.rel[c] = <<>>] ELSE h[o]]

\* Resetting a field keeps the heap well formed.
LEMMA ResetKeeps ==
    ASSUME NEW q, NEW h, WellFormed(q, h), NEW c, NEW P, NEW g, Resets(g, h, c, P)
    PROVE  /\ WellFormed(q, g) /\ Grows(h, g)
           /\ \A o \in DOMAIN g : \A x \in DOMAIN g[o].rel :
                 o \in DOMAIN h /\ g[o].rel[x] = IF o \in P /\ x = c THEN <<>> ELSE h[o].rel[x]
<1>0. g = [o \in DOMAIN h |-> IF o \in P THEN [h[o] EXCEPT !.rel[c] = <<>>] ELSE h[o]]
  BY DEF Resets
<1>1. h \in Seq(ToSet(h)) /\ DOMAIN h = 1 .. Len(h) /\ Len(h) \in Nat
      /\ \A o \in DOMAIN h : DOMAIN h[o] = {"row", "of", "rel"} /\ \A x \in DOMAIN h[o].rel : h[o].rel[x] \in Seq(Of(q, h, x))
  BY DEF WellFormed
<1>2. ASSUME NEW o \in DOMAIN h
      PROVE  /\ DOMAIN g[o] = {"row", "of", "rel"} /\ g[o].row = h[o].row /\ g[o].of = h[o].of /\ DOMAIN g[o].rel = DOMAIN h[o].rel
             /\ \A x \in DOMAIN h[o].rel : g[o].rel[x] = IF o \in P /\ x = c THEN <<>> ELSE h[o].rel[x]
  <2> DEFINE r == h[o]
             e == [r EXCEPT !.rel[c] = <<>>]
  <2>1. DOMAIN r = {"row", "of", "rel"}
    BY <1>1
  <2>2. g[o] = IF o \in P THEN e ELSE r
    BY <1>0, Zenon
  <2> HIDE DEF r
  <2>3. /\ DOMAIN e = {"row", "of", "rel"} /\ e.row = r.row /\ e.of = r.of /\ DOMAIN e.rel = DOMAIN r.rel
        /\ \A x \in DOMAIN r.rel : e.rel[x] = IF x = c THEN <<>> ELSE r.rel[x]
    BY <2>1, FieldSet
  <2> HIDE DEF e
  <2> QED
    BY <2>1, <2>2, <2>3 DEF r
<1>3. DOMAIN g = DOMAIN h /\ g \in Seq(ToSet(g))
  <2>1. g = [o \in 1 .. Len(h) |-> g[o]]
    BY <1>0, <1>1
  <2>2. g \in Seq(ToSet(g)) /\ Len(g) = Len(h)
    BY <1>1, <2>1, IsSequence
  <2> QED
    BY <1>1, <2>1, <2>2
<1>4. Grows(h, g)
  BY <1>2, <1>3 DEF Grows
<1>5. ASSUME NEW o \in DOMAIN g, NEW x \in DOMAIN g[o].rel PROVE g[o].rel[x] \in Seq(Of(q, g, x))
  <2>1. h[o].rel[x] \in Seq(Of(q, h, x)) /\ Seq(Of(q, h, x)) \subseteq Seq(Of(q, g, x))
    BY <1>1, <1>2, <1>3, <1>4, GrowsFacts
  <2>2. <<>> \in Seq(Of(q, g, x))
    OBVIOUS
  <2>3. g[o].rel[x] = <<>> \/ g[o].rel[x] = h[o].rel[x]
    BY <1>2, <1>3
  <2> QED
    BY <2>1, <2>2, <2>3
<1>6. \A o \in DOMAIN g : DOMAIN g[o] = {"row", "of", "rel"}
  BY <1>2, <1>3
<1>7. WellFormed(q, g)
  BY <1>3, <1>5, <1>6 DEF WellFormed
<1> QED
  BY <1>2, <1>3, <1>4, <1>7

---------------------------------------------------------------------------
(* What a statement returns is finite, and so is its order.                  *)

\* The values of a function on a finite set are finitely many.
LEMMA ImageIsFinite ==
    ASSUME NEW S, IsFiniteSet(S), NEW f, f = [x \in S |-> f[x]]
    PROVE  IsFiniteSet({f[x] : x \in S})
<1> DEFINE T == {f[x] : x \in S}
<1>1. f \in Surjection(S, T)
  BY DEF Surjection
<1> HIDE DEF T
<1>2. IsFiniteSet(T)
  BY <1>1, FS_Surjection
<1> QED
  BY <1>2 DEF T

\* So are the functions from one finite set to another.
LEMMA FunctionsAreFinite ==
    ASSUME NEW S, IsFiniteSet(S), NEW T, IsFiniteSet(T)
    PROVE  IsFiniteSet([S -> T])
<1> DEFINE graph == [f \in [S -> T] |-> {<<x, f[x]>> : x \in S}]
<1>1. IsFiniteSet(SUBSET (S \X T))
  BY FS_Product, FS_SUBSET
<1>2. graph \in [[S -> T] -> SUBSET (S \X T)]
  OBVIOUS
<1>3. ASSUME NEW f \in [S -> T], NEW e \in [S -> T], graph[f] = graph[e] PROVE f = e
  <2>1. \A x \in S : <<x, f[x]>> \in graph[e]
    BY <1>3
  <2>2. \A x \in S : f[x] = e[x]
    BY <2>1
  <2> QED
    BY <2>2
<1>4. graph \in Injection([S -> T], SUBSET (S \X T))
  BY <1>2, <1>3 DEF Injection, IsInjective
<1> HIDE DEF graph
<1> QED
  BY <1>1, <1>4, FS_Injection

\* A sequence holds finitely many elements.
LEMMA ToSetIsFinite ==
    ASSUME NEW V, NEW s \in Seq(V)
    PROVE  IsFiniteSet(ToSet(s))
<1>1. 1 \in Int /\ Len(s) \in Int /\ DOMAIN s = 1 .. Len(s) /\ s = [i \in DOMAIN s |-> s[i]]
  OBVIOUS
<1>2. IsFiniteSet(DOMAIN s)
  BY <1>1, FS_Interval
<1>3. IsFiniteSet({s[i] : i \in DOMAIN s})
  BY <1>1, <1>2, ImageIsFinite
<1> QED
  BY <1>3 DEF ToSet

\* The tables of the plans.
Tabled(q) ==
    \A n \in ToSet(NodeList(q)) :
        /\ IsFiniteSet(db[Plan(q, n).target])
        /\ Plan(q, n).junction # NoJunction => IsFiniteSet(db[Plan(q, n).junction.table])

\* The joined rows of a row are finitely many combinations.
LEMMA TreesAreFinite ==
    ASSUME NEW q \in Requests, Tabled(q), NEW p, NEW row
    PROVE  IsFiniteSet(Trees(q, p, row))
<1> DEFINE nodes == ToSet(Joined(q, p))
           tables == [n \in nodes |-> db[Plan(q, n).target]]
           rows == {NoRow, row} \cup UNION {db[Plan(q, n).target] : n \in nodes}
<1>1. nodes \subseteq ToSet(NodeList(q)) /\ IsFiniteSet(nodes)
  <2> DEFINE S == {x \in ToSet(NodeList(q)) : /\ Len(x) > Len(p) /\ IsPrefix(p, x)
                                              /\ \A k \in Len(p) + 1 .. Len(x) : Inline(q, SubSeq(x, 1, k))}
  <2>1. Joined(q, p) = Among(S, NodeList(q)) /\ NodeList(q) \in Seq(Nodes)
    BY NodesAreDistinct DEF Joined
  <2> HIDE DEF S, Nodes
  <2>2. Joined(q, p) \in Seq(Nodes) /\ nodes = S \cap ToSet(NodeList(q))
    BY <2>1, AmongKeeps
  <2> QED
    BY <2>2, ToSetIsFinite
<1> HIDE DEF nodes
<1>2. IsFiniteSet({tables[n] : n \in nodes})
  <2>1. tables = [n \in nodes |-> tables[n]]
    OBVIOUS
  <2> HIDE DEF tables
  <2> QED
    BY <1>1, <2>1, ImageIsFinite
<1>3. {tables[n] : n \in nodes} = {db[Plan(q, n).target] : n \in nodes}
  OBVIOUS
<1>4. \A T \in {tables[n] : n \in nodes} : IsFiniteSet(T)
  BY <1>1 DEF Tabled
<1>5. IsFiniteSet(rows)
  <2>1. IsFiniteSet(UNION {tables[n] : n \in nodes})
    <3> DEFINE F == {tables[n] : n \in nodes}
    <3> HIDE DEF F
    <3>1. IsFiniteSet(F) /\ \A T \in F : IsFiniteSet(T)
      BY <1>2, <1>4 DEF F
    <3>2. IsFiniteSet(UNION F)
      BY <3>1, FS_UNION
    <3> QED
      BY <3>2 DEF F
  <2>2. IsFiniteSet({NoRow, row})
    <3>1. IsFiniteSet({NoRow}) /\ {NoRow} \cup {row} = {NoRow, row}
      BY FS_Singleton
    <3> QED
      BY <3>1, FS_AddElement
  <2> QED
    BY <1>3, <2>1, <2>2, FS_Union
<1> HIDE DEF rows
<1>6. IsFiniteSet([nodes \cup {p} -> rows])
  <2>1. IsFiniteSet(nodes \cup {p})
    BY <1>1, FS_AddElement
  <2> QED
    BY <1>5, <2>1, FunctionsAreFinite
<1>7. Trees(q, p, row) \in SUBSET [nodes \cup {p} -> rows]
  BY Zenon DEF Trees, nodes, rows
<1> QED
  BY <1>6, <1>7, FS_Subset

\* The rows a statement finds for its keys.
LEMMA AssociatedIsFinite ==
    ASSUME NEW rel, IsFiniteSet(db[rel.target]), rel.junction # NoJunction => IsFiniteSet(db[rel.junction.table]),
           NEW keys, NEW withDeleted
    PROVE  IsFiniteSet(Associated(db, rel, keys, withDeleted))
<1>1. CASE rel.junction = NoJunction
  <2> DEFINE T == {u \in db[rel.target] : KeyIn(u, rel.tgt, keys) /\ Visible(rel.target, u, withDeleted)}
             f == [t \in T |-> [key |-> KeyOf(t, rel.tgt), edge |-> t, row |-> t]]
  <2>1. Associated(db, rel, keys, withDeleted) = {[key |-> KeyOf(t, rel.tgt), edge |-> t, row |-> t] : t \in T}
    BY <1>1, Zenon DEF Associated
  <2>2. Associated(db, rel, keys, withDeleted) = {f[t] : t \in T}
    <3> HIDE DEF T
    <3> QED
      BY <2>1
  <2>3. IsFiniteSet(T)
    BY FS_Subset
  <2> HIDE DEF T
  <2>4. f = [t \in T |-> f[t]]
    OBVIOUS
  <2> HIDE DEF f
  <2>5. IsFiniteSet({f[t] : t \in T})
    BY <2>3, <2>4, ImageIsFinite
  <2> QED
    BY <2>2, <2>5
<1>2. CASE rel.junction # NoJunction
  <2> DEFINE P == db[rel.junction.table] \X db[rel.target]
             T == {q \in P :
                     /\ KeyIn(q[1], rel.junction.src, keys)
                     /\ Valid(KeyOf(q[1], rel.junction.tgt))
                     /\ KeyOf(q[1], rel.junction.tgt) = KeyOf(q[2], rel.tgt)
                     /\ Visible(rel.junction.table, q[1], withDeleted)
                     /\ Visible(rel.target, q[2], withDeleted)}
             f == [p \in T |-> [key |-> KeyOf(p[1], rel.junction.src), edge |-> p[1], row |-> p[2]]]
  <2>1. Associated(db, rel, keys, withDeleted)
          = {[key |-> KeyOf(p[1], rel.junction.src), edge |-> p[1], row |-> p[2]] : p \in T}
    BY <1>2, Zenon DEF Associated
  <2>2. Associated(db, rel, keys, withDeleted) = {f[p] : p \in T}
    <3> HIDE DEF T
    <3> QED
      BY <2>1
  <2>3. IsFiniteSet(T)
    <3>1. IsFiniteSet(P)
      BY <1>2, FS_Product
    <3> QED
      BY <3>1, FS_Subset
  <2> HIDE DEF T
  <2>4. f = [t \in T |-> f[t]]
    OBVIOUS
  <2> HIDE DEF f
  <2>5. IsFiniteSet({f[t] : t \in T})
    BY <2>3, <2>4, ImageIsFinite
  <2> QED
    BY <2>2, <2>5
<1> QED
  BY <1>1, <1>2

\* The rows of the SELECT.
LEMMA RootRowsAreFinite ==
    ASSUME NEW q \in Requests, Tabled(q), NEW visible, IsFiniteSet(visible)
    PROVE  IsFiniteSet(UNION {{[row |-> r, tree |-> t] : t \in Trees(q, <<>>, r)} : r \in visible})
<1>1. ASSUME NEW r PROVE IsFiniteSet({[row |-> r, tree |-> t] : t \in Trees(q, <<>>, r)})
  <2> DEFINE T == Trees(q, <<>>, r)
             f == [t \in T |-> [row |-> r, tree |-> t]]
  <2>1. IsFiniteSet(T)
    BY TreesAreFinite
  <2> HIDE DEF T
  <2>2. f = [t \in T |-> f[t]] /\ {f[t] : t \in T} = {[row |-> r, tree |-> t] : t \in T}
    OBVIOUS
  <2> HIDE DEF f
  <2>3. IsFiniteSet({f[t] : t \in T})
    BY <2>1, <2>2, ImageIsFinite
  <2> QED
    BY <2>2, <2>3 DEF T
<1> DEFINE g == [r \in visible |-> {[row |-> r, tree |-> t] : t \in Trees(q, <<>>, r)}]
           F == {g[r] : r \in visible}
<1>2. F = {{[row |-> r, tree |-> t] : t \in Trees(q, <<>>, r)} : r \in visible}
  OBVIOUS
<1>3. \A T \in F : IsFiniteSet(T)
  BY <1>1
<1>4. IsFiniteSet(F)
  <2>1. g = [r \in visible |-> g[r]]
    OBVIOUS
  <2> HIDE DEF g
  <2> QED
    BY <2>1, ImageIsFinite
<1> HIDE DEF F, g
<1>5. IsFiniteSet(UNION F)
  BY <1>3, <1>4, FS_UNION
<1> QED
  BY <1>2, <1>5

\* The rows of the statement of a batch.
RowsOfBatch(q, c, found) ==
    UNION {{[key |-> a.key, edge |-> a.edge, row |-> a.row, tree |-> t] : t \in Trees(q, c, a.row)} : a \in found}

\* The rows of a batch, joined rows included.
LEMMA BatchRowsAreFinite ==
    ASSUME NEW q \in Requests, Tabled(q), NEW c, NEW found, IsFiniteSet(found)
    PROVE  IsFiniteSet(RowsOfBatch(q, c, found))
<1>1. ASSUME NEW a
      PROVE  IsFiniteSet({[key |-> a.key, edge |-> a.edge, row |-> a.row, tree |-> t] : t \in Trees(q, c, a.row)})
  <2> DEFINE T == Trees(q, c, a.row)
             f == [t \in T |-> [key |-> a.key, edge |-> a.edge, row |-> a.row, tree |-> t]]
  <2>1. IsFiniteSet(T)
    BY TreesAreFinite
  <2> HIDE DEF T
  <2>2. f = [t \in T |-> f[t]]
        /\ {f[t] : t \in T} = {[key |-> a.key, edge |-> a.edge, row |-> a.row, tree |-> t] : t \in T}
    OBVIOUS
  <2> HIDE DEF f
  <2>3. IsFiniteSet({f[t] : t \in T})
    BY <2>1, <2>2, ImageIsFinite
  <2> QED
    BY <2>2, <2>3 DEF T
<1> DEFINE g == [a \in found |-> {[key |-> a.key, edge |-> a.edge, row |-> a.row, tree |-> t] : t \in Trees(q, c, a.row)}]
           F == {g[a] : a \in found}
<1>2. F = {{[key |-> a.key, edge |-> a.edge, row |-> a.row, tree |-> t] : t \in Trees(q, c, a.row)} : a \in found}
  OBVIOUS
<1>3. \A T \in F : IsFiniteSet(T)
  BY <1>1
<1>4. IsFiniteSet(F)
  <2>1. g = [a \in found |-> g[a]]
    OBVIOUS
  <2> HIDE DEF g
  <2> QED
    BY <2>1, ImageIsFinite
<1> HIDE DEF F, g
<1>5. IsFiniteSet(UNION F)
  BY <1>3, <1>4, FS_UNION
<1> QED
  BY <1>2, <1>5 DEF RowsOfBatch

\* An order the database may return them in is a sequence of them.
LEMMA OrdersAreSequences ==
    ASSUME NEW rows, IsFiniteSet(rows), NEW ordered, NEW s \in Orders(rows, ordered)
    PROVE  s \in Seq(rows) /\ Len(s) \in Nat
<1> DEFINE n == Cardinality(rows)
<1>1. n \in Nat
  BY FS_CardinalityType
<1>2. s \in [1 .. n -> rows]
  BY Zenon DEF Orders, SetToSeqs
<1> HIDE DEF n
<1> QED
  BY <1>1, <1>2

AfterRoots(all, q, s) ==
    all = [k \in 0 .. Len(s) |-> IF k = 0 THEN [heap |-> <<>>, ids |-> <<>>] ELSE WithRoot(all[k - 1], q, s[k].tree)]

\* The heaps after each root exist.
LEMMA AfterRootsExists ==
    ASSUME NEW q, NEW s, Len(s) \in Nat
    PROVE  \E all : AfterRoots(all, q, s)
<1> DEFINE n == Len(s)
           none == [heap |-> <<>>, ids |-> <<>>]
           After(G, m) == \A k \in 0 .. m : G[k] = IF k = 0 THEN none ELSE WithRoot(G[k - 1], q, s[k].tree)
           S == {m \in 0 .. n : \E G : After(G, m)}
<1> HIDE DEF none
<1>1. 0 \in S
  <2> DEFINE G == [k \in {0} |-> none]
  <2>1. After(G, 0)
    <3>1. \A k \in 0 .. 0 : k = 0 /\ G[k] = none
      OBVIOUS
    <3> QED
      BY <3>1
  <2> HIDE DEF G, After
  <2> QED
    BY <2>1
<1>2. ASSUME NEW m \in 0 .. n - 1, m \in S PROVE m + 1 \in S
  <2>1. PICK G : After(G, m)
    BY <1>2
  <2> DEFINE K == [k \in 0 .. m + 1 |-> IF k = m + 1 THEN WithRoot(G[m], q, s[k].tree) ELSE G[k]]
  <2>2. ASSUME NEW k \in 0 .. m + 1
        PROVE  K[k] = IF k = 0 THEN none ELSE WithRoot(K[k - 1], q, s[k].tree)
    <3>1. CASE k = m + 1
      <4>1. k # 0 /\ k - 1 = m /\ m \in 0 .. m + 1 /\ m # m + 1
        BY <3>1
      <4>2. K[k - 1] = G[m] /\ K[k] = WithRoot(G[m], q, s[k].tree)
        BY <3>1, <4>1
      <4> HIDE DEF K
      <4> QED
        BY <4>1, <4>2
    <3>2. CASE k # m + 1
      <4>1. k \in 0 .. m /\ K[k] = G[k]
        BY <3>2
      <4>2. k # 0 => K[k - 1] = G[k - 1]
        BY <4>1
      <4>3. G[k] = IF k = 0 THEN none ELSE WithRoot(G[k - 1], q, s[k].tree)
        BY <2>1, <4>1
      <4> HIDE DEF K
      <4> QED
        BY <4>1, <4>2, <4>3
    <3> QED
      BY <3>1, <3>2
  <2>3. After(K, m + 1)
    BY <2>2
  <2>4. m + 1 \in 0 .. n
    OBVIOUS
  <2> HIDE DEF K, After
  <2> QED
    BY <2>3, <2>4
<1>3. n \in S
  <2>1. n \in 0 .. n
    OBVIOUS
  <2> HIDE DEF S
  <2>2. \A k \in 0 .. n : k \in S
    BY <1>1, <1>2, UpTo
  <2> QED
    BY <2>1, <2>2
<1>4. PICK G : After(G, n)
  BY <1>3
<1> DEFINE K == [k \in 0 .. n |-> G[k]]
<1>5. K = [k \in 0 .. n |-> IF k = 0 THEN none ELSE WithRoot(K[k - 1], q, s[k].tree)]
  <2>1. ASSUME NEW k \in 0 .. n PROVE K[k] = IF k = 0 THEN none ELSE WithRoot(K[k - 1], q, s[k].tree)
    <3>1. K[k] = G[k] /\ (k # 0 => K[k - 1] = G[k - 1])
      OBVIOUS
    <3>2. G[k] = IF k = 0 THEN none ELSE WithRoot(G[k - 1], q, s[k].tree)
      BY <1>4
    <3> HIDE DEF K
    <3> QED
      BY <3>1, <3>2
  <2>2. K = [k \in 0 .. n |-> K[k]]
    OBVIOUS
  <2> HIDE DEF K
  <2> QED
    BY <2>1, <2>2
<1> HIDE DEF K
<1> QED
  BY <1>5 DEF AfterRoots, none

\* The roots of a SELECT are objects of the root.
LEMMA RootsAre ==
    ASSUME NEW q \in Requests, NEW s, Len(s) \in Nat, NEW all, AfterRoots(all, q, s)
    PROVE  LET a == all[Len(s)]
           IN  WellFormed(q, a.heap) /\ Lone(a.heap) /\ a.ids \in Seq(Of(q, a.heap, <<>>))
<1> DEFINE n == Len(s)
           Good(a) == WellFormed(q, a.heap) /\ Lone(a.heap) /\ a.ids \in Seq(Of(q, a.heap, <<>>))
           S == {k \in 0 .. n : Good(all[k])}
<1>1. 0 \in S
  <2>1. all[0] = [heap |-> <<>>, ids |-> <<>>]
    BY DEF AfterRoots
  <2>2. all[0].heap = <<>> /\ all[0].ids = <<>>
    BY <2>1
  <2>3. WellFormed(q, <<>>) /\ Lone(<<>>)
    BY DEF WellFormed, Lone
  <2>4. <<>> \in Seq(Of(q, <<>>, <<>>)) /\ 0 \in 0 .. n
    OBVIOUS
  <2>5. Good(all[0])
    BY <2>2, <2>3, <2>4
  <2> QED
    BY <2>4, <2>5
<1>2. ASSUME NEW k \in 0 .. n - 1, k \in S PROVE k + 1 \in S
  <2>1. k + 1 \in 0 .. n /\ k + 1 # 0 /\ (k + 1) - 1 = k
    OBVIOUS
  <2>2. all[k + 1] = WithRoot(all[k], q, s[k + 1].tree)
    BY <2>1 DEF AfterRoots
  <2>3. WellFormed(q, all[k].heap) /\ Lone(all[k].heap) /\ all[k].ids \in Seq(Of(q, all[k].heap, <<>>))
    BY <1>2
  <2> DEFINE h == all[k].heap
             g == Hydrate(h, q, <<>>, s[k + 1].tree)
             ids == all[k].ids
             A == Of(q, g, <<>>)
  <2>4. <<>> \in Nodes
    BY DEF Nodes
  <2>5. /\ WellFormed(q, g) /\ Grows(h, g) /\ Len(g) \in A
        /\ Scanned(h, g, s[k + 1].tree[<<>>])
    BY <2>3, <2>4, HydrateAdds
  <2>10. Lone(g)
    BY <2>3, <2>5 DEF Lone, Scanned
  <2>6. all[k + 1].heap = g /\ all[k + 1].ids = Append(ids, Len(g))
    BY <2>2 DEF WithRoot
  <2>7. ids \in Seq(A)
    <3>1. Seq(Of(q, h, <<>>)) \subseteq Seq(A)
      BY <2>5, GrowsFacts
    <3> QED
      BY <2>3, <3>1
  <2> HIDE DEF A, ids, g
  <2>8. Append(ids, Len(g)) \in Seq(A)
    BY <2>5, <2>7
  <2>9. Good(all[k + 1])
    BY <2>5, <2>6, <2>8, <2>10 DEF A
  <2> QED
    BY <2>1, <2>9
<1>3. n \in 0 .. n
  OBVIOUS
<1> HIDE DEF S
<1>4. \A k \in 0 .. n : k \in S
  BY <1>1, <1>2, UpTo
<1>5. n \in S
  BY <1>3, <1>4
<1> QED
  BY <1>5 DEF S

---------------------------------------------------------------------------
(* The objects a SELECT hands from one statement to the next.                *)

HeapInv ==
    /\ AccountsInv /\ original \in Databases
    /\ phase # "idle" => req \in Requests /\ req.model \in DOMAIN db
    /\ phase \in {"preload", "returned"} => WellFormed(req, heap)
    /\ \A i \in DOMAIN work : work[i].parents \in Seq(Above(heap, work[i].node))
    /\ run # Idle => run.parents \in Seq(Above(heap, run.node))

\* What holds of a SELECT between its statements.
LoadInv == HeapInv /\ BatchesInv

\* The tables a request reads are there and finite, whatever was written.
LEMMA TablesAreFinite ==
    ASSUME HeapInv, phase # "idle", ~CompileFails(req)
    PROVE  Tabled(req) /\ IsFiniteSet(db[req.model])
<1>1. DOMAIN db = DOMAIN original /\ original \in Databases /\ \A t \in DOMAIN db : IsFiniteSet(db[t])
  BY DEF HeapInv, AccountsInv
<1>2. req \in Requests /\ req.model \in DOMAIN db
  BY DEF HeapInv
<1>3. \A n \in ToSet(NodeList(req)) :
         /\ Plan(req, n).target \in DOMAIN db
         /\ Plan(req, n).junction # NoJunction => Plan(req, n).junction.table \in DOMAIN db
  BY <1>1, <1>2, TablesAssumption
<1> QED
  BY <1>1, <1>2, <1>3 DEF Tabled

\* Batches name plans.
LEMMA StartedIsTyped ==
    ASSUME batches \in Seq(Batch)
    PROVE  {b.node : b \in ToSet(batches)} \subseteq Nodes
<1>1. \A b \in ToSet(batches) : b \in Batch
  BY SeqOfItself
<1> QED
  BY <1>1 DEF Batch, Nodes

\* A SELECT without a batch has nothing unfinished.
LEMMA NothingIsDone ==
    ASSUME batches = <<>>
    PROVE  \A n : Mine(n) = <<>> /\ Done(n)
<1>1. batches \in Seq(Batch) /\ ToSet(batches) = {}
  BY DEF ToSet
<1>2. \A n : Mine(n) = <<>>
  BY <1>1, MineIsNone
<1> QED
  BY <1>2 DEF Done

\* The invariant holds of a SELECT that has not begun.
LEMMA LoadInvInit == WriteInit /\ PreloadInit => LoadInv
<1> SUFFICES ASSUME WriteInit, PreloadInit PROVE LoadInv
  OBVIOUS
<1>1. AccountsInv /\ original \in Databases
  BY AccountsInit DEF WriteInit
<1>2. /\ batches = <<>> /\ read = {} /\ work = <<>> /\ run = Idle /\ heap = <<>>
      /\ (req = NoRequest /\ phase = "idle") \/ (req \in Requests /\ req.model \in DOMAIN db /\ phase \in {"idle", "compile"})
  BY DEF PreloadInit
<1>3. DOMAIN <<>> = {} /\ <<>> \in Seq(Batch)
  OBVIOUS
<1>4. HeapInv
  BY <1>1, <1>2, <1>3 DEF HeapInv
<1>5. BatchesInv
  BY <1>2, <1>3, NothingIsDone DEF BatchesInv
<1> QED
  BY <1>4, <1>5 DEF LoadInv

\* Nothing but the phase, in a behaviour that ends or begins its statements.
LEMMA LoadInvStays ==
    ASSUME LoadInv, [Write]_writeVars, UNCHANGED <<req, heap, work, run, read, batches>>,
           phase' = phase \/ (phase = "compile" /\ phase' \in {"select", "failed"} /\ (phase' = "select" => ~CompileFails(req)))
                          \/ (phase \in {"select", "preload"} /\ phase' = "failed")
                          \/ (phase = "preload" /\ phase' = "returned" /\ run = Idle)
    PROVE  LoadInv'
<1> USE DEF LoadInv
<1>1. AccountsInv' /\ original' = original /\ DOMAIN db' = DOMAIN db
  <2>1. AccountsInv'
    BY AccountsStep DEF HeapInv
  <2>2. original' = original
    BY DEF Write, writeVars, RefuseMutation, SkipMutation, FailMutation, ExecMutation, Change
  <2>3. DOMAIN original = DOMAIN db
    BY DEF HeapInv, AccountsInv
  <2>4. DOMAIN original' = DOMAIN db'
    BY <2>1 DEF AccountsInv
  <2> QED
    BY <2>1, <2>2, <2>3, <2>4
<1>2. HeapInv'
  BY <1>1 DEF HeapInv
<1>3. /\ Started' = Started /\ Reading' = Reading /\ \A c : Done(c)' = Done(c)
  BY BatchesStay
<1>4. Waiting => Waiting'
  BY <1>3 DEF Waiting
<1>5. phase = "compile" => Waiting
  <2> SUFFICES ASSUME phase = "compile" PROVE Waiting
    OBVIOUS
  <2>1. work = <<>> /\ run = Idle /\ batches = <<>> /\ read = {}
    BY DEF BatchesInv
  <2>2. DOMAIN <<>> = {} /\ <<>> \in Seq(ToSet(<<>>))
    OBVIOUS
  <2> QED
    BY <2>1, <2>2 DEF Waiting
<1>6. BatchesInv'
  BY <1>3, <1>4, <1>5 DEF BatchesInv
<1> QED
  BY <1>2, <1>6

\* The root rows, hydrated.
LEMMA RootsFound ==
    ASSUME LoadInv, SelectRoots
    PROVE  /\ WellFormed(req, heap') /\ Lone(heap') /\ roots' \in Seq(Of(req, heap', <<>>))
           /\ work' = Tasks(req, <<>>, roots')
<1>1. /\ HeapInv /\ BatchesInv /\ phase = "select" /\ phase' = "preload"
      /\ UNCHANGED <<writeVars, req, run, read, batches>>
  BY DEF LoadInv, SelectRoots
<1>2. /\ work = <<>> /\ run = Idle /\ batches = <<>> /\ read = {} /\ req \in Requests /\ ~CompileFails(req)
  BY <1>1 DEF BatchesInv
<1> DEFINE visible == {r \in db[req.model] : /\ Visible(req.model, r, req.rootDeleted)
                                             /\ req.unfiltered \/ r.id \in req.only}
           rows == UNION {{[row |-> r, tree |-> t] : t \in Trees(req, <<>>, r)} : r \in visible}
<1>3. PICK s \in Orders(rows, FALSE) :
         LET all[k \in 0 .. Len(s)] ==
                 IF k = 0 THEN [heap |-> <<>>, ids |-> <<>>] ELSE WithRoot(all[k - 1], req, s[k].tree)
         IN  /\ heap' = all[Len(s)].heap
             /\ roots' = all[Len(s)].ids
             /\ work' = Tasks(req, <<>>, roots')
  BY Zenon DEF SelectRoots
<1> DEFINE all == CHOOSE it : AfterRoots(it, req, s)
           a == all[Len(s)]
<1>4. heap' = a.heap /\ roots' = a.ids /\ work' = Tasks(req, <<>>, roots')
  BY <1>3, Zenon DEF AfterRoots
<1>5. Len(s) \in Nat
  <2>1. Tabled(req) /\ IsFiniteSet(db[req.model])
    BY <1>1, <1>2, TablesAreFinite
  <2>2. IsFiniteSet(visible)
    BY <2>1, FS_Subset
  <2> HIDE DEF visible
  <2>3. IsFiniteSet(rows)
    BY <1>2, <2>1, <2>2, RootRowsAreFinite
  <2> QED
    BY <1>3, <2>3, OrdersAreSequences
<1> HIDE DEF rows
<1>6. AfterRoots(all, req, s)
  BY <1>5, AfterRootsExists
<1> HIDE DEF all
<1>7. WellFormed(req, heap') /\ Lone(heap') /\ roots' \in Seq(Of(req, heap', <<>>))
  <2>1. WellFormed(req, a.heap) /\ Lone(a.heap) /\ a.ids \in Seq(Of(req, a.heap, <<>>))
    BY <1>2, <1>5, <1>6, RootsAre
  <2> HIDE DEF a
  <2> QED
    BY <1>4, <2>1
<1> QED
  BY <1>4, <1>7

\* The root rows: nothing is started, and the children of the root are to do.
LEMMA SelectKeeps == LoadInv /\ SelectRoots => LoadInv'
<1> SUFFICES ASSUME LoadInv, SelectRoots PROVE LoadInv'
  OBVIOUS
<1>1. /\ HeapInv /\ BatchesInv /\ phase = "select" /\ phase' = "preload"
      /\ UNCHANGED <<writeVars, req, run, read, batches>>
  BY DEF LoadInv, SelectRoots
<1>2. /\ work = <<>> /\ run = Idle /\ batches = <<>> /\ read = {} /\ req \in Requests /\ ~CompileFails(req)
  BY <1>1 DEF BatchesInv
<1>7. WellFormed(req, heap') /\ roots' \in Seq(Of(req, heap', <<>>)) /\ work' = Tasks(req, <<>>, roots')
  BY RootsFound
<1> DEFINE t == Tasks(req, <<>>, roots')
<1>8. /\ t \in Seq(ToSet(t))
      /\ \A i \in DOMAIN t : /\ t[i].node \in Nodes /\ t[i].node \in ToSet(NodeList(req))
                             /\ Len(t[i].node) = Len(<<>>) + 1
      /\ \A i, j \in DOMAIN t : i # j => ~IsPrefix(t[i].node, t[j].node)
  <2>1. /\ t \in Seq(ToSet(t))
        /\ \A i \in DOMAIN t : /\ t[i].node \in Nodes /\ t[i].node \in ToSet(NodeList(req))
                               /\ Len(t[i].node) = Len(<<>>) + 1
    BY <1>2, TasksAreChildren
  <2>2. \A i, j \in DOMAIN t : i # j => ~IsPrefix(t[i].node, t[j].node)
    BY <1>2, TasksApart
  <2> QED
    BY <2>1, <2>2
<1>9. \A i \in DOMAIN t : t[i].parents \in Seq(Above(heap', t[i].node))
  BY <1>2, <1>7, TasksHaveParents
<1> HIDE DEF t
<1>10. work' = t
  BY <1>7 DEF t
<1>11. Started' = {}
  BY <1>1, <1>2 DEF Started, ToSet
<1>12. Waiting'
  <2>1. \A i \in DOMAIN t : t[i].node # <<>>
    <3>1. Len(<<>>) = 0 /\ Len(<<>>) + 1 # 0
      OBVIOUS
    <3> QED
      BY <1>8, <3>1
  <2> QED
    BY <1>1, <1>8, <1>10, <1>11, <2>1 DEF Waiting
<1>13. HeapInv'
  <2>1. AccountsInv' /\ original' = original /\ db' = db
    BY <1>1, AccountsStep DEF HeapInv, writeVars
  <2> QED
    BY <1>1, <1>2, <1>7, <1>9, <1>10, <2>1 DEF HeapInv
<1>14. BatchesInv'
  <2>1. \A n : Done(n)' = Done(n)
    BY <1>1, BatchesStay
  <2> QED
    BY <1>1, <1>2, <1>12, <2>1, NothingIsDone DEF BatchesInv
<1> QED
  BY <1>13, <1>14 DEF LoadInv

\* The head and the tail of a sequence that is not empty.
LEMMA HeadAndTail ==
    ASSUME NEW s, s \in Seq(ToSet(s)), s # <<>>
    PROVE  /\ 1 \in DOMAIN s /\ Head(s) = s[1] /\ Tail(s) \in Seq(ToSet(s)) /\ DOMAIN s = 1 .. Len(s) /\ Len(s) \in Nat
           /\ \A i \in DOMAIN Tail(s) : i + 1 \in DOMAIN s /\ Tail(s)[i] = s[i + 1]
<1> DEFINE V == ToSet(s)
<1> HIDE DEF V
<1>1. s \in Seq(V)
  BY DEF V
<1>2. /\ 1 \in DOMAIN s /\ Head(s) = s[1] /\ Tail(s) \in Seq(V) /\ DOMAIN s = 1 .. Len(s) /\ Len(s) \in Nat
      /\ \A i \in DOMAIN Tail(s) : i + 1 \in DOMAIN s /\ Tail(s)[i] = s[i + 1]
  BY <1>1
<1> QED
  BY <1>2 DEF V

\* Whatever holds of two sequences holds of one after the other.
ComesFrom(w, s, t) ==
    \A i \in DOMAIN w : (\E k \in DOMAIN s : w[i] = s[k]) \/ (\E k \in DOMAIN t : w[i] = t[k])

\* The elements of two sequences, one after the other.
LEMMA JoinedElements ==
    ASSUME NEW A, NEW B, NEW s, NEW t, s \in Seq(A), t \in Seq(B)
    PROVE  ComesFrom(s \o t, s, t)
<1> SUFFICES ASSUME NEW i \in DOMAIN (s \o t)
             PROVE  (\E k \in DOMAIN s : (s \o t)[i] = s[k]) \/ (\E k \in DOMAIN t : (s \o t)[i] = t[k])
  BY DEF ComesFrom
<1> DEFINE V == A \cup B
<1>1. s \in Seq(V) /\ t \in Seq(V)
  OBVIOUS
<1> HIDE DEF V
<1>2. /\ s \o t \in Seq(V) /\ Len(s \o t) = Len(s) + Len(t)
      /\ \A k \in 1 .. Len(s) : (s \o t)[k] = s[k]
      /\ \A k \in Len(s) + 1 .. Len(s) + Len(t) : (s \o t)[k] = t[k - Len(s)]
  BY <1>1, JoinedSequences
<1>3. /\ Len(s) \in Nat /\ Len(t) \in Nat /\ DOMAIN s = 1 .. Len(s) /\ DOMAIN t = 1 .. Len(t)
      /\ DOMAIN (s \o t) = 1 .. Len(s) + Len(t)
  BY <1>1, <1>2
<1>4. CASE i \in 1 .. Len(s)
  BY <1>2, <1>3, <1>4
<1>5. CASE i \notin 1 .. Len(s)
  <2>1. i \in Len(s) + 1 .. Len(s) + Len(t) /\ i - Len(s) \in 1 .. Len(t)
    BY <1>3, <1>5
  <2> QED
    BY <1>2, <1>3, <2>1
<1> QED
  BY <1>4, <1>5

\* What was started are plans.
LEMMA StartedAreNodes == ASSUME BatchesInv PROVE Started \subseteq Nodes
<1>1. batches \in Seq(Batch) /\ \A y \in read : y.node \in Nodes
  BY DEF BatchesInv, Nodes
<1>2. {b.node : b \in ToSet(batches)} \subseteq Nodes
  BY <1>1, StartedIsTyped
<1> QED
  BY <1>1, <1>2 DEF Started

\* Executing a plan ends with the plans below it before the others.
LEMMA BelowKeeps ==
    ASSUME LoadInv, phase = "preload", phase' = phase, work # <<>>, run' = Idle,
           UNCHANGED <<writeVars, req, heap, read, batches>>,
           NEW parents \in Seq(Above(heap, Head(work).node)),
           work' = Tasks(req, Head(work).node, Targets(heap, Head(work).node, parents)) \o Tail(work),
           run # Idle => run.node = Head(work).node,
           \A n \in ToSet(NodeList(req)) : Done(n)
    PROVE  LoadInv'
<1> DEFINE c == Head(work).node
           below == Targets(heap, c, parents)
           t == Tasks(req, c, below)
<1>1. /\ HeapInv /\ BatchesInv /\ req \in Requests /\ WellFormed(req, heap) /\ Waiting
      /\ work \in Seq(ToSet(work))
  <2>1. HeapInv /\ BatchesInv
    BY DEF LoadInv
  <2>2. Waiting
    BY <2>1 DEF BatchesInv
  <2> QED
    BY <2>1, <2>2 DEF HeapInv, BatchesInv, Waiting
<1>2. 1 \in DOMAIN work /\ Head(work) = work[1] /\ Tail(work) \in Seq(ToSet(work))
      /\ \A i \in DOMAIN Tail(work) : i + 1 \in DOMAIN work /\ Tail(work)[i] = work[i + 1]
  BY <1>1, HeadAndTail
<1>4. below \in Seq(Of(req, heap, c))
  BY <1>1, TargetsAre
<1>5. \A i \in DOMAIN t : t[i].parents \in Seq(Above(heap, t[i].node))
  <2> HIDE DEF below, c
  <2> QED
    BY <1>1, <1>4, TasksHaveParents
<1>6. t \in Seq(ToSet(t))
  BY <1>1, TasksAreChildren
<1>7. Started' = Started /\ (\A n : Done(n)' = Done(n)) /\ Started \subseteq Nodes
  BY <1>1, BatchesStay, StartedAreNodes
<1>8. Waiting'
  BY <1>1, <1>7, WaitingBelow
<1>9. work' = t \o Tail(work)
  OBVIOUS
<1> HIDE DEF t
<1>10. \A i \in DOMAIN work' : work'[i].parents \in Seq(Above(heap, work'[i].node))
  <2> SUFFICES ASSUME NEW i \in DOMAIN work' PROVE work'[i].parents \in Seq(Above(heap, work'[i].node))
    OBVIOUS
  <2>1. (\E k \in DOMAIN t : work'[i] = t[k]) \/ (\E k \in DOMAIN Tail(work) : work'[i] = Tail(work)[k])
    <3> DEFINE u == Tail(work)
               A == ToSet(t)
               B == ToSet(work)
    <3>1. t \in Seq(A) /\ u \in Seq(B)
      BY <1>2, <1>6
    <3> HIDE DEF A, B, u
    <3>2. ComesFrom(t \o u, t, u)
      BY <3>1, JoinedElements
    <3> QED
      BY <1>9, <3>2 DEF u, ComesFrom
  <2>2. \A k \in DOMAIN Tail(work) : Tail(work)[k].parents \in Seq(Above(heap, Tail(work)[k].node))
    BY <1>1, <1>2 DEF HeapInv
  <2> QED
    BY <1>5, <2>1, <2>2
<1>11. HeapInv'
  <2>1. AccountsInv' /\ original' = original /\ db' = db
    BY <1>1, AccountsStep DEF HeapInv, writeVars
  <2> QED
    BY <1>1, <1>10, <2>1 DEF HeapInv
<1>12. BatchesInv'
  BY <1>1, <1>7, <1>8 DEF BatchesInv
<1> QED
  BY <1>11, <1>12 DEF LoadInv

\* A relation loaded inline has no statement; its children are to do.
LEMMA PassKeeps == LoadInv /\ PassInline => LoadInv'
<1> SUFFICES ASSUME LoadInv, PassInline PROVE LoadInv'
  OBVIOUS
<1>1. /\ phase = "preload" /\ run = Idle /\ work # <<>> /\ run' = Idle /\ phase' = phase
      /\ UNCHANGED <<writeVars, req, heap, read, batches>>
      /\ work' = Tasks(req, Head(work).node, Targets(heap, Head(work).node, Head(work).parents)) \o Tail(work)
  BY DEF PassInline
<1>2. (\A n \in ToSet(NodeList(req)) : Done(n)) /\ work \in Seq(ToSet(work))
  BY <1>1 DEF LoadInv, BatchesInv, Waiting
<1>3. Head(work).parents \in Seq(Above(heap, Head(work).node))
  <2>1. 1 \in DOMAIN work /\ Head(work) = work[1]
    BY <1>1, <1>2, HeadAndTail
  <2>2. work[1].parents \in Seq(Above(heap, work[1].node))
    BY <2>1 DEF LoadInv, HeapInv
  <2> QED
    BY <2>1, <2>2
<1> QED
  BY <1>1, <1>2, <1>3, BelowKeeps

\* A collection whose keys are all read is done.
LEMMA FinishKeeps == LoadInv /\ FinishCollection => LoadInv'
<1> SUFFICES ASSUME LoadInv, FinishCollection PROVE LoadInv'
  OBVIOUS
<1> DEFINE c == run.node
           n == Len(run.keys)
           m == Len(Mine(c))
           b == BatchSize(req, c)
<1>1. /\ phase = "preload" /\ run # Idle /\ run.start = n /\ run' = Idle /\ phase' = phase
      /\ UNCHANGED <<writeVars, req, heap, read, batches>>
      /\ work' = Tasks(req, run.node, Targets(heap, run.node, run.parents)) \o Tail(work)
  BY DEF FinishCollection
<1>2. /\ HeapInv /\ BatchesInv /\ Waiting /\ Reading /\ req \in Requests /\ ~CompileFails(req)
      /\ work # <<>> /\ run.node = work[1].node /\ work \in Seq(ToSet(work))
  BY <1>1 DEF LoadInv, BatchesInv, Waiting
<1>3. Head(work) = work[1] /\ 1 \in DOMAIN work
  BY <1>2, HeadAndTail
<1>4. run.parents \in Seq(Above(heap, Head(work).node)) /\ run.node = Head(work).node
  BY <1>1, <1>2, <1>3 DEF HeapInv
<1>5. /\ run.keys \in Seq(ToSet(run.keys)) /\ IsInjective(run.keys) /\ n \in Nat
      /\ KeysRead(c) = {run.keys[i] : i \in 1 .. n}
      /\ Says(c, run.count, n) /\ Sum(RowsOf(Mine(c))) = n
      /\ LoadAll(req, c)  => run.count = 1 /\ m = (IF n = 0 THEN 0 ELSE 1)
      /\ ~LoadAll(req, c) => /\ run.count = (n + b - 1) \div b
                             /\ n = IF m * b < n THEN m * b ELSE n
                             /\ m = 0 \/ (m - 1) * b < n
  BY <1>1, <1>2 DEF Reading
<1>6. Cardinality(KeysRead(c)) = n
  BY <1>5, KeysCounted
<1>7. Mine(c) \in Seq(Batch) /\ m \in Nat /\ (m = 0 => Mine(c) = <<>>)
  <2>1. batches \in Seq(Batch)
    BY <1>2 DEF BatchesInv
  <2> DEFINE S == {x \in ToSet(batches) : x.node = c}
  <2>2. Mine(c) = Among(S, batches)
    BY DEF Mine
  <2> HIDE DEF S, Batch
  <2>3. Mine(c) \in Seq(Batch)
    BY <2>1, <2>2, AmongKeeps
  <2> QED
    BY <2>3
<1>8. b \in Nat \ {0}
  BY <1>2, <1>3, BatchFits DEF Waiting
<1> HIDE DEF m, n, b
<1>9. Mine(c) # <<>> => run.count = m
  <2> SUFFICES ASSUME m # 0 PROVE run.count = m
    BY <1>7
  <2>1. CASE LoadAll(req, c)
    BY <1>5, <2>1
  <2>2. CASE ~LoadAll(req, c)
    <3>1. m * b \in Nat /\ (m - 1) * b < n /\ n = IF m * b < n THEN m * b ELSE n
      BY <1>5, <1>7, <1>8, <2>2
    <3>2. n <= m * b
      BY <1>5, <3>1
    <3> QED
      BY <1>5, <1>7, <1>8, <2>2, <3>1, <3>2, CeilingIs
  <2> QED
    BY <2>1, <2>2
<1>10. Done(c)
  BY <1>5, <1>6, <1>9 DEF Done, m
<1>11. \A x \in ToSet(NodeList(req)) : Done(x)
  BY <1>2, <1>10 DEF BatchesInv
<1> HIDE DEF c
<1> QED
  BY <1>1, <1>2, <1>4, <1>11, BelowKeeps

\* A collection that is begun was not started.
LEMMA PrepareKeeps == LoadInv /\ PrepareCollection => LoadInv'
<1> SUFFICES ASSUME LoadInv, PrepareCollection PROVE LoadInv'
  OBVIOUS
<1> DEFINE c == Head(work).node
           parents == Head(work).parents
           cleared == [o \in DOMAIN heap |-> IF o \in ToSet(parents) THEN [heap[o] EXCEPT !.rel[c] = <<>>] ELSE heap[o]]
           found == [i \in DOMAIN parents |-> KeyOf(heap[parents[i]].row, Plan(req, c).src)]
           S == {k \in ToSet(found) : Valid(k)}
           keys == Distinct(Among(S, found))
           n == Len(keys)
           b == BatchSize(req, c)
           begun == [node |-> c, parents |-> parents, keys |-> keys, start |-> 0,
                     count |-> IF LoadAll(req, c) THEN 1 ELSE (n + b - 1) \div b]
<1>1. /\ phase = "preload" /\ run = Idle /\ work # <<>> /\ heap' = cleared /\ run' = begun
      /\ UNCHANGED <<writeVars, req, phase, roots, work, read, batches>>
  BY Zenon DEF PrepareCollection
<1>2. /\ HeapInv /\ BatchesInv /\ Waiting /\ req \in Requests /\ ~CompileFails(req)
      /\ WellFormed(req, heap) /\ work \in Seq(ToSet(work))
  <2>1. HeapInv /\ BatchesInv
    BY DEF LoadInv
  <2>2. Waiting
    BY <1>1, <2>1 DEF BatchesInv
  <2> QED
    BY <1>1, <2>1, <2>2 DEF HeapInv, BatchesInv, Waiting
<1>3. 1 \in DOMAIN work /\ Head(work) = work[1]
  BY <1>1, <1>2, HeadAndTail
<1>4. parents \in Seq(Above(heap, c))
  <2>1. work[1].parents \in Seq(Above(heap, work[1].node))
    BY <1>2, <1>3 DEF HeapInv
  <2> QED
    BY <1>3, <2>1
<1>5. keys \in Seq(ToSet(keys)) /\ IsInjective(keys) /\ n \in Nat
  <2>1. found \in Seq(ToSet(found))
    <3>1. Len(parents) \in Nat /\ DOMAIN parents = 1 .. Len(parents)
      BY <1>4
    <3>2. found = [i \in 1 .. Len(parents) |-> found[i]]
      BY <3>1
    <3> HIDE DEF found, parents
    <3> QED
      BY <3>1, <3>2, IsSequence
  <2> DEFINE V == ToSet(found)
  <2> HIDE DEF found, V, S
  <2>2. found \in Seq(V)
    BY <2>1 DEF V
  <2>3. Among(S, found) \in Seq(V)
    BY <2>2, AmongKeeps
  <2>4. keys \in Seq(V) /\ IsInjective(keys)
    BY <2>3, DistinctKeeps
  <2> QED
    BY <2>4, SeqOfItself
<1> HIDE DEF keys, cleared
<1>6. c \notin Started /\ c # <<>> /\ c \in ToSet(NodeList(req)) /\ c \in Nodes
  <2>1. c \in ToSet(NodeList(req)) /\ c # <<>>
    BY <1>2, <1>3 DEF Waiting
  <2>2. c \in Nodes
    BY <1>2, <2>1, NodeInList
  <2>3. IsPrefix(c, c)
    <3> HIDE DEF c
    <3> QED
      BY <2>2, PrefixFacts
  <2>4. \A x \in Started : ~IsPrefix(c, x)
    BY <1>1, <1>2, <1>3 DEF Waiting
  <2> QED
    BY <2>1, <2>2, <2>3, <2>4
<1>7. batches \in Seq(Batch)
  BY <1>2 DEF BatchesInv
<1>8. Mine(c) = <<>> /\ KeysRead(c) = {}
  <2>1. c \notin {x.node : x \in ToSet(batches)} /\ c \notin {y.node : y \in read}
    BY <1>6 DEF Started
  <2>2. Mine(c) = <<>>
    BY <1>7, <2>1, MineIsNone
  <2>3. KeysRead(c) = {}
    BY <2>1 DEF KeysRead
  <2> QED
    BY <2>2, <2>3
<1>9. Started' = Started /\ \A x : Mine(x)' = Mine(x) /\ KeysRead(x)' = KeysRead(x) /\ Done(x)' = Done(x)
  BY <1>1, BatchesStay
<1>10. /\ run' # Idle /\ run'.node = c /\ run'.keys = keys /\ run'.start = 0 /\ run'.parents = parents
       /\ run'.count = (IF LoadAll(req, c) THEN 1 ELSE (n + b - 1) \div b)
       /\ DOMAIN run' = {"node", "parents", "keys", "start", "count"}
  BY <1>1, <1>6 DEF Idle
<1>11. b \in Nat \ {0}
  BY <1>2, <1>6, BatchFits
<1>12. \E x, ks : x = c /\ ks = keys
  OBVIOUS
<1> HIDE DEF c, n, b, parents, begun
<1>13. Reading'
  <2>1. PICK x, ks : x = c /\ ks = keys
    BY <1>12
  <2> DEFINE k == Len(ks)
  <2>2. /\ run'.node = x /\ run'.keys = ks /\ run'.start = 0 /\ req' = req
        /\ run'.count = (IF LoadAll(req, x) THEN 1 ELSE (k + BatchSize(req, x) - 1) \div BatchSize(req, x))
        /\ DOMAIN run' = {"node", "parents", "keys", "start", "count"}
    BY <1>1, <1>10, <2>1 DEF n, b
  <2>3. /\ ks \in Seq(ToSet(ks)) /\ IsInjective(ks) /\ k \in Nat /\ BatchSize(req, x) \in Nat \ {0}
    BY <1>5, <1>11, <2>1 DEF n, b
  <2>4. Mine(x)' = <<>> /\ KeysRead(x)' = {}
    BY <1>8, <1>9, <2>1
  <2>5. Sum(RowsOf(<<>>)) = 0 /\ Len(<<>>) = 0 /\ DOMAIN <<>> = {}
    <3>1. RowsOf(<<>>) = <<>>
      BY DEF RowsOf
    <3> QED
      BY <3>1, SumOfEmpty
  <2>6. {ks[i] : i \in 1 .. 0} = {} /\ (IF 0 * BatchSize(req, x) < k THEN 0 * BatchSize(req, x) ELSE k) = 0 /\ 0 \in 0 .. k
    BY <2>3
  <2>7. \A m : Says(x, m, k)'
    BY <2>4, <2>5 DEF Says
  <2>8. Sum(RowsOf(Mine(x)))' = 0 /\ Len(Mine(x))' = 0
    BY <2>4, <2>5 DEF RowsOf
  <2> HIDE DEF k
  <2>9. Says(run.node, run.count, Len(run.keys))'
    BY <2>2, <2>7 DEF k, Says, Width
  <2>10. Mine(run.node)' = Mine(x)' /\ KeysRead(run.node)' = KeysRead(x)'
    BY <2>2 DEF Mine, KeysRead
  <2>11. Sum(RowsOf(Mine(run.node)))' = 0 /\ Len(Mine(run.node))' = 0
    BY <2>4, <2>5, <2>10 DEF RowsOf
  <2> QED
    BY <2>2, <2>3, <2>4, <2>6, <2>9, <2>10, <2>11 DEF Reading, k
<1>14. Waiting'
  BY <1>1, <1>2, <1>9 DEF Waiting
<1>15. BatchesInv'
  <2>1. run'.node = work'[1].node /\ work' # <<>>
    BY <1>1, <1>3, <1>10 DEF c
  <2> QED
    BY <1>1, <1>2, <1>9, <1>10, <1>13, <1>14, <2>1 DEF BatchesInv
<1>16. HeapInv'
  <2>1. AccountsInv' /\ original' = original /\ db' = db
    BY <1>1, <1>2, AccountsStep DEF HeapInv, writeVars
  <2>2. WellFormed(req, heap') /\ Grows(heap, heap')
    <3> DEFINE x == c
               P == ToSet(parents)
    <3> HIDE DEF x, P
    <3>1. WellFormed(req, cleared) /\ Grows(heap, cleared)
      <4>1. Resets(cleared, heap, x, P)
        BY Zenon DEF Resets, cleared, x, P
      <4> QED
        BY <1>2, <4>1, ResetKeeps
    <3> QED
      BY <1>1, <3>1
  <2>3. \A x : Seq(Above(heap, x)) \subseteq Seq(Above(heap', x))
    BY <2>2, GrowsFacts
  <2>4. run'.parents \in Seq(Above(heap', run'.node))
    BY <1>4, <1>10, <2>3
  <2>5. \A i \in DOMAIN work : work[i].parents \in Seq(Above(heap', work[i].node))
    BY <1>2, <2>3 DEF HeapInv
  <2> QED
    BY <1>1, <1>2, <2>1, <2>2, <2>4, <2>5 DEF HeapInv
<1> QED
  BY <1>15, <1>16 DEF LoadInv

\* A part of a sequence, element by element.
LEMMA SubSeqIs ==
    ASSUME NEW V, NEW s \in Seq(V), NEW a \in 1 .. Len(s) + 1, NEW e \in a - 1 .. Len(s)
    PROVE  /\ SubSeq(s, a, e) \in Seq(V) /\ Len(SubSeq(s, a, e)) = e - a + 1
           /\ \A i \in 1 .. e - a + 1 : SubSeq(s, a, e)[i] = s[a + i - 1]
OBVIOUS

\* What a slice of a sequence holds.
IsSlice(t, s, from, to) ==
    Len(t) = to - from /\ \A x : x \in ToSet(t) <=> \E i \in from + 1 .. to : x = s[i]

\* It does: what is between the two positions.
LEMMA SliceIs ==
    ASSUME NEW V, NEW s \in Seq(V), NEW from \in Nat, NEW to \in Nat, from < to, to <= Len(s),
           NEW t, t = SubSeq(s, from + 1, to)
    PROVE  IsSlice(t, s, from, to)
<1>1. from + 1 \in 1 .. Len(s) + 1 /\ to \in (from + 1) - 1 .. Len(s)
  OBVIOUS
<1>2. PICK a : a = from + 1 /\ t = SubSeq(s, a, to)
  OBVIOUS
<1>3. t \in Seq(V) /\ Len(t) = to - a + 1 /\ \A i \in 1 .. to - a + 1 : t[i] = s[a + i - 1]
  <2>1. a \in 1 .. Len(s) + 1 /\ to \in a - 1 .. Len(s)
    BY <1>1, <1>2
  <2> QED
    BY <1>2, <2>1, SubSeqIs
<1>4. Len(t) = to - from /\ DOMAIN t = 1 .. to - from /\ \A i \in 1 .. to - from : t[i] = s[from + i]
  <2>1. to - a + 1 = to - from /\ \A i \in 1 .. to - from : a + i - 1 = from + i
    BY <1>2
  <2> QED
    BY <1>3, <2>1
<1>5. ToSet(t) = {s[i] : i \in from + 1 .. to}
  <2>1. \A i \in 1 .. to - from : from + i \in from + 1 .. to
    OBVIOUS
  <2>2. \A i \in from + 1 .. to : i - from \in 1 .. to - from /\ from + (i - from) = i
    OBVIOUS
  <2>3. ToSet(t) = {t[i] : i \in 1 .. to - from}
    BY <1>4 DEF ToSet
  <2>4. ASSUME NEW i \in 1 .. to - from PROVE t[i] \in {s[k] : k \in from + 1 .. to}
    BY <1>4, <2>1
  <2>5. ASSUME NEW k \in from + 1 .. to PROVE s[k] \in {t[i] : i \in 1 .. to - from}
    <3>1. t[k - from] = s[from + (k - from)]
      BY <1>4, <2>2
    <3> QED
      BY <2>2, <3>1
  <2> QED
    BY <2>3, <2>4, <2>5
<1> QED
  BY <1>2, <1>4, <1>5 DEF IsSlice

\* The keys of the next statement are those behind start.
LEMMA NextKeysAre ==
    ASSUME NEW ks, NEW start, NEW b, NEW end,
           ks = run.keys, start = run.start, b = BatchSize(req, run.node),
           end = (IF LoadAll(req, run.node) \/ start + b >= Len(ks) THEN Len(ks) ELSE start + b),
           ks \in Seq(ToSet(ks)), start \in 0 .. Len(ks), start < Len(ks),
           LoadAll(req, run.node) => start = 0, b \in Nat \ {0}
    PROVE  /\ end \in 1 .. Len(ks) /\ start < end /\ Len(NextKeys) = end - start
           /\ ToSet(NextKeys) = {ks[i] : i \in start + 1 .. end}
           /\ IsSlice(NextKeys, ks, start, end)
<1>1. Len(ks) \in Nat /\ start \in Nat /\ end \in 1 .. Len(ks) /\ start < end /\ DOMAIN ks = 1 .. Len(ks)
  OBVIOUS
<1>2. /\ Len(SubSeq(ks, start + 1, end)) = end - start
      /\ ToSet(SubSeq(ks, start + 1, end)) = {ks[i] : i \in start + 1 .. end}
  <2>1. end \in Nat /\ end <= Len(ks)
    BY <1>1
  <2>2. PICK V : V = ToSet(ks)
    OBVIOUS
  <2>3. ks \in Seq(V)
    BY <2>2
  <2>4. PICK t : t = SubSeq(ks, start + 1, end)
    OBVIOUS
  <2>5. Len(t) = end - start /\ \A x : x \in ToSet(t) <=> \E i \in start + 1 .. end : x = ks[i]
    <3>1. start \in Nat /\ start < end
      BY <1>1
    <3>2. IsSlice(t, ks, start, end)
      BY <2>1, <2>3, <2>4, <3>1, SliceIs
    <3> QED
      BY <3>2 DEF IsSlice
  <2>6. ToSet(t) = {ks[i] : i \in start + 1 .. end}
    BY <2>5
  <2> QED
    BY <2>4, <2>5, <2>6, Zenon
<1>3. CASE LoadAll(req, run.node)
  <2>1. NextKeys = ks /\ start = 0 /\ end = Len(ks)
    BY <1>3 DEF NextKeys
  <2>2. ToSet(ks) = {ks[i] : i \in 1 .. Len(ks)}
    BY <1>1 DEF ToSet
  <2>3. start + 1 = 1 /\ end - start = Len(ks)
    BY <1>1, <2>1
  <2>4. {ks[i] : i \in start + 1 .. end} = {ks[i] : i \in 1 .. Len(ks)}
    BY <2>1, <2>3
  <2>5. ToSet(NextKeys) = {ks[i] : i \in start + 1 .. end}
    BY <2>1, <2>2, <2>4
  <2>6. Len(NextKeys) = end - start
    BY <2>1, <2>3
  <2>7. /\ Len(NextKeys) = end - start
        /\ ToSet(NextKeys) = {ks[i] : i \in start + 1 .. end}
    BY <2>5, <2>6
  <2>8. IsSlice(NextKeys, ks, start, end)
    BY <2>7 DEF IsSlice
  <2> QED
    BY <1>1, <2>7, <2>8
<1>4. CASE ~LoadAll(req, run.node)
  <2>1. NextKeys = SubSeq(ks, start + 1, LET e == start + b IN IF e < Len(ks) THEN e ELSE Len(ks))
    BY <1>4 DEF NextKeys
  <2>2. (LET e == start + b IN IF e < Len(ks) THEN e ELSE Len(ks)) = end
    BY <1>1, <1>4
  <2>3. NextKeys = SubSeq(ks, start + 1, end)
    BY <2>1, <2>2
  <2>4. /\ Len(NextKeys) = end - start
        /\ ToSet(NextKeys) = {ks[i] : i \in start + 1 .. end}
    BY <1>2, <2>3
  <2>5. IsSlice(NextKeys, ks, start, end)
    BY <2>4 DEF IsSlice
  <2> QED
    BY <1>1, <2>4, <2>5
<1> QED
  BY <1>3, <1>4

\* What a batch says.
LEMMA SaysOfEach ==
    ASSUME NEW c, NEW m, NEW n, Says(c, m, n), NEW i \in DOMAIN Mine(c)
    PROVE  /\ Mine(c)[i].count = m /\ Mine(c)[i].total = n
           /\ ~Mine(c)[i].loadAll => Mine(c)[i].rows * Width(c) <= ParameterLimit
BY DEF Says

\* One more batch of the collection that is being read.
LEMMA BatchKeepsReading ==
    ASSUME LoadInv, RunBatch
    PROVE  /\ BatchesInv' 
<1>1. PICK c, ks, start, count, parents :
         c = run.node /\ ks = run.keys /\ start = run.start /\ count = run.count /\ parents = run.parents
  OBVIOUS
<1> DEFINE n == Len(ks)
           b == BatchSize(req, c)
           end == IF LoadAll(req, c) \/ start + b >= n THEN n ELSE start + b
           new == [node |-> c, count |-> count, rows |-> Len(NextKeys), total |-> n, loadAll |-> LoadAll(req, c)]
<1>2. /\ phase = "preload" /\ run # Idle /\ start < n
      /\ run' = [run EXCEPT !.start = @ + Len(NextKeys)]
      /\ batches' = Append(batches, new)
      /\ UNCHANGED <<writeVars, req, phase, roots, work>>
  BY <1>1 DEF RunBatch
<1>3. /\ BatchesInv /\ Waiting /\ Reading /\ req \in Requests /\ ~CompileFails(req)
      /\ work # <<>> /\ c = work[1].node /\ work \in Seq(ToSet(work)) /\ batches \in Seq(Batch)
  BY <1>1, <1>2 DEF LoadInv, BatchesInv, Waiting
<1>4. 1 \in DOMAIN work /\ c \in ToSet(NodeList(req)) /\ c # <<>> /\ c \in Nodes
  <2>1. 1 \in DOMAIN work
    BY <1>3, HeadAndTail
  <2>2. c \in ToSet(NodeList(req)) /\ c # <<>>
    BY <1>3, <2>1 DEF Waiting
  <2> QED
    BY <1>3, <2>1, <2>2, NodeInList
<1>5. b \in Nat \ {0} /\ \A k \in 0 .. b : k * Width(c) <= ParameterLimit
  BY <1>3, <1>4, BatchFits DEF Width
<1> DEFINE m == Len(Mine(c))
<1>6. /\ DOMAIN run = {"node", "parents", "keys", "start", "count"}
      /\ ks \in Seq(ToSet(ks)) /\ IsInjective(ks) /\ start \in 0 .. n
      /\ KeysRead(c) = {ks[i] : i \in 1 .. start}
      /\ Says(c, count, n) /\ Sum(RowsOf(Mine(c))) = start
      /\ LoadAll(req, c)  => count = 1 /\ m = (IF start = 0 THEN 0 ELSE 1) /\ start \in {0, n}
      /\ ~LoadAll(req, c) => /\ count = (n + b - 1) \div b
                             /\ start = IF m * b < n THEN m * b ELSE n
                             /\ m = 0 \/ (m - 1) * b < n
  BY <1>1, <1>3 DEF Reading
<1>7. n \in Nat /\ start \in Nat
  BY <1>6
<1>8. LoadAll(req, c) => start = 0
  BY <1>2, <1>6, <1>7
<1>9. end \in 1 .. n /\ start < end /\ Len(NextKeys) = end - start /\ ToSet(NextKeys) = {ks[i] : i \in start + 1 .. end}
  <2>1. /\ run.keys \in Seq(ToSet(run.keys)) /\ run.start \in 0 .. Len(run.keys) /\ run.start < Len(run.keys)
        /\ LoadAll(req, run.node) => run.start = 0
        /\ BatchSize(req, run.node) \in Nat \ {0}
    BY <1>1, <1>2, <1>5, <1>6, <1>8
  <2>2. PICK e : e = end
    OBVIOUS
  <2>3. e = (IF LoadAll(req, run.node) \/ start + b >= Len(ks) THEN Len(ks) ELSE start + b)
    BY <1>1, <2>2
  <2>4. PICK d : d = b
    OBVIOUS
  <2>5. e = (IF LoadAll(req, run.node) \/ start + d >= Len(ks) THEN Len(ks) ELSE start + d) /\ d = BatchSize(req, run.node)
    BY <1>1, <2>3, <2>4
  <2> HIDE DEF end, b
  <2>6. /\ e \in 1 .. Len(ks) /\ start < e /\ Len(NextKeys) = e - start
        /\ ToSet(NextKeys) = {ks[i] : i \in start + 1 .. e}
    BY <1>1, <2>1, <2>5, NextKeysAre
  <2> QED
    BY <2>2, <2>6 DEF n
<1>10. Mine(c) \in Seq(Batch) /\ m \in Nat
  <2> DEFINE S == {x \in ToSet(batches) : x.node = c}
  <2>1. Mine(c) = Among(S, batches)
    BY DEF Mine
  <2> HIDE DEF S, Batch
  <2>2. Mine(c) \in Seq(Batch)
    BY <1>3, <2>1, AmongKeeps
  <2> QED
    BY <2>2
<1>11. new \in Batch
  <2>1. count \in Nat
    <3>1. ~LoadAll(req, c) => (n + b - 1) \div b \in Nat
      <4> HIDE DEF n, b
      <4>1. n + b - 1 \in Nat
        BY <1>5, <1>7
      <4> QED
        BY <1>5, <4>1, Division
    <3> QED
      BY <1>6, <3>1
  <2>2. LoadAll(req, c) \in BOOLEAN
    BY DEF LoadAll
  <2>3. Len(NextKeys) \in Nat
    BY <1>7, <1>9
  <2> QED
    BY <1>4, <1>7, <2>1, <2>2, <2>3 DEF Batch, Nodes
<1> HIDE DEF new
<1>12. \A x : Mine(x)' = IF c = x THEN Append(Mine(x), new) ELSE Mine(x)
  <2>1. new.node = c
    BY DEF new
  <2> HIDE DEF Batch
  <2> QED
    BY <1>2, <1>3, <1>11, <2>1, MineAfter
<1> DEFINE found == Associated(db, Plan(req, c), IF LoadAll(req, c)
                  THEN {KeyOf(r, IF Plan(req, c).junction = NoJunction THEN Plan(req, c).tgt
                                 ELSE Plan(req, c).junction.src) :
                          r \in db[IF Plan(req, c).junction = NoJunction THEN Plan(req, c).target
                                   ELSE Plan(req, c).junction.table]}
                  ELSE ToSet(NextKeys), c \in req.withDeleted)
             it(k) == [node |-> c, key |-> k,
                       rows |-> [r \in {a.row : a \in {x \in found : x.key = k}} |->
                                   Cardinality({a \in found : a.key = k /\ a.row = r})]]
<1>23. read' = read \cup {it(k) : k \in ToSet(NextKeys)} /\ \A k : it(k).node = c /\ it(k).key = k
  BY <1>1 DEF RunBatch
<1> HIDE DEF it
<1>13. \A x : KeysRead(x)' = IF c = x THEN {ks[i] : i \in 1 .. end} ELSE KeysRead(x)
  <2>3. \A x : KeysRead(x)' = IF c = x THEN KeysRead(x) \cup ToSet(NextKeys) ELSE KeysRead(x)
    BY <1>23 DEF KeysRead
  <2>4. {ks[i] : i \in 1 .. start} \cup {ks[i] : i \in start + 1 .. end} = {ks[i] : i \in 1 .. end}
    <3> HIDE DEF end, n
    <3>1. \A i \in 1 .. end : i \in 1 .. start \/ i \in start + 1 .. end
      BY <1>7, <1>9
    <3>2. (\A i \in 1 .. start : i \in 1 .. end) /\ \A i \in start + 1 .. end : i \in 1 .. end
      BY <1>7, <1>9
    <3> QED
      BY <3>1, <3>2
  <2> QED
    BY <1>6, <1>9, <2>3, <2>4
<1>14. Started' \subseteq Started \cup {c}
  <2>1. {x.node : x \in ToSet(batches')} \subseteq {x.node : x \in ToSet(batches)} \cup {c}
    <3>1. ToSet(batches') \subseteq ToSet(batches) \cup {new}
      BY <1>2, <1>3 DEF ToSet
    <3>2. new.node = c
      BY DEF new
    <3> QED
      BY <3>1, <3>2
  <2>2. {y.node : y \in read'} \subseteq {y.node : y \in read} \cup {c}
    BY <1>23
  <2> QED
    BY <2>1, <2>2 DEF Started
<1>15. /\ DOMAIN run' = {"node", "parents", "keys", "start", "count"} /\ run'.node = c /\ run'.keys = ks
       /\ run'.count = count /\ run'.parents = parents /\ run'.start = end /\ run' # Idle /\ req' = req
  <2>1. start + (end - start) = end
    BY <1>7, <1>9
  <2>2. run'.start = end
    BY <1>1, <1>2, <1>6, <1>9, <2>1
  <2> QED
    BY <1>1, <1>2, <1>4, <1>6, <2>2 DEF Idle
<1>16. \A x : x # c => Done(x)' = Done(x)
  BY <1>12, <1>13, <1>15 DEF Done, Says, Width
<1> HIDE DEF n, end
<1>17. Mine(c)' = Append(Mine(c), new) /\ Len(Mine(c)') = m + 1
       /\ (\A i \in DOMAIN Mine(c)' : Mine(c)'[i] = new \/ (i \in DOMAIN Mine(c) /\ Mine(c)'[i] = Mine(c)[i]))
       /\ Sum(RowsOf(Mine(c)))' = end
  <2>1. Mine(c)' = Append(Mine(c), new)
    BY <1>12, Zenon
  <2> DEFINE s == Mine(c)
  <2>2. s \in Seq(Batch)
    BY <1>10
  <2> HIDE DEF Batch, s
  <2>3. /\ Len(Append(s, new)) = Len(s) + 1
        /\ \A i \in DOMAIN Append(s, new) : Append(s, new)[i] = new \/ (i \in DOMAIN s /\ Append(s, new)[i] = s[i])
    BY <1>11, <2>2
  <2>4. Sum(RowsOf(Append(s, new))) = Sum(RowsOf(s)) + new.rows
    BY <1>11, <2>2, RowsAdded
  <2>5. new.rows = end - start
    BY <1>9 DEF new
  <2>6. Sum(RowsOf(s)) + new.rows = end
    BY <1>6, <1>7, <1>9, <2>5 DEF s
  <2>8. Sum(RowsOf(Mine(c)))' = Sum(RowsOf(Append(s, new)))
    BY <2>1 DEF RowsOf, s
  <2> QED
    BY <2>1, <2>3, <2>4, <2>6, <2>8 DEF s
<1>18. Says(c, count, n)'
  <2>1. new.count = count /\ new.total = n /\ (~new.loadAll => new.rows * Width(c) <= ParameterLimit)
    <3>1. new.count = count /\ new.total = n /\ new.rows = end - start /\ new.loadAll = LoadAll(req, c)
      BY <1>9 DEF new, n
    <3>2. ~LoadAll(req, c) => end - start \in 0 .. b
      BY <1>5, <1>7, <1>9 DEF end
    <3> QED
      BY <1>5, <3>1, <3>2
  <2>2. Width(c)' = Width(c)
    BY <1>15 DEF Width
  <2>4. n' = n
    BY DEF n
  <2>5. ASSUME NEW i \in DOMAIN Mine(c)'
        PROVE  /\ Mine(c)'[i].count = count /\ Mine(c)'[i].total = n
               /\ ~Mine(c)'[i].loadAll => Mine(c)'[i].rows * Width(c) <= ParameterLimit
    <3>1. Mine(c)'[i] = new \/ (i \in DOMAIN Mine(c) /\ Mine(c)'[i] = Mine(c)[i])
      BY <1>17
    <3>2. CASE Mine(c)'[i] = new
      BY <2>1, <3>2
    <3>3. CASE i \in DOMAIN Mine(c) /\ Mine(c)'[i] = Mine(c)[i]
      <4>1. Says(c, count, n)
        BY <1>6 DEF n
      <4>2. /\ Mine(c)[i].count = count /\ Mine(c)[i].total = n
            /\ ~Mine(c)[i].loadAll => Mine(c)[i].rows * Width(c) <= ParameterLimit
        BY <3>3, <4>1, SaysOfEach
      <4> QED
        BY <3>3, <4>2
    <3> QED
      BY <3>1, <3>2, <3>3
  <2> QED
    BY <2>2, <2>4, <2>5 DEF Says
<1>19. Reading'
  <2>1. Says(run.node, run.count, Len(run.keys))'
    BY <1>15, <1>18 DEF Says, Width, n
  <2>2. Mine(run.node)' = Mine(c)' /\ KeysRead(run.node)' = KeysRead(c)'
    BY <1>15 DEF Mine, KeysRead
  <2>3. Sum(RowsOf(Mine(run.node)))' = end /\ Len(Mine(run.node))' = m + 1 /\ KeysRead(run.node)' = {ks[i] : i \in 1 .. end}
    BY <1>13, <1>17, <2>2 DEF RowsOf
  <2>4. LoadAll(req, c) => count = 1 /\ m + 1 = 1 /\ end = n /\ end # 0
    BY <1>6, <1>7, <1>8, <1>9 DEF end
  <2>5. ~LoadAll(req, c) => /\ count = (n + b - 1) \div b
                            /\ end = IF (m + 1) * b < n THEN (m + 1) * b ELSE n
                            /\ ((m + 1) - 1) * b < n
    <3> SUFFICES ASSUME ~LoadAll(req, c)
                 PROVE  /\ end = IF (m + 1) * b < n THEN (m + 1) * b ELSE n
                        /\ ((m + 1) - 1) * b < n
      BY <1>6
    <3> HIDE DEF m, b
    <3>1. start = m * b /\ m * b < n /\ m * b \in Nat
      BY <1>2, <1>5, <1>6, <1>7, <1>10 DEF n
    <3>2. (m + 1) * b = m * b + b /\ (m + 1) - 1 = m
      BY <1>5, <1>10
    <3>3. end = IF start + b >= n THEN n ELSE start + b
      BY DEF end, b
    <3> QED
      BY <1>5, <1>7, <3>1, <3>2, <3>3
  <2>6. LoadAll(req', c) = LoadAll(req, c) /\ BatchSize(req', c) = b
    BY <1>15
  <2>7. end \in 0 .. n
    BY <1>7, <1>9
  <2> HIDE DEF m, b
  <2> QED
    BY <1>6, <1>15, <2>1, <2>3, <2>4, <2>5, <2>6, <2>7 DEF Reading, n
<1>20. Waiting'
  <2>1. \A i \in DOMAIN work : \A x \in Started' : IsPrefix(work[i].node, x) => run' # Idle /\ i = 1 /\ x = run'.node
    <3> SUFFICES ASSUME NEW i \in DOMAIN work, NEW x \in Started', IsPrefix(work[i].node, x) PROVE i = 1 /\ x = c
      BY <1>15
    <3>1. CASE x = c
      BY <1>3, <1>4, <3>1 DEF Waiting
    <3>2. CASE x \in Started
      BY <1>1, <1>3, <3>2 DEF Waiting
    <3> QED
      BY <1>14, <3>1, <3>2
  <2> QED
    BY <1>2, <1>3, <1>15, <2>1 DEF Waiting
<1>21. batches' \in Seq(Batch) /\ \A y \in read' : y.node \in Seq(STRING)
  <2>1. batches' \in Seq(Batch)
    <3> HIDE DEF Batch
    <3> QED
      BY <1>2, <1>3, <1>11
  <2>2. \A y \in read' : y \in read \/ y.node = c
    BY <1>23
  <2>3. \A y \in read : y.node \in Seq(STRING)
    BY <1>3 DEF BatchesInv
  <2> QED
    BY <1>4, <2>1, <2>2, <2>3 DEF Nodes
<1>22. \A x \in ToSet(NodeList(req)) : x = c \/ Done(x)
  BY <1>1, <1>3 DEF BatchesInv
<1> QED
  BY <1>2, <1>3, <1>15, <1>16, <1>19, <1>20, <1>21, <1>22 DEF BatchesInv

\* A row comes under a key that the statement asks for.
LEMMA AssociatedKeys ==
    ASSUME NEW rel, NEW keys, NEW withDeleted, NEW a \in Associated(db, rel, keys, withDeleted)
    PROVE  a.key \in keys
<1>1. CASE rel.junction = NoJunction
  BY <1>1 DEF Associated, KeyIn
<1>2. CASE rel.junction # NoJunction
  BY <1>2 DEF Associated, KeyIn
<1> QED
  BY <1>1, <1>2

\* The rows a statement puts on the heap: those of its keys, in its order.
Answered(rows, c) ==
    /\ Len(rows) \in Nat /\ DOMAIN rows = 1 .. Len(rows)
    /\ ~LoadAll(req, c) => \A i \in DOMAIN rows : rows[i].key \in ToSet(NextKeys)
    /\ c \in req.ordered => InOrder(rows, c)

\* The rows of one statement are put on top of the heap.
LEMMA BatchAdds ==
    ASSUME HeapInv, BatchesInv, RunBatch
    PROVE  /\ WellFormed(req, heap') /\ Grows(heap, heap')
           /\ \E rows : Answered(rows, run.node) /\ Given(heap, heap', req, run.node, run.parents, rows, Len(rows))
<1> DEFINE c == run.node
           rel == Plan(req, c)
           wanted == IF LoadAll(req, c)
                     THEN {KeyOf(r, IF Plan(req, c).junction = NoJunction THEN Plan(req, c).tgt
                                    ELSE Plan(req, c).junction.src) :
                             r \in db[IF Plan(req, c).junction = NoJunction THEN Plan(req, c).target
                                      ELSE Plan(req, c).junction.table]}
                     ELSE ToSet(NextKeys)
           found == Associated(db, rel, wanted, c \in req.withDeleted)
           rows == RowsOfBatch(req, c, found)
<1>1. phase = "preload" /\ run # Idle /\ \E s \in Orders(rows, c \in req.ordered) : heap' = HydrateRows(heap, req, c, run.parents, s)
  BY Zenon DEF RunBatch, RowsOfBatch
<1>2. req \in Requests /\ ~CompileFails(req) /\ Waiting /\ work # <<>> /\ c = work[1].node
  BY <1>1 DEF BatchesInv
<1>3. c \in ToSet(NodeList(req)) /\ c \in Nodes
  <2>1. 1 \in DOMAIN work
    BY <1>2, HeadAndTail DEF Waiting
  <2>2. c \in ToSet(NodeList(req))
    BY <1>2, <2>1 DEF Waiting
  <2> QED
    BY <1>2, <2>2, NodeInList
<1>4. Tabled(req)
  BY <1>1, <1>2, TablesAreFinite
<1>5. IsFiniteSet(found)
  <2>1. IsFiniteSet(db[rel.target]) /\ (rel.junction # NoJunction => IsFiniteSet(db[rel.junction.table]))
    BY <1>3, <1>4 DEF Tabled
  <2> HIDE DEF rel, wanted, c
  <2> QED
    BY <2>1, AssociatedIsFinite
<1>6. IsFiniteSet(rows)
  <2> HIDE DEF found, c
  <2> QED
    BY <1>2, <1>4, <1>5, BatchRowsAreFinite
<1>7. WellFormed(req, heap) /\ run.parents \in Seq(Above(heap, c))
  BY <1>1 DEF HeapInv
<1>8. PICK s \in Orders(rows, c \in req.ordered) : heap' = HydrateRows(heap, req, c, run.parents, s)
  BY <1>1
<1>9. Len(s) \in Nat /\ DOMAIN s = 1 .. Len(s) /\ \A i \in DOMAIN s : s[i] \in rows
  <2> HIDE DEF rows
  <2>1. s \in Seq(rows)
    BY <1>6, <1>8, OrdersAreSequences
  <2> QED
    BY <2>1
<1>11. ASSUME NEW r \in rows
       PROVE  r.tree[c] = r.row /\ (~LoadAll(req, c) => r.key \in ToSet(NextKeys))
  <2> HIDE DEF found, c
  <2>1. PICK a \in found : r \in {[key |-> a.key, edge |-> a.edge, row |-> a.row, tree |-> t] : t \in Trees(req, c, a.row)}
    BY DEF RowsOfBatch
  <2>2. PICK t \in Trees(req, c, a.row) : r = [key |-> a.key, edge |-> a.edge, row |-> a.row, tree |-> t]
    BY <2>1
  <2>3. t[c] = a.row
    BY Zenon DEF Trees
  <2>4. a.key \in wanted
    <3> HIDE DEF wanted, rel
    <3> QED
      BY AssociatedKeys DEF found
  <2> HIDE DEF rel
  <2> QED
    BY <2>2, <2>3, <2>4
<1> HIDE DEF rows
<1>12. Answered(s, c)
  <2>1. ~LoadAll(req, c) => \A i \in DOMAIN s : s[i].key \in ToSet(NextKeys)
    BY <1>9, <1>11
  <2>2. ASSUME c \in req.ordered PROVE InOrder(s, c)
    <3>1. \A i, j \in DOMAIN s : i < j => NotAfter(s[i].row, s[j].row)
      BY <1>8, <2>2, Zenon DEF Orders
    <3> QED
      BY <1>9, <1>11, <3>1 DEF InOrder
  <2> QED
    BY <1>9, <2>1, <2>2 DEF Answered
<1> HIDE DEF c
<1>10. /\ WellFormed(req, HydrateRows(heap, req, c, run.parents, s))
       /\ Grows(heap, HydrateRows(heap, req, c, run.parents, s))
       /\ Given(heap, HydrateRows(heap, req, c, run.parents, s), req, c, run.parents, s, Len(s))
  BY <1>2, <1>3, <1>7, <1>9, HydrateRowsAdds
<1> QED
  BY <1>8, <1>10, <1>12 DEF c

\* A statement keeps the invariant.
LEMMA RunKeeps == LoadInv /\ RunBatch => LoadInv'
<1> SUFFICES ASSUME LoadInv, RunBatch PROVE LoadInv'
  OBVIOUS
<1>1. BatchesInv'
  BY BatchKeepsReading
<1>2. /\ phase = "preload" /\ run # Idle /\ run' = [run EXCEPT !.start = @ + Len(NextKeys)]
      /\ UNCHANGED <<writeVars, req, phase, roots, work>>
  BY DEF RunBatch
<1>3. HeapInv /\ BatchesInv /\ Reading
  BY <1>2 DEF LoadInv, BatchesInv
<1>4. WellFormed(req, heap') /\ Grows(heap, heap')
  BY <1>3, BatchAdds
<1>5. AccountsInv' /\ original' = original /\ db' = db
  BY <1>2, <1>3, AccountsStep DEF HeapInv, writeVars
<1>6. \A x : Seq(Above(heap, x)) \subseteq Seq(Above(heap', x))
  BY <1>4, GrowsFacts
<1>7. run'.node = run.node /\ run'.parents = run.parents
  BY <1>2, <1>3 DEF Reading
<1>8. run'.parents \in Seq(Above(heap', run'.node))
  BY <1>2, <1>3, <1>6, <1>7 DEF HeapInv
<1>9. \A i \in DOMAIN work : work[i].parents \in Seq(Above(heap', work[i].node))
  BY <1>3, <1>6 DEF HeapInv
<1>10. HeapInv'
  BY <1>2, <1>3, <1>4, <1>5, <1>8, <1>9 DEF HeapInv
<1> QED
  BY <1>1, <1>10 DEF LoadInv

\* So does every step, of the SELECT or of a writer beside it.
LEMMA LoadInvStep == LoadInv /\ [LoadNext]_<<writeVars, loadVars>> => LoadInv'
<1> SUFFICES ASSUME LoadInv, [LoadNext]_<<writeVars, loadVars>> PROVE LoadInv'
  OBVIOUS
<1>1. CASE UNCHANGED <<writeVars, loadVars>>
  BY <1>1, LoadInvStays DEF loadVars
<1>2. CASE Write /\ UNCHANGED loadVars
  BY <1>2, LoadInvStays DEF loadVars
<1>3. CASE CompileLoad
  BY <1>3, LoadInvStays DEF CompileLoad
<1>4. CASE SelectRoots
  BY <1>4, SelectKeeps
<1>5. CASE PassInline
  BY <1>5, PassKeeps
<1>6. CASE PrepareCollection
  BY <1>6, PrepareKeeps
<1>7. CASE RunBatch
  BY <1>7, RunKeeps
<1>8. CASE FailBatch
  BY <1>8, LoadInvStays DEF FailBatch
<1>9. CASE FinishCollection
  BY <1>9, FinishKeeps
<1>10. CASE ReturnResult
  BY <1>10, LoadInvStays DEF ReturnResult
<1> QED
  BY <1>1, <1>2, <1>3, <1>4, <1>5, <1>6, <1>7, <1>8, <1>9, <1>10 DEF LoadNext, Load

\* The invariant is what a returned SELECT promises.
LEMMA InvGivesMetadata == LoadInv => BatchesMatchTheirMetadata
<1> SUFFICES ASSUME LoadInv, phase = "returned", NEW c \in ToSet(NodeList(req)), Mine(c) # <<>>
             PROVE  /\ \A i \in DOMAIN Mine(c) :
                          /\ Mine(c)[i].count = Len(Mine(c)) /\ Mine(c)[i].total = Cardinality(KeysRead(c))
                          /\ ~Mine(c)[i].loadAll => Mine(c)[i].rows * Len(Plan(req, c).src) <= ParameterLimit
                    /\ Sum([i \in DOMAIN Mine(c) |-> Mine(c)[i].rows]) = Cardinality(KeysRead(c))
  BY Zenon DEF BatchesMatchTheirMetadata, Mine, KeysRead, Sum
<1>1. Done(c)
  BY DEF LoadInv, BatchesInv
<1> QED
  BY <1>1 DEF Done, Says, RowsOf, Width

\* The batches captured for a collection are as many, and cover as many keys, as
\* the metadata of each of them says: preload.go reads every key in one statement.
THEOREM BatchesMatch == LoadSpec => []BatchesMatchTheirMetadata
<1>1. WriteInit /\ PreloadInit => LoadInv
  BY LoadInvInit
<1>2. LoadInv /\ [LoadNext]_<<writeVars, loadVars>> => LoadInv'
  BY LoadInvStep
<1>3. LoadInv => BatchesMatchTheirMetadata
  BY InvGivesMetadata
<1> QED
  BY <1>1, <1>2, <1>3, PTL DEF LoadSpec

---------------------------------------------------------------------------
(* Collections keep the order of their rows.                                 *)

\* The collections C are in order, and a parent whose key was not read has none
\* of the collection that is being read.
Tidy(h, C) == \A c \in C : \A o \in Above(h, c) : Sorted(h, h[o].rel[c])
Unread ==
    run # Idle /\ run.start < Len(run.keys) =>
        \A o \in ToSet(run.parents) :
            KeyOf(heap[o].row, Plan(req, run.node).src) \notin KeysRead(run.node) => heap[o].rel[run.node] = <<>>

OrderInv ==
    phase \in {"preload", "returned"} =>
        roots \in Seq(Of(req, heap, <<>>)) /\ Tidy(heap, req.ordered) /\ Unread

\* The next statement asks for keys that no statement before it did.
LEMMA NextKeysAreNew ==
    ASSUME LoadInv, RunBatch
    PROVE  /\ ToSet(NextKeys) \cap KeysRead(run.node) = {}
           /\ LoadAll(req, run.node) => KeysRead(run.node) = {} /\ run.start = 0
<1>1. PICK c, ks, start, b : c = run.node /\ ks = run.keys /\ start = run.start /\ b = BatchSize(req, c)
  OBVIOUS
<1>2. phase = "preload" /\ run # Idle /\ start < Len(ks)
  BY <1>1 DEF RunBatch
<1>3. /\ Waiting /\ Reading /\ req \in Requests /\ ~CompileFails(req) /\ work # <<>> /\ c = work[1].node
      /\ work \in Seq(ToSet(work))
  BY <1>1, <1>2 DEF LoadInv, BatchesInv, Waiting
<1>4. c \in ToSet(NodeList(req)) /\ b \in Nat \ {0}
  <2>1. 1 \in DOMAIN work
    BY <1>3, HeadAndTail
  <2>2. c \in ToSet(NodeList(req))
    BY <1>3, <2>1 DEF Waiting
  <2> QED
    BY <1>1, <1>3, <2>2, BatchFits
<1>5. /\ ks \in Seq(ToSet(ks)) /\ IsInjective(ks) /\ start \in 0 .. Len(ks)
      /\ KeysRead(c) = {ks[i] : i \in 1 .. start}
      /\ LoadAll(req, c) => start \in {0, Len(ks)}
  BY <1>1, <1>3 DEF Reading
<1>6. Len(ks) \in Nat /\ DOMAIN ks = 1 .. Len(ks) /\ (LoadAll(req, c) => start = 0)
  BY <1>2, <1>5
<1>7. PICK end : end = IF LoadAll(req, run.node) \/ start + b >= Len(ks) THEN Len(ks) ELSE start + b
  OBVIOUS
<1>8. end \in 1 .. Len(ks) /\ ToSet(NextKeys) = {ks[i] : i \in start + 1 .. end}
  <2>1. /\ run.keys \in Seq(ToSet(run.keys)) /\ run.start \in 0 .. Len(run.keys) /\ run.start < Len(run.keys)
        /\ LoadAll(req, run.node) => run.start = 0
        /\ BatchSize(req, run.node) \in Nat \ {0}
    BY <1>1, <1>2, <1>4, <1>5, <1>6
  <2>2. end = (IF LoadAll(req, run.node) \/ start + b >= Len(ks) THEN Len(ks) ELSE start + b)
    BY <1>7
  <2>3. end \in 1 .. Len(ks) /\ IsSlice(NextKeys, ks, start, end)
    BY <1>1, <2>1, <2>2, NextKeysAre
  <2> QED
    BY <2>3 DEF IsSlice
<1>9. ASSUME NEW i \in start + 1 .. end, NEW j \in 1 .. start PROVE ks[i] # ks[j]
  <2>1. end \in 1 .. Len(ks) /\ start \in 0 .. Len(ks) /\ Len(ks) \in Nat
    BY <1>5, <1>6, <1>8
  <2>2. i \in 1 .. Len(ks) /\ j \in 1 .. Len(ks) /\ i # j
    BY <2>1
  <2>3. i \in DOMAIN ks /\ j \in DOMAIN ks /\ i # j
    BY <1>6, <2>2
  <2> QED
    BY <1>5, <2>3 DEF IsInjective
<1>10. start = 0 => KeysRead(c) = {}
  <2>1. start = 0 => \A i \in 1 .. start : FALSE
    OBVIOUS
  <2> QED
    BY <1>5, <2>1
<1> QED
  BY <1>1, <1>5, <1>6, <1>8, <1>9, <1>10

\* A heap that has grown, with the fields it had.
LEMMA TidyFields ==
    ASSUME NEW q, NEW h, WellFormed(q, h), NEW f, Grows(h, f), NEW C, Tidy(h, C), NEW c \in C,
           NEW o \in DOMAIN h, c \in DOMAIN h[o].rel, f[o].rel[c] = h[o].rel[c]
    PROVE  Sorted(f, f[o].rel[c])
<1>1. Sorted(h, h[o].rel[c])
  BY DEF Tidy, Above
<1>2. h[o].rel[c] \in Seq(DOMAIN h)
  BY FieldsAre
<1> QED
  BY <1>1, <1>2, SortedStays

\* A heap whose fields refer to one object at most is in order.
LEMMA LoneIsTidy ==
    ASSUME NEW q, NEW h, WellFormed(q, h), Lone(h)
    PROVE  \A C : Tidy(h, C)
<1> SUFFICES ASSUME NEW C, NEW c \in C, NEW o \in Above(h, c) PROVE Sorted(h, h[o].rel[c])
  BY DEF Tidy
<1>1. o \in DOMAIN h /\ c \in DOMAIN h[o].rel
  BY DEF Above
<1>2. Len(h[o].rel[c]) <= 1 /\ h[o].rel[c] \in Seq(DOMAIN h)
  BY <1>1, FieldsAre DEF Lone
<1> QED
  BY <1>2, SortedShort

\* The objects of the roots have one object or none in a field.
LEMMA SelectOrders == LoadInv /\ OrderInv /\ SelectRoots => OrderInv'
<1> SUFFICES ASSUME LoadInv, SelectRoots PROVE OrderInv'
  OBVIOUS
<1>1. phase = "select" /\ req' = req /\ run' = run
  BY DEF SelectRoots
<1>2. run = Idle
  BY <1>1 DEF LoadInv, BatchesInv
<1>3. WellFormed(req, heap') /\ Lone(heap') /\ roots' \in Seq(Of(req, heap', <<>>))
  BY RootsFound
<1>4. Tidy(heap', req.ordered)
  BY <1>3, LoneIsTidy
<1> QED
  BY <1>1, <1>2, <1>3, <1>4 DEF OrderInv, Unread

\* A field that is reset is in order.
LEMMA PrepareOrders == LoadInv /\ OrderInv /\ PrepareCollection => OrderInv'
<1> SUFFICES ASSUME LoadInv, OrderInv, PrepareCollection PROVE OrderInv'
  OBVIOUS
<1>1. PICK c, parents : c = Head(work).node /\ parents = Head(work).parents
  OBVIOUS
<1>2. /\ phase = "preload" /\ run = Idle /\ work # <<>> /\ UNCHANGED <<req, phase, roots>>
      /\ Resets(heap', heap, c, ToSet(parents))
      /\ run'.node = c /\ run'.parents = parents
  BY <1>1, Zenon DEF PrepareCollection, Resets
<1>3. WellFormed(req, heap) /\ Tidy(heap, req.ordered) /\ roots \in Seq(Of(req, heap, <<>>))
  BY <1>2 DEF LoadInv, HeapInv, OrderInv
<1>4. /\ WellFormed(req, heap') /\ Grows(heap, heap')
      /\ \A o \in DOMAIN heap' : \A x \in DOMAIN heap'[o].rel :
            /\ o \in DOMAIN heap
            /\ heap'[o].rel[x] = IF o \in ToSet(parents) /\ x = c THEN <<>> ELSE heap[o].rel[x]
  BY <1>2, <1>3, ResetKeeps
<1>5. roots' \in Seq(Of(req, heap', <<>>))
  <2>1. Seq(Of(req, heap, <<>>)) \subseteq Seq(Of(req, heap', <<>>))
    BY <1>4, GrowsFacts
  <2> QED
    BY <1>2, <1>3, <2>1
<1>6. ASSUME NEW x \in req.ordered, NEW o \in Above(heap', x) PROVE Sorted(heap', heap'[o].rel[x])
  <2>1. o \in DOMAIN heap' /\ x \in DOMAIN heap'[o].rel /\ o \in DOMAIN heap
    BY <1>4 DEF Above
  <2>2. CASE heap'[o].rel[x] = <<>>
    <3>1. \A i \in DOMAIN <<>> : FALSE
      OBVIOUS
    <3> QED
      BY <2>2, <3>1 DEF Sorted
  <2>3. CASE heap'[o].rel[x] = heap[o].rel[x]
    <3>1. x \in DOMAIN heap[o].rel
      BY <1>4, <2>1 DEF Grows
    <3> QED
      BY <1>3, <1>4, <2>1, <2>3, <3>1, TidyFields
  <2> QED
    BY <1>4, <2>1, <2>2, <2>3
<1>7. \A o \in ToSet(parents) : heap'[o].rel[c] = <<>>
  <2>1. parents \in Seq(Above(heap', c))
    <3>1. 1 \in DOMAIN work /\ Head(work) = work[1]
      BY <1>2, HeadAndTail DEF LoadInv, BatchesInv, Waiting
    <3>2. parents \in Seq(Above(heap, c)) /\ Seq(Above(heap, c)) \subseteq Seq(Above(heap', c))
      BY <1>1, <1>4, <3>1, GrowsFacts DEF LoadInv, HeapInv
    <3> QED
      BY <3>2
  <2>2. \A i \in DOMAIN parents : parents[i] \in Above(heap', c)
    BY <2>1
  <2>3. \A o \in ToSet(parents) : o \in DOMAIN heap' /\ c \in DOMAIN heap'[o].rel
    BY <2>2 DEF ToSet, Above
  <2> QED
    BY <1>4, <2>3
<1>8. Tidy(heap', req.ordered) /\ Unread'
  BY <1>2, <1>6, <1>7 DEF Tidy, Unread
<1> QED
  BY <1>2, <1>5, <1>8 DEF OrderInv

\* A statement gives its rows to parents that had none.
LEMMA RunOrders == LoadInv /\ OrderInv /\ RunBatch => OrderInv'
<1> SUFFICES ASSUME LoadInv, OrderInv, RunBatch PROVE OrderInv'
  OBVIOUS
<1>1. PICK c, parents : c = run.node /\ parents = run.parents
  OBVIOUS
<1> DEFINE key(o) == KeyOf(heap[o].row, Plan(req, c).src)
<1>2. /\ phase = "preload" /\ run # Idle /\ run.start < Len(run.keys) /\ UNCHANGED <<req, phase, roots>>
      /\ run' = [run EXCEPT !.start = @ + Len(NextKeys)]
  BY DEF RunBatch
<1>3. /\ HeapInv /\ BatchesInv /\ WellFormed(req, heap) /\ parents \in Seq(Above(heap, c)) /\ Reading
      /\ Tidy(heap, req.ordered) /\ roots \in Seq(Of(req, heap, <<>>)) /\ Unread
  BY <1>1, <1>2 DEF LoadInv, HeapInv, BatchesInv, OrderInv
<1>4. WellFormed(req, heap') /\ Grows(heap, heap')
      /\ \E rows : Answered(rows, c) /\ Given(heap, heap', req, c, parents, rows, Len(rows))
  BY <1>1, <1>3, BatchAdds
<1>5. PICK rows : Answered(rows, c) /\ Given(heap, heap', req, c, parents, rows, Len(rows))
  BY <1>4
<1>6. /\ ToSet(NextKeys) \cap KeysRead(c) = {}
      /\ LoadAll(req, c) => KeysRead(c) = {} /\ run.start = 0
  BY <1>1, NextKeysAreNew
<1>7. /\ run'.node = c /\ run'.parents = parents /\ run'.keys = run.keys
      /\ run'.start = run.start + Len(NextKeys) /\ run' # Idle
  <2>1. DOMAIN run = {"node", "parents", "keys", "start", "count"}
    BY <1>3 DEF Reading
  <2>2. c # <<>>
    <3>1. work # <<>> /\ c = work[1].node /\ Waiting /\ work \in Seq(ToSet(work))
      BY <1>1, <1>2, <1>3 DEF BatchesInv, Waiting
    <3>2. 1 \in DOMAIN work
      BY <3>1, HeadAndTail
    <3> QED
      BY <3>1, <3>2 DEF Waiting
  <2> QED
    BY <1>1, <1>2, <2>1, <2>2 DEF Idle
<1>8. KeysRead(c)' = KeysRead(c) \cup ToSet(NextKeys)
  <2> DEFINE found == Associated(db, Plan(req, c), IF LoadAll(req, c)
                  THEN {KeyOf(r, IF Plan(req, c).junction = NoJunction THEN Plan(req, c).tgt
                                 ELSE Plan(req, c).junction.src) :
                          r \in db[IF Plan(req, c).junction = NoJunction THEN Plan(req, c).target
                                   ELSE Plan(req, c).junction.table]}
                  ELSE ToSet(NextKeys), c \in req.withDeleted)
             it(k) == [node |-> c, key |-> k,
                       rows |-> [r \in {a.row : a \in {x \in found : x.key = k}} |->
                                   Cardinality({a \in found : a.key = k /\ a.row = r})]]
  <2>1. read' = read \cup {it(k) : k \in ToSet(NextKeys)} /\ \A k : it(k).node = c /\ it(k).key = k
    BY <1>1 DEF RunBatch
  <2> HIDE DEF it
  <2> QED
    BY <2>1 DEF KeysRead
<1>9. \A o \in ToSet(parents) : o \in DOMAIN heap /\ c \in DOMAIN heap[o].rel
  <2>1. \A i \in DOMAIN parents : parents[i] \in Above(heap, c)
    BY <1>3
  <2> QED
    BY <2>1 DEF ToSet, Above
<1>10. ASSUME NEW o \in ToSet(parents), Keyed(heap, req, c, o, rows, Len(rows))
       PROVE  key(o) \notin KeysRead(c) /\ (~LoadAll(req, c) => key(o) \in ToSet(NextKeys))
  <2>1. PICK i \in 1 .. Len(rows) : key(o) = rows[i].key
    BY <1>10 DEF Keyed
  <2>2. i \in DOMAIN rows /\ (~LoadAll(req, c) => rows[i].key \in ToSet(NextKeys))
    BY <1>5 DEF Answered
  <2> QED
    BY <1>6, <2>1, <2>2
<1>11. \A o \in ToSet(parents) : key(o) \notin KeysRead(c) => heap[o].rel[c] = <<>>
  BY <1>1, <1>2, <1>3 DEF Unread
<1>12. ASSUME NEW o \in DOMAIN heap', NEW x \in DOMAIN heap'[o].rel
       PROVE  \/ o \notin DOMAIN heap /\ Len(heap'[o].rel[x]) <= 1
              \/ o \in DOMAIN heap /\ heap'[o].rel[x] = heap[o].rel[x]
              \/ o \in DOMAIN heap \cap ToSet(parents) /\ x = c /\ Keyed(heap, req, c, o, rows, Len(rows))
  BY <1>5 DEF Given
<1>13. ASSUME NEW x \in req.ordered, NEW o \in Above(heap', x) PROVE Sorted(heap', heap'[o].rel[x])
  <2>1. o \in DOMAIN heap' /\ x \in DOMAIN heap'[o].rel
    BY DEF Above
  <2>2. CASE o \notin DOMAIN heap /\ Len(heap'[o].rel[x]) <= 1
    <3>1. heap'[o].rel[x] \in Seq(DOMAIN heap')
      BY <1>4, <2>1, FieldsAre
    <3> QED
      BY <2>2, <3>1, SortedShort
  <2>3. CASE o \in DOMAIN heap /\ heap'[o].rel[x] = heap[o].rel[x]
    <3>1. x \in DOMAIN heap[o].rel
      BY <1>4, <2>1, <2>3 DEF Grows
    <3> QED
      BY <1>3, <1>4, <2>3, <3>1, TidyFields
  <2>4. CASE o \in ToSet(parents) /\ x = c /\ Keyed(heap, req, c, o, rows, Len(rows))
    <3>1. heap[o].rel[c] = <<>>
      BY <1>10, <1>11, <2>4
    <3>2. InOrder(rows, c)
      BY <1>5, <2>4 DEF Answered
    <3> QED
      BY <1>5, <2>4, <3>1, <3>2 DEF Given
  <2> QED
    BY <1>12, <2>1, <2>2, <2>3, <2>4
<1>14. roots' \in Seq(Of(req, heap', <<>>))
  <2>1. Seq(Of(req, heap, <<>>)) \subseteq Seq(Of(req, heap', <<>>))
    BY <1>4, GrowsFacts
  <2> QED
    BY <1>2, <1>3, <2>1
<1>15. Unread'
  <2> SUFFICES ASSUME run'.start < Len(run'.keys), NEW o \in ToSet(parents),
                      KeyOf(heap'[o].row, Plan(req, c).src) \notin KeysRead(c)'
               PROVE  heap'[o].rel[c] = <<>>
    <3>1. KeysRead(run.node)' = KeysRead(c)'
      BY <1>7 DEF KeysRead
    <3> QED
      BY <1>2, <1>7, <3>1 DEF Unread
  <2>1. o \in DOMAIN heap /\ o \in DOMAIN heap' /\ c \in DOMAIN heap'[o].rel /\ heap'[o].row = heap[o].row
    BY <1>4, <1>9 DEF Grows
  <2>2. key(o) \notin KeysRead(c) /\ key(o) \notin ToSet(NextKeys)
    BY <1>8, <2>1
  <2>3. ~LoadAll(req, c)
    <3> SUFFICES ASSUME LoadAll(req, c) PROVE FALSE
      OBVIOUS
    <3>1. run.start = 0 /\ NextKeys = run.keys /\ run.start \in 0 .. Len(run.keys)
      BY <1>1, <1>3, <1>6 DEF NextKeys, Reading
    <3>2. run'.start = Len(run.keys) /\ Len(run.keys) \in Nat
      <4>1. run.keys \in Seq(ToSet(run.keys))
        BY <1>3 DEF Reading
      <4>2. Len(run.keys) \in Nat
        BY <4>1
      <4> QED
        BY <1>7, <3>1, <4>2
    <3> QED
      BY <1>7, <3>2
  <2>4. ~Keyed(heap, req, c, o, rows, Len(rows))
    BY <1>10, <2>2, <2>3
  <2>5. heap'[o].rel[c] = heap[o].rel[c]
    BY <1>12, <2>1, <2>4
  <2> QED
    BY <1>11, <2>2, <2>5
<1>16. Tidy(heap', req.ordered)
  BY <1>13 DEF Tidy
<1> QED
  BY <1>2, <1>14, <1>15, <1>16 DEF OrderInv

\* Every step keeps the order.
LEMMA OrderInvStep == LoadInv /\ OrderInv /\ [LoadNext]_<<writeVars, loadVars>> => OrderInv'
<1> SUFFICES ASSUME LoadInv, OrderInv, [LoadNext]_<<writeVars, loadVars>> PROVE OrderInv'
  OBVIOUS
<1>1. ASSUME UNCHANGED <<req, heap, roots, run, read>>, phase' \in {"preload", "returned"} => phase = "preload" \/ phase' = phase
      PROVE  OrderInv'
  <2>1. Unread' = Unread
    BY <1>1 DEF Unread, KeysRead
  <2> QED
    BY <1>1, <2>1 DEF OrderInv
<1>2. CASE UNCHANGED loadVars
  BY <1>1, <1>2 DEF loadVars
<1>3. CASE CompileLoad
  BY <1>1, <1>3 DEF CompileLoad
<1>4. CASE SelectRoots
  BY <1>4, SelectOrders
<1>5. CASE PassInline
  BY <1>1, <1>5 DEF PassInline
<1>6. CASE PrepareCollection
  BY <1>6, PrepareOrders
<1>7. CASE RunBatch
  BY <1>7, RunOrders
<1>8. CASE FailBatch
  BY <1>1, <1>8 DEF FailBatch
<1>9. CASE FinishCollection
  <2>1. run' = Idle /\ UNCHANGED <<req, phase, heap, roots, read>>
    BY <1>9 DEF FinishCollection
  <2>2. Unread'
    BY <2>1 DEF Unread
  <2> QED
    BY <2>1, <2>2 DEF OrderInv
<1>10. CASE ReturnResult
  BY <1>1, <1>10 DEF ReturnResult
<1> QED
  BY <1>2, <1>3, <1>4, <1>5, <1>6, <1>7, <1>8, <1>9, <1>10 DEF LoadNext, Load

\* The prefixes of a path.
LEMMA PrefixIs ==
    ASSUME NEW p \in Nodes, NEW n \in 0 .. Len(p)
    PROVE  /\ SubSeq(p, 1, n) \in Nodes /\ Len(SubSeq(p, 1, n)) = n
           /\ \A i \in 1 .. n : SubSeq(p, 1, n)[i] = p[i]
BY DEF Nodes

\* A requested path leads from the root from child to child.
LEMMA PathOfChildren ==
    ASSUME NEW q \in Requests, NEW p \in ToSet(q.paths), NEW n \in 1 .. Len(p)
    PROVE  SubSeq(p, 1, n) \in ToSet(Children(q, SubSeq(p, 1, n - 1)))
<1>1. p \in Nodes /\ Len(p) \in Nat
  <2>1. q.paths \in Seq(Nodes)
    BY RequestAssumption DEF Nodes
  <2> HIDE DEF Nodes
  <2>2. p \in Nodes
    BY <2>1, SeqOfItself
  <2> QED
    BY <2>2 DEF Nodes
<1> DEFINE x == SubSeq(p, 1, n)
           y == SubSeq(p, 1, n - 1)
           S == {z \in ToSet(NodeList(q)) : Len(z) = Len(y) + 1 /\ IsPrefix(y, z)}
<1>2. n \in 0 .. Len(p) /\ n - 1 \in 0 .. Len(p) /\ n \in Nat /\ (n - 1) + 1 = n /\ n - 1 <= n
      /\ \A i \in 1 .. n - 1 : i \in 1 .. n
  BY <1>1
<1>3. /\ x \in Nodes /\ Len(x) = n /\ \A i \in 1 .. n : x[i] = p[i]
      /\ y \in Nodes /\ Len(y) = n - 1 /\ \A i \in 1 .. n - 1 : y[i] = p[i]
  <2>1. x \in Nodes /\ Len(x) = n /\ \A i \in 1 .. n : x[i] = p[i]
    BY <1>1, <1>2, PrefixIs
  <2>2. PICK m : m = n - 1
    OBVIOUS
  <2>3. SubSeq(p, 1, m) \in Nodes /\ Len(SubSeq(p, 1, m)) = m /\ \A i \in 1 .. m : SubSeq(p, 1, m)[i] = p[i]
    BY <1>1, <1>2, <2>2, PrefixIs
  <2> QED
    BY <2>1, <2>2, <2>3
<1>4. x \in ToSet(NodeList(q)) /\ NodeList(q) \in Seq(Nodes)
  BY NodesAreDistinct
<1>5. Children(q, y) = Among(S, NodeList(q))
  BY Zenon DEF Children
<1> HIDE DEF x, y
<1>6. IsPrefix(y, x)
  BY <1>2, <1>3, PrefixMeans
<1>7. x \in S
  BY <1>2, <1>3, <1>4, <1>6
<1> HIDE DEF S, Nodes
<1>8. ToSet(Among(S, NodeList(q))) = S \cap ToSet(NodeList(q))
  BY <1>4, AmongKeeps
<1>9. x \in ToSet(Children(q, y))
  BY <1>4, <1>5, <1>7, <1>8
<1> QED
  BY <1>9 DEF x, y

\* held leads along path p to the objects of each of its plans.
Leads(held, p) ==
    held = [n \in 0 .. Len(p) |->
               IF n = 0 THEN roots ELSE LET above == held[n - 1] IN Targets(heap, SubSeq(p, 1, n), above)]

\* The objects along a path exist.
LEMMA LeadsExists ==
    ASSUME NEW p, Len(p) \in Nat
    PROVE  \E held : Leads(held, p)
<1> DEFINE n == Len(p)
           After(G, m) == \A k \in 0 .. m : G[k] = IF k = 0 THEN roots ELSE Targets(heap, SubSeq(p, 1, k), G[k - 1])
           S == {m \in 0 .. n : \E G : After(G, m)}
<1>1. 0 \in S
  <2> DEFINE G == [k \in {0} |-> roots]
  <2>1. After(G, 0)
    <3>1. \A k \in 0 .. 0 : k = 0 /\ G[k] = roots
      OBVIOUS
    <3> QED
      BY <3>1
  <2> HIDE DEF G, After
  <2> QED
    BY <2>1
<1>2. ASSUME NEW m \in 0 .. n - 1, m \in S PROVE m + 1 \in S
  <2>1. PICK G : After(G, m)
    BY <1>2
  <2> DEFINE K == [k \in 0 .. m + 1 |-> IF k = m + 1 THEN Targets(heap, SubSeq(p, 1, k), G[m]) ELSE G[k]]
  <2>2. ASSUME NEW k \in 0 .. m + 1
        PROVE  K[k] = IF k = 0 THEN roots ELSE Targets(heap, SubSeq(p, 1, k), K[k - 1])
    <3>1. CASE k = m + 1
      <4>1. k # 0 /\ k - 1 = m /\ m \in 0 .. m + 1 /\ m # m + 1
        BY <3>1
      <4>2. K[k - 1] = G[m] /\ K[k] = Targets(heap, SubSeq(p, 1, k), G[m])
        BY <3>1, <4>1
      <4> HIDE DEF K
      <4> QED
        BY <4>1, <4>2
    <3>2. CASE k # m + 1
      <4>1. k \in 0 .. m /\ K[k] = G[k]
        BY <3>2
      <4>2. k # 0 => K[k - 1] = G[k - 1]
        BY <4>1
      <4>3. G[k] = IF k = 0 THEN roots ELSE Targets(heap, SubSeq(p, 1, k), G[k - 1])
        BY <2>1, <4>1
      <4> HIDE DEF K
      <4> QED
        BY <4>1, <4>2, <4>3
    <3> QED
      BY <3>1, <3>2
  <2>3. After(K, m + 1)
    BY <2>2
  <2>4. m + 1 \in 0 .. n
    OBVIOUS
  <2> HIDE DEF K, After
  <2> QED
    BY <2>3, <2>4
<1>3. n \in S
  <2>1. n \in 0 .. n
    OBVIOUS
  <2> HIDE DEF S
  <2>2. \A k \in 0 .. n : k \in S
    BY <1>1, <1>2, UpTo
  <2> QED
    BY <2>1, <2>2
<1>4. PICK G : After(G, n)
  BY <1>3
<1> DEFINE K == [k \in 0 .. n |-> G[k]]
<1>5. K = [k \in 0 .. n |-> IF k = 0 THEN roots ELSE Targets(heap, SubSeq(p, 1, k), K[k - 1])]
  <2>1. ASSUME NEW k \in 0 .. n PROVE K[k] = IF k = 0 THEN roots ELSE Targets(heap, SubSeq(p, 1, k), K[k - 1])
    <3>1. K[k] = G[k] /\ (k # 0 => K[k - 1] = G[k - 1])
      OBVIOUS
    <3>2. G[k] = IF k = 0 THEN roots ELSE Targets(heap, SubSeq(p, 1, k), G[k - 1])
      BY <1>4
    <3> HIDE DEF K
    <3> QED
      BY <3>1, <3>2
  <2>2. K = [k \in 0 .. n |-> K[k]]
    OBVIOUS
  <2> HIDE DEF K
  <2> QED
    BY <2>1, <2>2
<1> HIDE DEF K
<1> QED
  BY <1>5 DEF Leads

\* The objects above a requested plan have a field for it.
LEMMA HeldAreAbove ==
    ASSUME NEW c, req \in Requests, c \in ToSet(req.paths), WellFormed(req, heap), roots \in Seq(Of(req, heap, <<>>))
    PROVE  Held(Front(c)) \in Seq(Above(heap, c))
<1>1. c \in Nodes /\ Len(c) \in Nat \ {0}
  <2>1. req.paths \in Seq(Nodes) /\ <<>> \notin ToSet(req.paths)
    BY RequestAssumption DEF Nodes
  <2> HIDE DEF Nodes
  <2>2. c \in Nodes /\ c # <<>>
    BY <2>1, SeqOfItself
  <2> QED
    BY <2>2 DEF Nodes
<1> DEFINE p == Front(c)
           m == Len(c) - 1
           held == CHOOSE it : Leads(it, p)
<1>2. /\ p \in Nodes /\ Len(p) = m /\ m \in Nat
      /\ \A n \in 0 .. m : SubSeq(p, 1, n) = SubSeq(c, 1, n)
  <2>1. p = SubSeq(c, 1, m)
    BY DEF Front
  <2>2. m \in Nat /\ m \in 0 .. Len(c)
    BY <1>1
  <2> HIDE DEF p, m
  <2>3. p \in Nodes /\ Len(p) = m /\ \A i \in 1 .. m : p[i] = c[i]
    BY <1>1, <2>1, <2>2, PrefixIs
  <2>4. ASSUME NEW n \in 0 .. m PROVE SubSeq(p, 1, n) = SubSeq(c, 1, n)
    <3> DEFINE u == SubSeq(p, 1, n)
               v == SubSeq(c, 1, n)
    <3>1. n \in 0 .. Len(p) /\ n \in 0 .. Len(c) /\ \A i \in 1 .. n : i \in 1 .. m
      BY <1>1, <2>2, <2>3 DEF m
    <3>2. u \in Nodes /\ Len(u) = n /\ v \in Nodes /\ Len(v) = n /\ \A i \in 1 .. n : u[i] = p[i] /\ v[i] = c[i]
      BY <1>1, <2>3, <3>1, PrefixIs
    <3>3. \A i \in 1 .. n : u[i] = v[i]
      BY <2>3, <3>1, <3>2
    <3> HIDE DEF u, v
    <3>4. u = v
      BY <3>2, <3>3 DEF Nodes
    <3> QED
      BY <3>4 DEF u, v
  <2> QED
    BY <2>2, <2>3, <2>4
<1>3. Held(p) = held[m]
  <2>1. Held(p) = held[Len(p)]
    BY Zenon DEF Held, Leads
  <2> QED
    BY <1>2, <2>1
<1> HIDE DEF p, m
<1>4. Leads(held, p)
  BY <1>2, LeadsExists
<1> HIDE DEF held
<1> DEFINE at(n) == SubSeq(c, 1, n)
<1>5. ASSUME NEW n \in 1 .. Len(c) PROVE at(n) \in ToSet(Children(req, at(n - 1)))
  BY PathOfChildren
<1>6. at(0) = <<>> /\ at(Len(c)) = c
  BY <1>1 DEF Nodes
<1> HIDE DEF at
<1> DEFINE S == {n \in 0 .. m : held[n] \in Seq(Of(req, heap, at(n)))}
<1>7. 0 \in S
  <2>1. 0 \in 0 .. m
    BY <1>2
  <2>2. held[0] = roots
    BY <1>2, <1>4, <2>1 DEF Leads
  <2> QED
    BY <1>6, <2>1, <2>2
<1>8. ASSUME NEW n \in 0 .. m - 1, n \in S PROVE n + 1 \in S
  <2>1. n + 1 \in 0 .. m /\ n + 1 # 0 /\ (n + 1) - 1 = n /\ n + 1 \in 1 .. Len(c)
    BY <1>1, <1>2 DEF m
  <2>2. held[n + 1] = Targets(heap, at(n + 1), held[n])
    <3>1. held[n + 1] = Targets(heap, SubSeq(p, 1, n + 1), held[n])
      BY <1>2, <1>4, <2>1 DEF Leads
    <3>2. SubSeq(p, 1, n + 1) = at(n + 1)
      BY <1>2, <2>1 DEF at
    <3> QED
      BY <3>1, <3>2
  <2>3. at(n + 1) \in ToSet(Children(req, at(n)))
    BY <1>5, <2>1
  <2>4. held[n] \in Seq(Of(req, heap, at(n)))
    BY <1>8
  <2>5. held[n] \in Seq(Above(heap, at(n + 1)))
    BY <2>3, <2>4, OfIsAbove
  <2>6. Targets(heap, at(n + 1), held[n]) \in Seq(Of(req, heap, at(n + 1)))
    BY <2>5, TargetsAre
  <2> QED
    BY <2>1, <2>2, <2>6
<1>9. m \in 0 .. m
  BY <1>2
<1> HIDE DEF S
<1>10. \A n \in 0 .. m : n \in S
  BY <1>2, <1>7, <1>8, UpTo
<1>11. held[m] \in Seq(Of(req, heap, at(m)))
  BY <1>9, <1>10 DEF S
<1>12. c \in ToSet(Children(req, at(m)))
  <2>1. Len(c) \in 1 .. Len(c) /\ Len(c) - 1 = m
    BY <1>1 DEF m
  <2>2. at(Len(c)) \in ToSet(Children(req, at(Len(c) - 1)))
    BY <1>5, <2>1
  <2> QED
    BY <1>6, <2>1, <2>2
<1>13. held[m] \in Seq(Above(heap, c))
  BY <1>11, <1>12, OfIsAbove
<1> QED
  BY <1>3, <1>13 DEF p

\* The invariant is what a returned SELECT promises of its order.
LEMMA InvGivesOrder == LoadInv /\ OrderInv => CollectionsKeepTheirOrder
<1> SUFFICES ASSUME LoadInv, OrderInv, phase = "returned", NEW c \in req.ordered, NEW o \in ToSet(Held(Front(c)))
             PROVE  Sorted(heap, heap[o].rel[c])
  BY Zenon DEF CollectionsKeepTheirOrder, Sorted
<1>1. /\ req \in Requests /\ WellFormed(req, heap) /\ roots \in Seq(Of(req, heap, <<>>)) /\ Tidy(heap, req.ordered)
  BY DEF LoadInv, HeapInv, OrderInv
<1>2. c \in ToSet(req.paths)
  BY <1>1, RequestAssumption
<1>3. Held(Front(c)) \in Seq(Above(heap, c))
  BY <1>1, <1>2, HeldAreAbove
<1>4. o \in Above(heap, c)
  BY <1>3, SeqOfItself
<1> QED
  BY <1>1, <1>4 DEF Tidy

\* An ordered collection has that order in every parent of a result, whatever keys
\* the parents share and whichever batches served them: preload.go appends the
\* targets of a statement row by row, and reads a key in one statement only.
THEOREM OrderIsKept == LoadSpec => []CollectionsKeepTheirOrder
<1>1. WriteInit /\ PreloadInit => LoadInv /\ OrderInv
  <2>1. PreloadInit => OrderInv
    BY DEF PreloadInit, OrderInv
  <2> QED
    BY <2>1, LoadInvInit
<1>2. LoadInv /\ OrderInv /\ [LoadNext]_<<writeVars, loadVars>> => LoadInv' /\ OrderInv'
  BY LoadInvStep, OrderInvStep
<1>3. LoadInv /\ OrderInv => CollectionsKeepTheirOrder
  BY InvGivesOrder
<1> QED
  BY <1>1, <1>2, <1>3, PTL DEF LoadSpec
=============================================================================
