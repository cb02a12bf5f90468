--------------------------- MODULE MutationsProofs ---------------------------
(* Theorems about the typed mutations, for every model, every placeholder limit, *)
(* every table, every input and every interleaving of calls: the batches of the  *)
(* bulk forms, what a statement does to the table and what its count says of it,  *)
(* which rows it leaves alone, the generated key in the caller's model, and the   *)
(* pages of a caller that reads the table with SeekAfter meanwhile.               *)
EXTENDS Rows, FoldTheorems, SequenceTheorems, FiniteSetTheorems, TLAPS

---------------------------------------------------------------------------
(* Arithmetic of one statement.                                            *)

LEMMA MinOfTwo ==
    ASSUME NEW a \in Nat, NEW b \in Nat
    PROVE  /\ Min({a, b}) \in {a, b}
           /\ Min({a, b}) <= a /\ Min({a, b}) <= b
<1>1. \E x \in {a, b} : \A y \in {a, b} : x <= y
  OBVIOUS
<1> QED
  BY <1>1 DEF Min

LEMMA MaxOfTwo ==
    ASSUME NEW a \in Nat, NEW b \in Nat
    PROVE  /\ Max({a, b}) \in {a, b}
           /\ Max({a, b}) >= a /\ Max({a, b}) >= b
<1>1. \E x \in {a, b} : \A y \in {a, b} : x >= y
  OBVIOUS
<1> QED
  BY <1>1 DEF Max

\* What integer division leaves room for.
LEMMA DivisionFits ==
    ASSUME NEW a \in Nat, NEW b \in Nat \ {0}, NEW n \in Nat, n <= a \div b
    PROVE  n * b <= a
<1>1. a \div b \in Nat /\ (a \div b) * b <= a
  BY Z3
<1>2. n * b <= (a \div b) * b
  BY <1>1, Z3
<1> QED
  BY <1>1, <1>2, Z3

\* A limit that one unit does not exceed gives room for one.
LEMMA DivisionPositive ==
    ASSUME NEW a \in Nat, NEW b \in Nat \ {0}, b <= a
    PROVE  a \div b \in Nat \ {0}
  BY Z3

---------------------------------------------------------------------------
(* How many rows one statement of a bulk call takes.                       *)

\* What a call is made of.
LEMMA CallShape ==
    ASSUME NEW c \in Calls
    PROVE  /\ c # NoCall /\ c.op \in Single \cup Many \cup Filters
           /\ c.rows \in Seq(ModelValue \cup {NilRow}) /\ Len(c.rows) \in Nat
           /\ DOMAIN c.rows = 1 .. Len(c.rows)
           /\ c.op \in Single => Len(c.rows) = 1
           /\ c.where \in Seq(Seq(Predicate)) /\ c.set \in Seq(Assignment)
           /\ c.op \in {"delete", "delete where"} => ~c.withDeleted /\ c.fields = <<>>
<1>1. c.rows \in Seq(ModelValue \cup {NilRow})
  BY CallsAssumption, Zenon
<1>2. Len(c.rows) \in Nat /\ DOMAIN c.rows = 1 .. Len(c.rows)
  BY <1>1
<1> QED
  BY <1>1, <1>2, CallsAssumption, Zenon

\* The part of Accepted that the batches depend on.
Sendable(c) == /\ FieldsSelectable(c)
               /\ RowFits(c)
               /\ c.op = "update many" => DistinctKeys(c)

LEMMA AcceptedSendable ==
    ASSUME NEW c, Bulk(c), Accepted(c), ~NoOp(c)
    PROVE  Sendable(c)
  BY DEF Accepted, AcceptsInsertMany, AcceptsUpdateMany, Bulk, Many, Sendable

\* Some columns of the model are at least one and finitely many.
LEMMA ColumnsCounted ==
    ASSUME NEW S \in SUBSET UpdateFields, S # {}
    PROVE  Cardinality(S) \in Nat \ {0}
<1>1. IsFiniteSet({"rank", "del"})
  <2>1. IsFiniteSet({"rank"} \cup {"del"})
    BY FS_Singleton, FS_AddElement
  <2>2. {"rank"} \cup {"del"} = {"rank", "del"}
    OBVIOUS
  <2> QED
    BY <2>1, <2>2
<1>2. IsFiniteSet(S)
  <2>1. S \in SUBSET {"rank", "del"}
    BY DEF UpdateFields
  <2> QED
    BY <1>1, <2>1, FS_Subset
<1> QED
  BY <1>2, FS_CardinalityType, FS_EmptySet

\* An UPDATE writes at least one column, also when the call names its fields.
LEMMA WidthsPositive ==
    ASSUME model \in Models, NEW c \in Calls, FieldsSelectable(c)
    PROVE  /\ Cardinality(FieldsOf(c)) \in Nat \ {0}
           /\ UpdateWidth(c) \in Nat \ {0}
           /\ InsertWidth \in Nat \ {0}
           /\ model.width \in Nat \ {0}
<1>1. model.width \in Nat \ {0}
  BY MutationsAssumption DEF ModelType
<1>2. FieldsOf(c) \in SUBSET UpdateFields /\ FieldsOf(c) # {}
  <2>1. CASE c.fields = <<>>
    BY <2>1 DEF FieldsOf, UpdateFields
  <2>2. CASE c.fields # <<>>
    <3>1. c.fields \in Seq(Fields)
      BY CallsAssumption
    <3>2. 1 \in DOMAIN c.fields
      BY <2>2, <3>1
    <3>3. FieldsOf(c) = Range(c.fields)
      BY <2>2 DEF FieldsOf
    <3>4. Range(c.fields) \in SUBSET UpdateFields
      BY DEF FieldsSelectable
    <3>5. c.fields[1] \in Range(c.fields)
      BY <3>2 DEF Range
    <3> QED
      BY <3>3, <3>4, <3>5
  <2> QED
    BY <2>1, <2>2
<1>3. Cardinality(FieldsOf(c)) \in Nat \ {0}
  BY <1>2, ColumnsCounted
<1>4. Cardinality(UpdateFields) \in Nat \ {0}
  BY ColumnsCounted DEF UpdateFields
<1>5. InsertWidth \in Nat \ {0}
  BY <1>1, <1>4 DEF InsertWidth
<1>6. UpdateWidth(c) \in Nat \ {0}
  <2> DEFINE n == Cardinality(FieldsOf(c))
  <2>1. \A a, b \in Nat \ {0} : (a + 1) * b + a \in Nat \ {0}
    BY Z3
  <2> QED
    BY <1>1, <1>3, <2>1 DEF UpdateWidth
<1> QED
  BY <1>1, <1>3, <1>5, <1>6

\* A batch holds at least one row, and no batch exceeds the placeholder limit.
LEMMA BatchFits ==
    ASSUME model \in Models, NEW c \in Calls, Bulk(c), Sendable(c)
    PROVE  /\ RowsPerStatement(c) \in Nat \ {0}
           /\ \A n \in Nat \ {0} : n <= RowsPerStatement(c)
                                   => Placeholders(c, n) <= MaxParameters
<1>1. /\ Cardinality(FieldsOf(c)) \in Nat \ {0}
      /\ UpdateWidth(c) \in Nat \ {0}
      /\ InsertWidth \in Nat \ {0}
      /\ model.width \in Nat \ {0}
  BY WidthsPositive DEF Sendable
<1>2. MaxParameters \in Nat \ {0}
  BY MutationsAssumption
<1>3. CASE c.op = "update many"
  <2> DEFINE room == MaxParameters \div UpdateWidth(c)
  <2>1. room \in Nat
    <3>1. \A a \in Nat, b \in Nat \ {0} : a \div b \in Nat
      BY Z3
    <3> QED
      BY <1>1, <1>2, <3>1
  <2>2. RowsPerStatement(c) = Max({1, room})
    BY <1>3 DEF RowsPerStatement
  <2>3. Max({1, room}) \in {1, room} /\ Max({1, room}) >= 1
    BY <2>1, MaxOfTwo
  <2>4. RowsPerStatement(c) \in Nat \ {0}
    BY <2>1, <2>2, <2>3
  <2>5. ASSUME NEW n \in Nat \ {0}, n <= RowsPerStatement(c)
        PROVE  Placeholders(c, n) <= MaxParameters
    <3>1. CASE n = 1
      BY <1>3, <3>1 DEF Placeholders, Sendable, RowFits
    <3>2. CASE n # 1
      <4>1. n <= room
        BY <2>1, <2>2, <2>3, <2>5, <3>2
      <4>2. n * UpdateWidth(c) <= MaxParameters
        BY <1>1, <1>2, <4>1, DivisionFits
      <4>3. Placeholders(c, n) = n * UpdateWidth(c)
        BY <1>3, <3>2, Zenon DEF Placeholders
      <4> QED
        BY <4>2, <4>3
    <3> QED
      BY <2>5, <3>1, <3>2
  <2> QED
    BY <2>4, <2>5
<1>4. CASE c.op # "update many"
  <2>1. RowsPerStatement(c) = MaxParameters \div InsertWidth
    BY <1>4 DEF RowsPerStatement
  <2>2. InsertWidth <= MaxParameters
    BY <1>4 DEF Sendable, RowFits
  <2>3. RowsPerStatement(c) \in Nat \ {0}
    BY <1>1, <1>2, <2>1, <2>2, DivisionPositive
  <2>4. ASSUME NEW n \in Nat \ {0}, n <= RowsPerStatement(c)
        PROVE  Placeholders(c, n) <= MaxParameters
    <3>1. n * InsertWidth <= MaxParameters
      BY <1>1, <1>2, <2>1, <2>4, DivisionFits
    <3>2. Placeholders(c, n) = n * InsertWidth
      BY <1>4 DEF Placeholders
    <3> QED
      BY <3>1, <3>2
  <2> QED
    BY <2>3, <2>4
<1> QED
  BY <1>3, <1>4

---------------------------------------------------------------------------
(* The inductive invariant.                                                *)

Shape == /\ model \in Models
         /\ call \in [Workers -> Calls \cup {NoCall}]
         /\ start \in [Workers -> Nat]
         /\ sent \in [Workers -> Seq(Nat \X Nat)]
         /\ outcome = [w \in Workers |-> outcome[w]]

IdleInv == \A w \in Workers : call[w] = NoCall => start[w] = 0 /\ sent[w] = <<>>

\* The ranges sent so far are a chain that ends where the next batch starts.
Chain(w, c) ==
    /\ start[w] = IF sent[w] = <<>> THEN 0 ELSE sent[w][Len(sent[w])][2]
    /\ \A k \in DOMAIN sent[w] :
          /\ sent[w][k][1] = IF k = 1 THEN 0 ELSE sent[w][k - 1][2]
          /\ sent[w][k][1] < sent[w][k][2]
          /\ sent[w][k][2] - sent[w][k][1] <= RowsPerStatement(c)

\* Nothing is sent for a call that was refused, and the loop ends with the input.
Progress(w, c) ==
    /\ start[w] <= Len(c.rows)
    /\ outcome[w].state = "pending" => Sendable(c) /\ start[w] < Len(c.rows)
    /\ start[w] > 0 => Sendable(c)
    /\ outcome[w].state = "ok" /\ c.rows # <<>> => start[w] = Len(c.rows)

BulkInv == \A w \in Workers, c \in Calls :
              call[w] = c /\ Bulk(c) => Chain(w, c) /\ Progress(w, c)

BatchInv == Shape /\ IdleInv /\ BulkInv

\* The size of a batch depends on the model and the call, which do not change.
LEMMA Rigid ==
    ASSUME NEW c, UNCHANGED model
    PROVE  /\ RowsPerStatement(c)' = RowsPerStatement(c)
           /\ Sendable(c)' <=> Sendable(c)
<1>1. /\ UpdateFields' = UpdateFields
      /\ FieldsOf(c)' = FieldsOf(c)
      /\ InsertWidth' = InsertWidth
      /\ UpdateWidth(c)' = UpdateWidth(c)
  BY DEF UpdateFields, FieldsOf, InsertWidth, UpdateWidth
<1>2. RowsPerStatement(c)' = RowsPerStatement(c)
  BY <1>1 DEF RowsPerStatement
<1>3. /\ FieldsSelectable(c)' <=> FieldsSelectable(c)
      /\ RowFits(c)' <=> RowFits(c)
      /\ DistinctKeys(c)' <=> DistinctKeys(c)
  BY <1>1 DEF FieldsSelectable, RowFits, DistinctKeys
<1> QED
  BY <1>2, <1>3 DEF Sendable

LEMMA BatchInit == Init => BatchInv
<1> SUFFICES ASSUME Init
             PROVE  BatchInv
  OBVIOUS
<1>1. Shape /\ IdleInv
  BY DEF Init, Shape, IdleInv
<1>2. BulkInv
  BY CallsAssumption DEF Init, BulkInv
<1> QED
  BY <1>1, <1>2 DEF BatchInv

\* A call that starts has sent nothing.
LEMMA StartStep ==
    ASSUME BatchInv, NEW w \in Workers, Start(w)
    PROVE  BatchInv'
<1>1. PICK c \in Calls :
          /\ call[w] = NoCall
          /\ call' = [call EXCEPT ![w] = c]
          /\ outcome' = [outcome EXCEPT ![w] =
                 IF ~Accepted(c) THEN Returned("refused", 0)
                 ELSE IF NoOp(c) THEN Returned("ok", 0) ELSE Pending]
          /\ UNCHANGED <<model, start, sent>>
  BY DEF Start
<1>2. start[w] = 0 /\ sent[w] = <<>> /\ c # NoCall
  BY <1>1, CallShape DEF BatchInv, IdleInv
<1>3. Shape'
  BY <1>1 DEF BatchInv, Shape
<1>4. IdleInv'
  BY <1>1, <1>2 DEF BatchInv, Shape, IdleInv
<1>5. BulkInv'
  <2> SUFFICES ASSUME NEW v \in Workers, NEW d \in Calls, call'[v] = d, Bulk(d)
               PROVE  Chain(v, d)' /\ Progress(v, d)'
    BY DEF BulkInv, Bulk
  <2>1. RowsPerStatement(d)' = RowsPerStatement(d) /\ (Sendable(d)' <=> Sendable(d))
    BY <1>1, Rigid
  <2>2. CASE v = w
    <3>1. d = c /\ Len(d.rows) \in Nat /\ (d.rows # <<>> => Len(d.rows) > 0)
      <4>1. d = c /\ d.rows \in Seq(ModelValue \cup {NilRow})
        BY <1>1, <2>2, CallShape DEF BatchInv, Shape
      <4> QED
        BY <4>1
    <3>2. outcome'[w] = IF ~Accepted(c) THEN Returned("refused", 0)
                        ELSE IF NoOp(c) THEN Returned("ok", 0) ELSE Pending
      BY <1>1 DEF BatchInv, Shape
    <3>3. Chain(v, d)'
      BY <1>1, <1>2, <2>2 DEF Chain
    <3>4. outcome'[w].state = "pending" => Accepted(c) /\ ~NoOp(c)
      BY <3>2 DEF Returned
    <3>5. outcome'[w].state = "ok" => c.rows = <<>>
      BY <3>2 DEF Returned, Pending, NoOp
    <3>6. outcome'[w].state = "pending" => Sendable(d)' /\ d.rows # <<>>
      BY <2>1, <3>1, <3>4, AcceptedSendable DEF NoOp
    <3>7. start'[v] = 0
      BY <1>1, <1>2, <2>2
    <3> QED
      BY <2>2, <3>1, <3>3, <3>5, <3>6, <3>7 DEF Progress
  <2>3. CASE v # w
    <3>1. /\ call[v] = d /\ start'[v] = start[v] /\ sent'[v] = sent[v]
          /\ outcome'[v] = outcome[v]
      BY <1>1, <2>3 DEF BatchInv, Shape
    <3>2. Chain(v, d) /\ Progress(v, d)
      BY <3>1 DEF BatchInv, BulkInv
    <3> QED
      BY <2>1, <3>1, <3>2 DEF Chain, Progress
  <2> QED
    BY <2>2, <2>3
<1> QED
  BY <1>3, <1>4, <1>5 DEF BatchInv

\* The next statement of a bulk call takes at least one row, and none too many.
LEMMA BatchBounds ==
    ASSUME BatchInv, NEW w \in Workers, Running(w), Bulk(call[w])
    PROVE  /\ End(w) \in Nat /\ start[w] < End(w) /\ End(w) <= Len(call[w].rows)
           /\ End(w) - start[w] <= RowsPerStatement(call[w])
           /\ Sendable(call[w]) /\ Chain(w, call[w])
<1> DEFINE c == call[w]
<1>1. c \in Calls /\ c # NoCall /\ outcome[w].state = "pending"
  BY DEF BatchInv, Shape, Running
<1>2. /\ start[w] \in Nat /\ sent[w] \in Seq(Nat \X Nat) /\ Len(c.rows) \in Nat
  BY <1>1, CallShape DEF BatchInv, Shape
<1>3. Chain(w, c) /\ Progress(w, c)
  BY <1>1 DEF BatchInv, BulkInv
<1>4. Sendable(c) /\ start[w] < Len(c.rows)
  BY <1>1, <1>3 DEF Progress
<1>5. RowsPerStatement(c) \in Nat \ {0}
  BY <1>1, <1>3, <1>4, BatchFits DEF BatchInv, Shape
<1> DEFINE a == start[w] + RowsPerStatement(c)
           b == Len(c.rows)
<1>6. a \in Nat /\ b \in Nat /\ start[w] < a
  BY <1>2, <1>5
<1>7. End(w) = Min({a, b})
  BY DEF End
<1>8. Min({a, b}) \in {a, b} /\ Min({a, b}) <= a /\ Min({a, b}) <= b
  BY <1>6, MinOfTwo
<1> HIDE DEF a, b
<1>9. End(w) \in Nat /\ start[w] < End(w) /\ End(w) <= b /\ End(w) <= a
  BY <1>4, <1>6, <1>7, <1>8 DEF b
<1> QED
  BY <1>2, <1>3, <1>4, <1>5, <1>9 DEF a, b

\* A statement extends the chain by one batch; the call goes on only when rows are
\* left and succeeds only when none are.
LEMMA SendStep ==
    ASSUME BatchInv, NEW w \in Workers, Running(w), Send(w),
           NEW state, NEW total, Returns(w, state, total),
           state = "pending" => MoreBatches(w),
           state = "ok" => ~MoreBatches(w)
    PROVE  BatchInv'
<1> DEFINE c == call[w]
<1>1. c \in Calls /\ c # NoCall /\ outcome[w].state = "pending"
  BY DEF BatchInv, Shape, Running
<1>2. /\ start[w] \in Nat /\ sent[w] \in Seq(Nat \X Nat) /\ Len(c.rows) \in Nat
  BY <1>1, CallShape DEF BatchInv, Shape
<1>3. ASSUME Bulk(c)
      PROVE  /\ End(w) \in Nat /\ start[w] < End(w) /\ End(w) <= Len(c.rows)
             /\ End(w) - start[w] <= RowsPerStatement(c)
             /\ Sendable(c) /\ Chain(w, c)
  BY <1>3, BatchBounds
<1>4. End(w) \in Nat
  BY <1>3 DEF End
<1>5. /\ call' = call /\ model' = model
      /\ start' = [start EXCEPT ![w] = End(w)]
      /\ sent' = [sent EXCEPT ![w] = Append(@, <<start[w], End(w)>>)]
      /\ outcome' = [outcome EXCEPT ![w] = Returned(state, total)]
  BY DEF Send, Returns
<1>6. /\ start'[w] = End(w)
      /\ sent'[w] = Append(sent[w], <<start[w], End(w)>>)
      /\ outcome'[w].state = state
  BY <1>5 DEF BatchInv, Shape, Returned
<1>7. Shape'
  <2>1. Append(sent[w], <<start[w], End(w)>>) \in Seq(Nat \X Nat)
    BY <1>2, <1>4
  <2> QED
    BY <1>4, <1>5, <2>1 DEF BatchInv, Shape
<1>8. IdleInv'
  BY <1>1, <1>5 DEF BatchInv, Shape, IdleInv
<1>9. BulkInv'
  <2> SUFFICES ASSUME NEW v \in Workers, NEW d \in Calls, call'[v] = d, Bulk(d)
               PROVE  Chain(v, d)' /\ Progress(v, d)'
    BY DEF BulkInv, Bulk
  <2>1. RowsPerStatement(d)' = RowsPerStatement(d) /\ (Sendable(d)' <=> Sendable(d))
    BY <1>5, Rigid
  <2>2. CASE v = w
    <3>1. d = c
      BY <1>5, <2>2
    <3>2. /\ End(w) \in Nat /\ start[w] < End(w) /\ End(w) <= Len(d.rows)
          /\ End(w) - start[w] <= RowsPerStatement(d)
          /\ Sendable(d) /\ Chain(w, d)
      BY <1>3, <3>1
    <3>3. Progress(v, d)'
      <4>1. state = "pending" => End(w) < Len(d.rows)
        BY <3>1 DEF MoreBatches
      <4>2. state = "ok" => ~(End(w) < Len(d.rows))
        BY <3>1 DEF MoreBatches
      <4>3. Len(d.rows) \in Nat
        BY <1>2, <3>1
      <4>4. state = "ok" => End(w) = Len(d.rows)
        BY <3>2, <4>2, <4>3
      <4> QED
        BY <1>6, <2>1, <2>2, <3>2, <4>1, <4>4 DEF Progress
    <3>4. Chain(v, d)'
      <4> DEFINE s == sent[w]
                 t == Append(s, <<start[w], End(w)>>)
      <4>1. /\ s \in Seq(Nat \X Nat) /\ Len(s) \in Nat /\ Len(t) = Len(s) + 1
            /\ DOMAIN t = 1 .. Len(s) + 1 /\ DOMAIN s = 1 .. Len(s)
            /\ t[Len(s) + 1] = <<start[w], End(w)>>
            /\ \A k \in 1 .. Len(s) : t[k] = s[k]
            /\ t # <<>> /\ (s = <<>> <=> Len(s) = 0)
        BY <1>2, <1>4
      <4>2. /\ start[w] = IF s = <<>> THEN 0 ELSE s[Len(s)][2]
            /\ \A k \in DOMAIN s :
                  /\ s[k][1] = IF k = 1 THEN 0 ELSE s[k - 1][2]
                  /\ s[k][1] < s[k][2]
                  /\ s[k][2] - s[k][1] <= RowsPerStatement(d)
        BY <3>2 DEF Chain
      <4>3. start'[w] = t[Len(t)][2]
        BY <1>6, <4>1
      <4> HIDE DEF s, t
      <4>4. ASSUME NEW k \in DOMAIN t
            PROVE  /\ t[k][1] = IF k = 1 THEN 0 ELSE t[k - 1][2]
                   /\ t[k][1] < t[k][2]
                   /\ t[k][2] - t[k][1] <= RowsPerStatement(d)
        <5>1. CASE k <= Len(s)
          <6>1. k \in DOMAIN s /\ t[k] = s[k] /\ (k # 1 => t[k - 1] = s[k - 1])
            BY <4>1, <5>1
          <6> QED
            BY <4>2, <6>1
        <5>2. CASE k = Len(s) + 1
          <6>1. /\ t[k] = <<start[w], End(w)>>
                /\ (k # 1 => t[k - 1] = s[k - 1])
                /\ (k = 1 <=> s = <<>>)
            BY <4>1, <5>2
          <6>2. start[w] = IF k = 1 THEN 0 ELSE s[k - 1][2]
            BY <4>1, <4>2, <5>2, <6>1
          <6> QED
            BY <3>2, <6>1, <6>2
        <5> QED
          BY <4>1, <4>4, <5>1, <5>2
      <4>5. sent'[v] = t /\ start'[v] = t[Len(t)][2] /\ t # <<>>
        BY <1>6, <2>2, <4>1, <4>3 DEF s, t
      <4> QED
        BY <2>1, <4>4, <4>5 DEF Chain
    <3> QED
      BY <3>3, <3>4
  <2>3. CASE v # w
    <3>1. /\ call[v] = d /\ start'[v] = start[v] /\ sent'[v] = sent[v]
          /\ outcome'[v] = outcome[v]
      BY <1>5, <2>3 DEF BatchInv, Shape
    <3>2. Chain(v, d) /\ Progress(v, d)
      BY <3>1 DEF BatchInv, BulkInv
    <3> QED
      BY <2>1, <3>1, <3>2 DEF Chain, Progress
  <2> QED
    BY <2>2, <2>3
<1> QED
  BY <1>7, <1>8, <1>9 DEF BatchInv

LEMMA BatchStep == BatchInv /\ [Next]_vars => BatchInv'
<1> SUFFICES ASSUME BatchInv, [Next]_vars
             PROVE  BatchInv'
  OBVIOUS
<1>1. ASSUME NEW w \in Workers, Start(w)
      PROVE  BatchInv'
  BY <1>1, StartStep
<1>2. ASSUME NEW w \in Workers, Succeeds(w)
      PROVE  BatchInv'
  <2> DEFINE state == IF MoreBatches(w) THEN "pending" ELSE "ok"
  <2>1. Running(w) /\ Send(w) /\ \E total : Returns(w, state, total)
    BY <1>2 DEF Succeeds
  <2> QED
    BY <2>1, SendStep
<1>3. ASSUME NEW w \in Workers, EffectUnreported(w) \/ Fails(w)
      PROVE  BatchInv'
  <2>1. Running(w) /\ Send(w) /\ Returns(w, "failed", outcome[w].total)
    BY <1>3 DEF EffectUnreported, Fails, Fail
  <2> QED
    BY <2>1, SendStep
<1>4. CASE UNCHANGED vars
  <2>1. \A c : RowsPerStatement(c)' = RowsPerStatement(c) /\ (Sendable(c)' <=> Sendable(c))
    BY <1>4, Rigid DEF vars
  <2>2. Shape' /\ IdleInv'
    BY <1>4 DEF BatchInv, Shape, IdleInv, vars
  <2>3. BulkInv'
    <3> SUFFICES ASSUME NEW v \in Workers, NEW d \in Calls, call'[v] = d, Bulk(d)
                 PROVE  Chain(v, d)' /\ Progress(v, d)'
      BY DEF BulkInv, Bulk
    <3>1. call[v] = d /\ UNCHANGED <<start, sent, outcome>>
      BY <1>4 DEF vars
    <3>2. Chain(v, d) /\ Progress(v, d)
      BY <3>1 DEF BatchInv, BulkInv
    <3> QED
      BY <2>1, <3>1, <3>2 DEF Chain, Progress
  <2> QED
    BY <2>2, <2>3 DEF BatchInv
<1> QED
  BY <1>1, <1>2, <1>3, <1>4 DEF Next

---------------------------------------------------------------------------
(* The theorems.                                                           *)

LEMMA BatchInvariant == Spec => []BatchInv
<1> QED
  BY BatchInit, BatchStep, PTL DEF Spec

\* The statements of a bulk call take its rows in order, without gap or overlap,
\* each within the placeholder limit, and a success has sent all of them: the loop
\* over the batches of the bulk mutations, for every limit, width and input.
THEOREM Batches == Spec => []BatchesCoverInput
<1>1. BatchInv => BatchesCoverInput
  <2> SUFFICES ASSUME BatchInv, NEW w \in Workers, call[w] # NoCall, Bulk(call[w])
               PROVE  /\ \A k \in DOMAIN sent[w] :
                            /\ sent[w][k][1] = (IF k = 1 THEN 0 ELSE sent[w][k - 1][2])
                            /\ sent[w][k][1] < sent[w][k][2]
                            /\ Placeholders(call[w], sent[w][k][2] - sent[w][k][1]) <= MaxParameters
                      /\ outcome[w].state = "ok" /\ call[w].rows # <<>> =>
                            sent[w] # <<>> /\ Last(sent[w])[2] = Len(call[w].rows)
    BY DEF BatchesCoverInput
  <2> DEFINE c == call[w]
  <2>1. c \in Calls /\ model \in Models /\ sent[w] \in Seq(Nat \X Nat)
    BY DEF BatchInv, Shape
  <2>2. Chain(w, c) /\ Progress(w, c)
    BY <2>1 DEF BatchInv, BulkInv
  <2>3. ASSUME NEW k \in DOMAIN sent[w]
        PROVE  Placeholders(c, sent[w][k][2] - sent[w][k][1]) <= MaxParameters
    <3> DEFINE n == sent[w][k][2] - sent[w][k][1]
    <3>1. sent[w][k] \in Nat \X Nat
      BY <2>1
    <3>2. n \in Nat \ {0} /\ n <= RowsPerStatement(c)
      BY <2>2, <3>1 DEF Chain
    <3>3. start[w] > 0
      <4>1. /\ Len(sent[w]) \in DOMAIN sent[w] /\ sent[w] # <<>>
            /\ sent[w][Len(sent[w])] \in Nat \X Nat
        BY <2>1
      <4>2. sent[w][Len(sent[w])][1] < sent[w][Len(sent[w])][2]
        BY <2>2, <4>1 DEF Chain
      <4> QED
        BY <2>2, <4>1, <4>2 DEF Chain
    <3>4. Sendable(c)
      BY <2>2, <3>3 DEF Progress
    <3> QED
      BY <2>1, <3>2, <3>4, BatchFits
  <2>4. ASSUME outcome[w].state = "ok", c.rows # <<>>
        PROVE  sent[w] # <<>> /\ Last(sent[w])[2] = Len(c.rows)
    <3>1. start[w] = Len(c.rows) /\ Len(c.rows) # 0
      <4>1. c.rows \in Seq(ModelValue \cup {NilRow})
        BY <2>1, CallShape, Zenon
      <4> QED
        BY <2>2, <2>4, <4>1 DEF Progress
    <3> QED
      BY <2>2, <3>1 DEF Chain, Last
  <2> QED
    BY <2>2, <2>3, <2>4 DEF Chain
<1> QED
  BY <1>1, BatchInvariant, PTL

\* No bulk UPDATE assigns a row twice, neither in one statement nor in two of its
\* batches: the comparison of all keys before the first statement.
THEOREM AssignedOnce == Spec => []RowsAssignedOnce
<1>1. ASSUME BatchInv, NEW w \in Workers, call[w] # NoCall, call[w].op = "update many"
      PROVE  \A i, j \in 1 .. start[w] :
                call[w].rows[i].id = call[w].rows[j].id => i = j
  <2>1. call[w] \in Calls /\ Bulk(call[w]) /\ start[w] \in Nat
    BY <1>1 DEF BatchInv, Shape, Bulk, Many
  <2>2. Progress(w, call[w])
    BY <1>1, <2>1 DEF BatchInv, BulkInv
  <2>3. CASE start[w] = 0
    BY <2>3
  <2>4. CASE start[w] # 0
    <3>1. start[w] > 0
      BY <2>1, <2>4
    <3>2. Sendable(call[w]) /\ start[w] <= Len(call[w].rows)
      BY <2>2, <3>1 DEF Progress
    <3>3. DistinctKeys(call[w])
      BY <1>1, <3>2 DEF Sendable
    <3>4. 1 .. start[w] \in SUBSET DOMAIN call[w].rows
      <4>1. call[w].rows \in Seq(ModelValue \cup {NilRow})
        BY <2>1, CallShape
      <4> QED
        BY <2>1, <3>2, <4>1
    <3> QED
      BY <3>3, <3>4, Zenon DEF DistinctKeys
  <2> QED
    BY <2>3, <2>4
<1>2. BatchInv => RowsAssignedOnce
  BY <1>1 DEF RowsAssignedOnce
<1> QED
  BY <1>2, BatchInvariant, PTL

---------------------------------------------------------------------------
(* The condition of a statement.                                           *)

Groups == Seq(Seq(Predicate))
Text(groups) == FoldLeft(AppendGroup, <<<<>>>>, groups)
AsText(groups) == <<[i \in DOMAIN groups |-> Or(groups[i])]>>

LEMMA AppendToConjunction ==
    ASSUME NEW F, NEW t \in Seq(F), NEW group, Or(group) \in F
    PROVE  AppendGroup(<<t>>, group) = <<Append(t, Or(group))>>
<1> DEFINE x == Append(t, Or(group))
<1>1. x \in Seq(F) /\ Last(<<t>>) = t /\ Len(<<t>>) = 1
  BY DEF Last
<1>2. SubSeq(<<t>>, 1, 0) = <<>>
  OBVIOUS
<1>3. AppendGroup(<<t>>, group) = <<>> \o <<x>>
  <2>1. AppendGroup(<<t>>, group) = SubSeq(<<t>>, 1, Len(<<t>>) - 1) \o <<Append(Last(<<t>>), Or(group))>>
    BY Zenon DEF AppendGroup
  <2>2. Len(<<t>>) - 1 = 0
    OBVIOUS
  <2> QED
    BY <1>1, <1>2, <2>1, <2>2, Zenon
<1>4. <<x>> \in Seq(Seq(F))
  BY <1>1
<1> HIDE DEF x
<1>5. <<>> \o <<x>> = <<x>>
  BY <1>4
<1> QED
  BY <1>3, <1>5 DEF x

\* Every disjunction is one factor of the only conjunction: none of them opens a
\* second alternative.
LEMMA TextIsConjunction ==
    ASSUME NEW groups \in Groups
    PROVE  Text(groups) = AsText(groups)
<1> DEFINE n == Len(groups)
           F == {Or(groups[i]) : i \in 1 .. n}
           V == {<<t>> : t \in Seq(F)}
           base == <<<<>>>>
           H == [i \in 1 .. n |-> [v \in V |-> AppendGroup(v, groups[i])]]
           Grows(g) == g = [u \in SUBSET DOMAIN groups |->
                               IF u = {} THEN base
                               ELSE AppendGroup(g[u \ {Max(u)}], groups[Max(u)])]
           upTo(k) == <<[i \in 1 .. k |-> Or(groups[i])]>>
<1>1. n \in Nat /\ DOMAIN groups = 1 .. n
  BY DEF Groups
<1>2. ASSUME NEW i \in 1 .. n, NEW t \in Seq(F)
      PROVE  AppendGroup(<<t>>, groups[i]) = <<Append(t, Or(groups[i]))>>
             /\ AppendGroup(<<t>>, groups[i]) \in V
  <2>1. Or(groups[i]) \in F
    OBVIOUS
  <2>2. AppendGroup(<<t>>, groups[i]) = <<Append(t, Or(groups[i]))>>
    BY <2>1, AppendToConjunction
  <2>3. Append(t, Or(groups[i])) \in Seq(F)
    BY <2>1
  <2> QED
    BY <2>2, <2>3
<1>3. H \in [1 .. n -> [V -> V]]
  <2>1. \A i \in 1 .. n, v \in V : AppendGroup(v, groups[i]) \in V
    BY <1>2
  <2> HIDE DEF V
  <2> QED
    BY <2>1
<1>4. base \in V
  <2>1. <<>> \in Seq(F)
    OBVIOUS
  <2> HIDE DEF F
  <2> QED
    BY <2>1
<1>5. PICK G \in [SUBSET (1 .. n) -> V] : Folds(G, n, base, H)
  <2> HIDE DEF n, H, V, base
  <2> QED
    BY <1>1, <1>3, <1>4, FoldExists, Zenon
<1>6. Grows(G)
  <2>1. ASSUME NEW u \in SUBSET (1 .. n), u # {}
        PROVE  H[Max(u)][G[u \ {Max(u)}]] = AppendGroup(G[u \ {Max(u)}], groups[Max(u)])
    <3>1. Max(u) \in 1 .. n
      BY <1>1, <2>1, MaxUpTo
    <3>2. u \ {Max(u)} \in SUBSET (1 .. n)
      OBVIOUS
    <3>3. G[u \ {Max(u)}] \in V
      <4> HIDE DEF V
      <4> QED
        BY <1>5, <3>2
    <3> HIDE DEF V, n
    <3> QED
      BY <3>1, <3>3
  <2> HIDE DEF H, n, V, base
  <2>2. \A u \in SUBSET (1 .. n) :
           G[u] = IF u = {} THEN base ELSE AppendGroup(G[u \ {Max(u)}], groups[Max(u)])
    BY <1>5, <2>1 DEF Folds
  <2>3. G = [u \in SUBSET (1 .. n) |-> G[u]]
    OBVIOUS
  <2> QED
    BY <1>1, <2>2, <2>3
<1> DEFINE g == CHOOSE it : Grows(it)
<1>7. Grows(g)
  <2> HIDE DEF Grows
  <2> QED
    BY <1>6
<1>8. Text(groups) = g[1 .. n]
  <2>1. Text(groups) = g[DOMAIN groups]
    BY Zenon DEF Text, FoldLeft, MapThenFoldSet
  <2> HIDE DEF g
  <2> QED
    BY <1>1, <2>1
<1> HIDE DEF g
<1>9. g[1 .. 0] = upTo(0)
  <2>1. 1 .. 0 = {} /\ 1 .. 0 \in SUBSET DOMAIN groups
    OBVIOUS
  <2>2. g[1 .. 0] = base
    BY <1>7, <2>1
  <2>3. [i \in 1 .. 0 |-> Or(groups[i])] = <<>>
    OBVIOUS
  <2> QED
    BY <2>2, <2>3
<1>10. ASSUME NEW k \in 0 .. n - 1, g[1 .. k] = upTo(k)
       PROVE  g[1 .. k + 1] = upTo(k + 1)
  <2>1. k + 1 \in 1 .. n /\ (k + 1) - 1 = k /\ k \in Nat
    BY <1>1
  <2>2. 1 .. k + 1 \in SUBSET DOMAIN groups /\ 1 .. k + 1 # {} /\ Max(1 .. k + 1) = k + 1
        /\ (1 .. k + 1) \ {k + 1} = 1 .. k
    BY <1>1, <2>1, MaxOfPrefix
  <2>3. g[1 .. k + 1] = AppendGroup(g[1 .. k], groups[k + 1])
    BY <1>7, <2>2
  <2> DEFINE t == [i \in 1 .. k |-> Or(groups[i])]
  <2>4. t \in Seq(F) /\ Len(t) = k
    <3>1. \A i \in 1 .. k : Or(groups[i]) \in F
      BY <1>1, <2>1
    <3> HIDE DEF F
    <3> QED
      BY <2>1, <3>1
  <2>5. g[1 .. k + 1] = <<Append(t, Or(groups[k + 1]))>>
    BY <1>2, <1>10, <2>1, <2>3, <2>4
  <2>6. Append(t, Or(groups[k + 1])) = [i \in 1 .. k + 1 |-> Or(groups[i])]
    BY <2>1, <2>4
  <2> QED
    BY <2>5, <2>6
<1>11. g[1 .. n] = upTo(n)
  <2> DEFINE S == {k \in 0 .. n : g[1 .. k] = upTo(k)}
  <2>1. 0 \in S
    BY <1>1, <1>9
  <2>2. \A k \in 0 .. n - 1 : k \in S => k + 1 \in S
    BY <1>1, <1>10
  <2>3. \A k \in 0 .. n : k \in S
    <3> HIDE DEF S, n, upTo
    <3> QED
      BY <1>1, <2>1, <2>2, UpTo
  <2>4. n \in 0 .. n
    BY <1>1
  <2> HIDE DEF upTo, n
  <2> QED
    BY <2>3, <2>4
<1> QED
  BY <1>1, <1>8, <1>11 DEF AsText

\* A row satisfies the condition when it satisfies an alternative of every group.
LEMMA TextMatches ==
    ASSUME NEW groups \in Groups, NEW row
    PROVE  Matches(Text(groups), row) <=>
              \A g \in DOMAIN groups : \E i \in DOMAIN groups[g] :
                 Atom(groups[g][i], row) = "true"
<1> DEFINE t == [i \in DOMAIN groups |-> Or(groups[i])]
<1>1. Text(groups) = <<t>>
  BY TextIsConjunction DEF AsText
<1>2. DOMAIN <<t>> = {1} /\ <<t>>[1] = t
  OBVIOUS
<1>3. Matches(Text(groups), row) <=> \A k \in DOMAIN t : Holds(t[k], row)
  <2> HIDE DEF t
  <2> QED
    BY <1>1, <1>2 DEF Matches
<1>4. \A k \in DOMAIN groups : Holds(t[k], row) <=>
         \E i \in DOMAIN groups[k] : Atom(groups[k][i], row) = "true"
  BY DEF Holds, Or
<1> QED
  BY <1>3, <1>4

LEMMA ActiveGroup ==
    ASSUME NEW b, model.soft, ~b
    PROVE  Active(b) = <<<<[field |-> "del", op |-> "is null", value |-> NULL]>>>>
  BY DEF Active

LEMMA ActiveIsText ==
    ASSUME NEW b
    PROVE  Active(b) \in Groups
<1> DEFINE p == [field |-> "del", op |-> "is null", value |-> NULL]
<1>1. p \in Predicate
  BY DEF Predicate, Fields, Value
<1> HIDE DEF p
<1>2. <<p>> \in Seq(Predicate)
  BY <1>1
<1>3. <<<<p>>>> \in Groups /\ <<>> \in Groups
  BY <1>2 DEF Groups
<1>4. Active(b) \in {<<<<p>>>>, <<>>}
  BY DEF Active, p
<1> QED
  BY <1>3, <1>4

LEMMA AfterConcat ==
    ASSUME NEW X, NEW u \in Seq(X), NEW v \in Seq(X), Len(v) = 1
    PROVE  Len(u) + 1 \in DOMAIN (u \o v) /\ (u \o v)[Len(u) + 1] = v[1]
<1>1. Len(u) \in Nat /\ u \o v \in Seq(X) /\ Len(u \o v) = Len(u) + 1
  <2>1. Len(u) \in Nat
    OBVIOUS
  <2>2. u \o v \in Seq(X)
    BY ConcatProperties, Zenon
  <2>3. Len(u \o v) = Len(u) + Len(v)
    BY ConcatProperties, Zenon
  <2> QED
    BY <2>1, <2>2, <2>3, Z3
<1>2. Len(u) + 1 \in 1 .. Len(u) + Len(v) /\ DOMAIN (u \o v) = 1 .. Len(u) + 1
  BY <1>1
<1>3. (u \o v)[Len(u) + 1] = IF Len(u) + 1 <= Len(u) THEN u[Len(u) + 1] ELSE v[(Len(u) + 1) - Len(u)]
  BY <1>2, ConcatProperties
<1>4. (Len(u) + 1) - Len(u) = 1 /\ ~(Len(u) + 1 <= Len(u))
  BY <1>1
<1> QED
  BY <1>2, <1>3, <1>4

\* What a statement with the condition of a call and of the soft-delete convention
\* selects.
LEMMA SelectedAreNamed ==
    ASSUME NEW where \in Groups, NEW b, NEW t, NEW id \in Selected(Text(where \o Active(b)), t)
    PROVE  /\ id \in DOMAIN t
           /\ \A g \in DOMAIN where : \E i \in DOMAIN where[g] :
                 Atom(where[g][i], AsRow(id, t)) = "true"
           /\ model.soft /\ ~b => t[id].del = NULL
<1> DEFINE all == where \o Active(b)
<1>1. Active(b) \in Groups /\ all \in Groups
  BY ActiveIsText DEF Groups
<1>2. id \in DOMAIN t /\ Matches(Text(all), AsRow(id, t))
  BY DEF Selected
<1>3. \A g \in DOMAIN all : \E i \in DOMAIN all[g] : Atom(all[g][i], AsRow(id, t)) = "true"
  <2> HIDE DEF all
  <2> QED
    BY <1>1, <1>2, TextMatches
<1>4. \A g \in DOMAIN where : g \in DOMAIN all /\ all[g] = where[g]
  BY <1>1 DEF Groups
<1>5. ASSUME model.soft, ~b
      PROVE  t[id].del = NULL
  <2> DEFINE p == [field |-> "del", op |-> "is null", value |-> NULL]
             m == Len(where) + 1
  <2>1. Active(b) = <<<<p>>>>
    BY <1>5, ActiveGroup
  <2>2. m \in DOMAIN all /\ all[m] = <<p>>
    <3> DEFINE a == <<<<p>>>>
    <3>1. a \in Groups /\ Len(a) = 1 /\ a[1] = <<p>> /\ all = where \o a
      BY <1>1, <2>1, Zenon
    <3> HIDE DEF a, p, all, m
    <3>2. Len(where) + 1 \in DOMAIN (where \o a) /\ (where \o a)[Len(where) + 1] = a[1]
      BY <3>1, AfterConcat DEF Groups
    <3> QED
      BY <3>1, <3>2 DEF m
  <2>3. PICK i \in DOMAIN <<p>> : Atom(<<p>>[i], AsRow(id, t)) = "true"
    <3> HIDE DEF all, p
    <3> QED
      BY <1>3, <2>2
  <2>4. Atom(p, AsRow(id, t)) = "true"
    <3>1. i = 1 /\ <<p>>[1] = p
      <4> HIDE DEF p
      <4> QED
        BY <2>3
    <3> HIDE DEF p
    <3> QED
      BY <2>3, <3>1
  <2> QED
    BY <2>4 DEF Atom, IsNull, Bool, AsRow
<1> HIDE DEF all
<1> QED
  BY <1>2, <1>3, <1>4, <1>5

---------------------------------------------------------------------------
(* Rows and what statements make of them.                                  *)

TableType == UNION {[D -> RowType] : D \in SUBSET Ids}

Ranks == IF "rank" \in model.pointers THEN Value ELSE Nat
Times == (Nat \ {Zero}) \cup {NULL}

LEMMA RowIs == RowType = [rank : Ranks, del : Times]
  BY DEF RowType, RowOf, Ranks, Times

\* What the callers of a statement have checked of its rows.
Given(rows) == /\ rows \in Seq(ModelValue)
               /\ \A i \in DOMAIN rows : \A f \in Fields : Holdable(f, rows[i][f])

LEMMA TableIsFinite ==
    ASSUME NEW t \in TableType
    PROVE  /\ t \in [DOMAIN t -> RowType] /\ DOMAIN t \in SUBSET Ids
           /\ IsFiniteSet(DOMAIN t)
           /\ \A u \in TableType : IsFiniteSet(Differs(t, u)) /\ Cardinality(Differs(t, u)) \in Nat
<1>1. \A u \in TableType : u \in [DOMAIN u -> RowType] /\ DOMAIN u \in SUBSET Ids
  BY DEF TableType
<1>2. ASSUME NEW u \in TableType
      PROVE  IsFiniteSet(DOMAIN u)
  BY <1>1, FS_Subset, MutationsAssumption
<1>3. ASSUME NEW u \in TableType
      PROVE  IsFiniteSet(Differs(t, u)) /\ Cardinality(Differs(t, u)) \in Nat
  <2>1. Differs(t, u) \in SUBSET Ids
    BY <1>1 DEF Differs
  <2> QED
    BY <2>1, FS_Subset, FS_CardinalityType, MutationsAssumption
<1> QED
  BY <1>1, <1>2, <1>3

\* A deletion time that the Go field holds is none or a real one, and a rank that it
\* holds is one that its rows can have.
LEMMA ArgumentsAreRows ==
    ASSUME model \in Models, NEW v \in Value
    PROVE  /\ Holdable("rank", v) => Argument("rank", v) \in Ranks
           /\ Holdable("del", v) => Argument("del", v) \in Times
<1>1. Holdable("rank", v) => Argument("rank", v) \in Ranks
  BY DEF Argument, Holdable, Ranks, Value
<1>2. ASSUME Holdable("del", v)
      PROVE  Argument("del", v) \in Times
  <2>1. CASE v # Zero
    BY <2>1 DEF Argument, Value, Times
  <2>2. CASE v = Zero
    <3>1. NULL # Zero
      BY MutationsAssumption DEF Zero
    <3>2. model.soft /\ "del" \notin model.pointers
      BY <1>2, <2>2, <3>1 DEF Holdable
    <3> QED
      BY <2>2, <3>2 DEF Argument, Times
  <2> QED
    BY <2>1, <2>2
<1> QED
  BY <1>1, <1>2

LEMMA WrittenIsRow ==
    ASSUME model \in Models, NEW row \in ModelValue, \A f \in Fields : Holdable(f, row[f]),
           NEW old \in RowType, NEW c
    PROVE  /\ Written(c, row, old) \in RowType
           /\ "del" \notin FieldsOf(c) => Written(c, row, old).del = old.del
<1>1. /\ row.rank \in Value /\ row.del \in Value /\ Holdable("rank", row.rank) /\ Holdable("del", row.del)
  BY DEF ModelValue, Fields
<1>2. /\ Argument("rank", row.rank) \in Ranks
      /\ Argument("del", row.del) \in Times
  BY <1>1, ArgumentsAreRows
<1> QED
  BY <1>2, RowIs DEF Written

LEMMA InsertedIsRow ==
    ASSUME model \in Models, NEW row \in ModelValue, \A f \in Fields : Holdable(f, row[f])
    PROVE  Inserted(row) \in RowType
<1>1. /\ row.rank \in Value /\ row.del \in Value /\ Holdable("rank", row.rank) /\ Holdable("del", row.del)
  BY DEF ModelValue, Fields
<1>2. /\ Argument("rank", row.rank) \in Ranks
      /\ Argument("del", row.del) \in Times
  BY <1>1, ArgumentsAreRows
<1>3. NULL \in Times
  BY DEF Times
<1> QED
  BY <1>2, <1>3, RowIs DEF Inserted

\* INSERT: the rows that are new, each once.
LEMMA InsertRowsEffect ==
    ASSUME model \in Models, table \in TableType, NEW rows, Given(rows),
           NEW e \in InsertEffects(rows)
    PROVE  /\ e.done.table \in TableType
           /\ \A id \in DOMAIN table : id \in DOMAIN e.done.table /\ e.done.table[id] = table[id]
           /\ e.done.affected = Cardinality(Differs(table, e.done.table))
<1>1. PICK ids \in Keys(rows) : ~Duplicate(ids) /\ e.done = InsertRows(rows, ids)
  BY DEF InsertEffects
<1>2. Len(rows) \in Nat /\ DOMAIN rows = 1 .. Len(rows)
  BY DEF Given
<1>3. ids \in [DOMAIN rows -> Ids]
  BY <1>1 DEF Keys
<1>4. IsInjective(ids) /\ Range(ids) \cap DOMAIN table = {}
  BY <1>1 DEF Duplicate
<1> DEFINE new == [id \in Range(ids) |-> Inserted(rows[CHOOSE i \in DOMAIN ids : ids[i] = id])]
           T == [id \in DOMAIN table \cup Range(ids) |->
                    IF id \in Range(ids) THEN new[id] ELSE table[id]]
<1>5. e.done.table = T /\ e.done.affected = Len(rows)
  BY <1>1 DEF InsertRows
<1>6. Range(ids) \in SUBSET Ids
  BY <1>3 DEF Range
<1>7. table \in [DOMAIN table -> RowType] /\ DOMAIN table \in SUBSET Ids
  BY TableIsFinite
<1>8. new \in [Range(ids) -> RowType]
  <2> SUFFICES ASSUME NEW id \in Range(ids)
               PROVE  Inserted(rows[CHOOSE i \in DOMAIN ids : ids[i] = id]) \in RowType
    OBVIOUS
  <2> DEFINE i == CHOOSE i \in DOMAIN ids : ids[i] = id
  <2>1. i \in DOMAIN ids
    BY DEF Range
  <2>2. i \in DOMAIN rows
    BY <1>3, <2>1
  <2> HIDE DEF i
  <2>3. rows[i] \in ModelValue /\ \A f \in Fields : Holdable(f, rows[i][f])
    BY <2>2 DEF Given
  <2>4. Inserted(rows[i]) \in RowType
    BY <2>3, InsertedIsRow
  <2> QED
    BY <2>4 DEF i
<1> HIDE DEF new
<1>9. T \in [DOMAIN table \cup Range(ids) -> RowType]
  BY <1>7, <1>8
<1>10. T \in TableType
  <2>1. DOMAIN table \cup Range(ids) \in SUBSET Ids
    BY <1>6, <1>7
  <2> HIDE DEF T
  <2> QED
    BY <1>9, <2>1 DEF TableType
<1>11. \A id \in DOMAIN table : id \in DOMAIN T /\ T[id] = table[id]
  BY <1>4
<1>12. Differs(table, T) = Range(ids)
  BY <1>4 DEF Differs
<1>13. Cardinality(Range(ids)) = Len(rows)
  <2>1. ids \in Bijection(1 .. Len(rows), Range(ids))
    BY <1>2, <1>3, <1>4 DEF Bijection, Injection, Surjection, Range
  <2>2. ExistsBijection(1 .. Len(rows), Range(ids))
    BY <2>1 DEF ExistsBijection
  <2> QED
    BY <1>2, <2>2, FS_CountingElements
<1> HIDE DEF T
<1> QED
  BY <1>5, <1>10, <1>11, <1>12, <1>13

\* Rows that were tables of the right type before, with one more row written.
LEMMA TableWithRow ==
    ASSUME NEW t \in TableType, NEW id \in Ids, NEW row \in RowType
    PROVE  [k \in DOMAIN t \cup {id} |-> IF k = id THEN row ELSE t[k]] \in TableType
<1>1. t \in [DOMAIN t -> RowType] /\ DOMAIN t \in SUBSET Ids
  BY TableIsFinite
<1> DEFINE D == DOMAIN t \cup {id}
<1>2. D \in SUBSET Ids
  BY <1>1
<1>3. [k \in D |-> IF k = id THEN row ELSE t[k]] \in [D -> RowType]
  BY <1>1
<1> HIDE DEF D
<1>4. [k \in D |-> IF k = id THEN row ELSE t[k]] \in TableType
  BY <1>2, <1>3 DEF TableType
<1> QED
  BY <1>4 DEF D

Upserted == [table : TableType, affected : Nat]

\* One row of an upsert: the count grows by at most two, and at least by one when a
\* row more than before differs.
LEMMA UpsertRowEffect ==
    ASSUME model \in Models, NEW row \in ModelValue, \A f \in Fields : Holdable(f, row[f]),
           NEW id \in Ids, NEW was \in Upserted, NEW c
    PROVE  LET r == UpsertRow(c, row, id, was)
           IN  /\ r \in Upserted
               /\ r.affected <= was.affected + 2
               /\ \A t \in TableType : Cardinality(Differs(t, was.table)) <= was.affected
                                       => Cardinality(Differs(t, r.table)) <= r.affected
               /\ \A k \in DOMAIN was.table :
                     /\ k \in DOMAIN r.table
                     /\ "del" \notin FieldsOf(c) => r.table[k].del = was.table[k].del
<1> DEFINE known == id \in DOMAIN was.table
           now == IF known THEN Written(c, row, was.table[id]) ELSE Inserted(row)
           count == IF ~known THEN 1 ELSE IF now # was.table[id] THEN 2 ELSE 0
           T == [k \in DOMAIN was.table \cup {id} |-> IF k = id THEN now ELSE was.table[k]]
           r == UpsertRow(c, row, id, was)
<1>1. r = [table |-> T, affected |-> was.affected + count]
  BY DEF UpsertRow
<1>2. was.table \in TableType /\ was.affected \in Nat
  BY DEF Upserted
<1>3. was.table \in [DOMAIN was.table -> RowType]
  BY <1>2, TableIsFinite
<1>4. now \in RowType
  BY <1>3, WrittenIsRow, InsertedIsRow
<1>5. T \in TableType
  <2> HIDE DEF now
  <2> QED
    BY <1>2, <1>4, TableWithRow
<1>6. count \in {0, 1, 2}
  OBVIOUS
<1>7. ASSUME NEW k \in DOMAIN was.table
      PROVE  k \in DOMAIN T /\ ("del" \notin FieldsOf(c) => T[k].del = was.table[k].del)
  <2>1. CASE k = id
    <3>1. T[k] = Written(c, row, was.table[k]) /\ was.table[k] \in RowType
      BY <1>3, <2>1
    <3>2. "del" \notin FieldsOf(c) => Written(c, row, was.table[k]).del = was.table[k].del
      BY <3>1, WrittenIsRow
    <3> QED
      BY <3>1, <3>2
  <2>2. CASE k # id
    BY <2>2
  <2> QED
    BY <2>1, <2>2
<1>8. ASSUME NEW t \in TableType, Cardinality(Differs(t, was.table)) <= was.affected
      PROVE  Cardinality(Differs(t, T)) <= was.affected + count
  <2> DEFINE before == Differs(t, was.table)
  <2>1. /\ IsFiniteSet(before) /\ Cardinality(before) \in Nat
        /\ IsFiniteSet(Differs(t, T)) /\ Cardinality(Differs(t, T)) \in Nat
    BY <1>2, <1>5, TableIsFinite
  <2>2. CASE count = 0
    <3>1. known /\ now = was.table[id]
      BY <2>2
    <3>2. Differs(t, T) = before
      <4>1. DOMAIN T = DOMAIN was.table /\ \A k \in DOMAIN was.table : T[k] = was.table[k]
        BY <3>1
      <4> HIDE DEF T
      <4> QED
        BY <4>1 DEF Differs
    <3> QED
      BY <1>2, <1>8, <2>2, <3>2
  <2>3. CASE count # 0
    <3>1. Differs(t, T) \in SUBSET (before \cup {id})
      BY DEF Differs
    <3> HIDE DEF T, before
    <3>2. IsFiniteSet(before \cup {id}) /\ Cardinality(before \cup {id}) <= Cardinality(before) + 1
          /\ Cardinality(before \cup {id}) \in Nat
      BY <2>1, FS_AddElement, FS_CardinalityType
    <3>3. Cardinality(Differs(t, T)) <= Cardinality(before \cup {id})
      BY <3>1, <3>2, FS_Subset
    <3>4. Cardinality(before) <= was.affected
      BY <1>8 DEF before
    <3>5. count >= 1 /\ count \in Nat
      BY <1>6, <2>3
    <3> HIDE DEF count
    <3> QED
      BY <1>2, <2>1, <3>2, <3>3, <3>4, <3>5
  <2> QED
    BY <2>2, <2>3
<1> HIDE DEF T, count
<1>9. /\ r.table = T /\ r.affected = was.affected + count /\ r \in Upserted
      /\ r.affected <= was.affected + 2
  BY <1>1, <1>2, <1>5, <1>6 DEF Upserted
<1> HIDE DEF r
<1> QED
  BY <1>7, <1>8, <1>9 DEF r

\* INSERT ... ON DUPLICATE KEY UPDATE: the count is at least the number of rows that
\* changed and at most twice the number of rows sent; no row disappears.
LEMMA UpsertRowsEffect ==
    ASSUME model \in Models, table \in TableType, NEW rows, Given(rows), NEW c,
           NEW ids \in Keys(rows)
    PROVE  LET done == UpsertRows(c, rows, ids)
           IN  /\ done \in Upserted
               /\ Cardinality(Differs(table, done.table)) <= done.affected
               /\ done.affected <= 2 * Len(rows)
               /\ \A k \in DOMAIN table :
                     /\ k \in DOMAIN done.table
                     /\ "del" \notin FieldsOf(c) => done.table[k].del = table[k].del
<1> DEFINE n == Len(rows)
           base == [table |-> table, affected |-> 0]
           H == [i \in 1 .. n |-> [was \in Upserted |-> UpsertRow(c, rows[i], ids[i], was)]]
           Goes(g) == g = [k \in 0 .. n |-> IF k = 0 THEN base
                                            ELSE UpsertRow(c, rows[k], ids[k], g[k - 1])]
<1>1. n \in Nat /\ DOMAIN rows = 1 .. n
  BY DEF Given
<1>2. \A i \in 1 .. n : /\ rows[i] \in ModelValue /\ \A f \in Fields : Holdable(f, rows[i][f])
                        /\ ids[i] \in Ids
  BY <1>1 DEF Given, Keys
<1>3. base \in Upserted
  BY DEF Upserted
<1>4. H \in [1 .. n -> [Upserted -> Upserted]]
  <2>1. \A i \in 1 .. n, was \in Upserted : UpsertRow(c, rows[i], ids[i], was) \in Upserted
    BY <1>2, UpsertRowEffect
  <2> QED
    BY <2>1
<1>5. PICK G \in [0 .. n -> Upserted] : Steps(G, n, base, H)
  <2> HIDE DEF n, H, base
  <2> QED
    BY <1>1, <1>3, <1>4, StepsExist, Zenon
<1>6. Goes(G)
  <2>1. \A k \in 1 .. n : G[k] = UpsertRow(c, rows[k], ids[k], G[k - 1])
    <3> SUFFICES ASSUME NEW k \in 1 .. n
                 PROVE  G[k] = UpsertRow(c, rows[k], ids[k], G[k - 1])
      OBVIOUS
    <3>1. G[k - 1] \in Upserted
      <4>1. k - 1 \in 0 .. n
        BY <1>1
      <4> HIDE DEF n
      <4> QED
        BY <1>5, <4>1
    <3>2. G[k] = H[k][G[k - 1]]
      BY <1>5 DEF Steps
    <3> QED
      BY <3>1, <3>2
  <2>2. G[0] = base
    BY <1>5 DEF Steps
  <2> HIDE DEF n, base, H
  <2>3. \A k \in 0 .. n : k = 0 \/ k \in 1 .. n
    BY <1>1
  <2>4. \A k \in 0 .. n : G[k] = IF k = 0 THEN base ELSE UpsertRow(c, rows[k], ids[k], G[k - 1])
    BY <2>1, <2>2, <2>3
  <2>5. G = [k \in 0 .. n |-> G[k]]
    OBVIOUS
  <2> QED
    BY <2>4, <2>5
<1> DEFINE g == CHOOSE it : Goes(it)
<1>7. Goes(g)
  <2> HIDE DEF Goes
  <2> QED
    BY <1>6
<1>8. UpsertRows(c, rows, ids) = g[n]
  BY Zenon DEF UpsertRows
<1> HIDE DEF g
<1> DEFINE Fine(k) ==
        /\ g[k] \in Upserted
        /\ Cardinality(Differs(table, g[k].table)) <= g[k].affected
        /\ g[k].affected <= 2 * k
        /\ \A id \in DOMAIN table :
              /\ id \in DOMAIN g[k].table
              /\ "del" \notin FieldsOf(c) => g[k].table[id].del = table[id].del
<1>9. Fine(0)
  <2>1. g[0] = base
    BY <1>1, <1>7
  <2>2. Differs(table, table) = {}
    BY DEF Differs
  <2>3. g[0].table = table /\ g[0].affected = 0
    BY <2>1
  <2>4. Cardinality(Differs(table, g[0].table)) = 0
    BY <2>2, <2>3, FS_EmptySet
  <2> HIDE DEF base
  <2> QED
    BY <1>3, <2>1, <2>3, <2>4
<1>10. ASSUME NEW k \in 0 .. n - 1, Fine(k)
       PROVE  Fine(k + 1)
  <2>1. k + 1 \in 1 .. n /\ k + 1 \in 0 .. n /\ k + 1 # 0 /\ (k + 1) - 1 = k /\ k \in Nat
    BY <1>1
  <2> DEFINE was == g[k]
             r == UpsertRow(c, rows[k + 1], ids[k + 1], was)
  <2>2. g[k + 1] = r
    BY <1>7, <2>1
  <2> HIDE DEF n, base, Goes
  <2>3. was \in Upserted
    BY <1>10
  <2>4. /\ r \in Upserted
        /\ r.affected <= was.affected + 2
        /\ \A t \in TableType : Cardinality(Differs(t, was.table)) <= was.affected
                                => Cardinality(Differs(t, r.table)) <= r.affected
        /\ \A id \in DOMAIN was.table :
              /\ id \in DOMAIN r.table
              /\ "del" \notin FieldsOf(c) => r.table[id].del = was.table[id].del
    BY <1>2, <2>1, <2>3, UpsertRowEffect
  <2>5. was.affected \in Nat /\ r.affected \in Nat
    BY <2>3, <2>4 DEF Upserted
  <2>6. r.affected <= 2 * (k + 1)
    BY <1>10, <2>1, <2>4, <2>5
  <2> HIDE DEF r
  <2> QED
    BY <1>10, <2>2, <2>4, <2>6
<1>11. Fine(n)
  <2> DEFINE S == {k \in 0 .. n : Fine(k)}
  <2> HIDE DEF Fine
  <2>1. 0 \in S
    BY <1>1, <1>9
  <2>2. \A k \in 0 .. n - 1 : k \in S => k + 1 \in S
    BY <1>1, <1>10
  <2>3. n \in 0 .. n
    BY <1>1
  <2>4. \A k \in 0 .. n : k \in S
    <3> HIDE DEF S, n
    <3> QED
      BY <1>1, <2>1, <2>2, UpTo
  <2> HIDE DEF n
  <2> QED
    BY <2>3, <2>4
<1> QED
  BY <1>8, <1>11

\* Rows of a table rewritten in place: those that differ are among them.
LEMMA RewrittenRows ==
    ASSUME NEW t \in TableType, NEW S \in SUBSET DOMAIN t, NEW new \in [S -> RowType],
           NEW after, after = [id \in DOMAIN t |-> IF id \in S THEN new[id] ELSE t[id]]
    PROVE  /\ after \in TableType
           /\ DOMAIN after = DOMAIN t
           /\ \A id \in DOMAIN t : after[id] = IF id \in S THEN new[id] ELSE t[id]
           /\ Differs(t, after) = {id \in S : after[id] # t[id]}
<1>1. t \in [DOMAIN t -> RowType] /\ DOMAIN t \in SUBSET Ids
  BY TableIsFinite
<1>2. after \in [DOMAIN t -> RowType]
  BY <1>1
<1>3. after \in TableType
  BY <1>1, <1>2 DEF TableType
<1>4. Differs(t, after) = {id \in S : after[id] # t[id]}
  BY DEF Differs
<1> QED
  BY <1>2, <1>3, <1>4

\* UPDATE by primary key: the rows that the soft-delete convention lets through.
LEMMA UpdateRowsEffect ==
    ASSUME model \in Models, table \in TableType, NEW rows, Given(rows), NEW c
    PROVE  LET done == UpdateRows(c, rows)
           IN  /\ done.table \in TableType
               /\ done.affected = Cardinality(Differs(table, done.table))
               /\ DOMAIN done.table = DOMAIN table
               /\ \A id \in Differs(table, done.table) :
                     /\ model.soft /\ ~c.withDeleted => table[id].del = NULL
                     /\ "del" \notin FieldsOf(c) => done.table[id].del = table[id].del
<1> DEFINE arm(id) == rows[CHOOSE i \in DOMAIN rows :
                              /\ rows[i].id = id
                              /\ \A j \in 1 .. i - 1 : rows[j].id # id]
           keys == {rows[i].id : i \in DOMAIN rows}
           S == keys \cap Selected(Text(Active(c.withDeleted)), table)
           new == [id \in S |-> Written(c, arm(id), table[id])]
           T == [id \in DOMAIN table |-> IF id \in S THEN new[id] ELSE table[id]]
           done == UpdateRows(c, rows)
<1>1. table \in [DOMAIN table -> RowType]
  BY TableIsFinite
<1>2. ASSUME NEW id \in S
      PROVE  id \in DOMAIN table /\ (model.soft /\ ~c.withDeleted => table[id].del = NULL)
  <2>1. <<>> \in Groups /\ <<>> \o Active(c.withDeleted) = Active(c.withDeleted)
    BY ActiveIsText DEF Groups
  <2>2. id \in Selected(Text(<<>> \o Active(c.withDeleted)), table)
    BY <1>2, <2>1, Zenon
  <2> DEFINE where == <<>>
             b == c.withDeleted
  <2>3. where \in Groups /\ id \in Selected(Text(where \o Active(b)), table)
    BY <2>1, <2>2
  <2> HIDE DEF S, where, b
  <2>4. id \in DOMAIN table /\ (model.soft /\ ~b => table[id].del = NULL)
    BY <2>3, SelectedAreNamed
  <2> QED
    BY <2>4 DEF b
<1>3. ASSUME NEW id \in S
      PROVE  arm(id) \in ModelValue /\ \A f \in Fields : Holdable(f, arm(id)[f])
  <2> DEFINE First(i) == rows[i].id = id /\ \A j \in 1 .. i - 1 : rows[j].id # id
             i == CHOOSE i \in DOMAIN rows : First(i)
  <2>1. \E i0 \in DOMAIN rows : First(i0)
    <3> DEFINE P == {k \in DOMAIN rows : rows[k].id = id}
    <3>1. P # {} /\ P \in SUBSET Nat /\ DOMAIN rows = 1 .. Len(rows) /\ Len(rows) \in Nat
      BY DEF Given
    <3>2. PICK m \in P : \A k \in P : m <= k
      <4> HIDE DEF P
      <4> QED
        BY <3>1, LeastNumber
    <3>3. m \in DOMAIN rows /\ rows[m].id = id
      BY <3>2
    <3>4. \A j \in 1 .. m - 1 : j \in DOMAIN rows /\ ~(m <= j)
      BY <3>1, <3>3
    <3>5. \A j \in 1 .. m - 1 : rows[j].id # id
      BY <3>2, <3>4
    <3> QED
      BY <3>3, <3>5
  <2>2. i \in DOMAIN rows
    <3> HIDE DEF First
    <3> QED
      BY <2>1
  <2>3. arm(id) = rows[i]
    OBVIOUS
  <2> HIDE DEF i, First, arm
  <2> QED
    BY <2>2, <2>3 DEF Given
<1>4. S \in SUBSET DOMAIN table
  BY <1>2
<1>5. new \in [S -> RowType]
  <2> HIDE DEF S
  <2>1. \A id \in S : table[id] \in RowType
    BY <1>1, <1>2
  <2>2. \A id \in S : Written(c, arm(id), table[id]) \in RowType
    <3> HIDE DEF arm
    <3> QED
      BY <1>3, <2>1, WrittenIsRow
  <2> HIDE DEF arm
  <2> QED
    BY <2>2
<1>6. done.table = T /\ done.affected = Cardinality({id \in S : T[id] # table[id]})
  <2>1. done = Rewrite(table, S, LAMBDA id : Written(c, arm(id), table[id]))
    BY Zenon DEF UpdateRows, Text
  <2> HIDE DEF S, done, arm
  <2>2. T = [id \in DOMAIN table |-> IF id \in S THEN Written(c, arm(id), table[id]) ELSE table[id]]
    OBVIOUS
  <2> HIDE DEF T, new
  <2>3. done = [table |-> T, affected |-> Cardinality({id \in S : T[id] # table[id]})]
    BY <2>1, <2>2, Zenon DEF Rewrite
  <2> QED
    BY <2>3
<1>7. \A id \in S : new[id] = Written(c, arm(id), table[id])
  <2> HIDE DEF S, arm
  <2> QED
    OBVIOUS
<1>8. /\ T \in TableType
      /\ DOMAIN T = DOMAIN table
      /\ \A id \in DOMAIN table : T[id] = IF id \in S THEN new[id] ELSE table[id]
      /\ Differs(table, T) = {id \in S : T[id] # table[id]}
  <2> HIDE DEF S, new
  <2> QED
    BY <1>4, <1>5, RewrittenRows
<1>9. ASSUME NEW id \in Differs(table, T)
      PROVE  /\ model.soft /\ ~c.withDeleted => table[id].del = NULL
             /\ "del" \notin FieldsOf(c) => T[id].del = table[id].del
  <2>1. id \in S
    <3> HIDE DEF S, T
    <3> QED
      BY <1>8, <1>9
  <2> HIDE DEF S, T, new
  <2>2. T[id] = Written(c, arm(id), table[id]) /\ table[id] \in RowType
    <3> HIDE DEF arm
    <3> QED
      BY <1>1, <1>2, <1>7, <1>8, <2>1
  <2>3. "del" \notin FieldsOf(c) => Written(c, arm(id), table[id]).del = table[id].del
    <3> HIDE DEF arm
    <3> QED
      BY <1>3, <2>1, <2>2, WrittenIsRow
  <2> HIDE DEF arm
  <2> QED
    BY <1>2, <2>1, <2>2, <2>3
<1> HIDE DEF S, T, done, new, arm
<1> QED
  BY <1>6, <1>8, <1>9 DEF done

\* DELETE: the selected rows are stamped or removed.
LEMMA DeleteRowsEffect ==
    ASSUME model \in Models, table \in TableType, NEW S \in SUBSET DOMAIN table, NEW now \in Now
    PROVE  LET done == DeleteRows(S, now)
           IN  /\ done.table \in TableType
               /\ done.affected = Cardinality(Differs(table, done.table))
               /\ Differs(table, done.table) \subseteq S
               /\ model.soft => DOMAIN done.table = DOMAIN table
<1> DEFINE done == DeleteRows(S, now)
<1>1. table \in [DOMAIN table -> RowType] /\ DOMAIN table \in SUBSET Ids
  BY TableIsFinite
<1>2. CASE model.soft
  <2> DEFINE new == [id \in S |-> [table[id] EXCEPT !.del = now]]
             T == [id \in DOMAIN table |-> IF id \in S THEN new[id] ELSE table[id]]
  <2>1. now \in (Nat \ {Zero}) \cup {NULL}
    BY MutationsAssumption
  <2>2. new \in [S -> RowType]
    <3>1. \A id \in S : table[id] \in RowType
      BY <1>1
    <3>2. \A id \in S : [table[id] EXCEPT !.del = now] \in RowType
      BY <2>1, <3>1, RowIs DEF Times
    <3> QED
      BY <3>2
  <2>3. done = [table |-> T, affected |-> Cardinality({id \in S : T[id] # table[id]})]
    <3>1. done = Rewrite(table, S, LAMBDA id : [table[id] EXCEPT !.del = now])
      BY <1>2, Zenon DEF DeleteRows
    <3>2. T = [id \in DOMAIN table |-> IF id \in S THEN [table[id] EXCEPT !.del = now] ELSE table[id]]
      OBVIOUS
    <3> HIDE DEF T, done
    <3> QED
      BY <3>1, <3>2, Zenon DEF Rewrite
  <2>4. /\ T \in TableType
        /\ DOMAIN T = DOMAIN table
        /\ Differs(table, T) = {id \in S : T[id] # table[id]}
    <3> HIDE DEF new
    <3> QED
      BY <2>2, RewrittenRows
  <2> HIDE DEF T, done, new
  <2> QED
    BY <2>3, <2>4 DEF done
<1>3. CASE ~model.soft
  <2> DEFINE D == DOMAIN table \ S
             T == [id \in D |-> table[id]]
  <2>1. done.table = T /\ done.affected = Cardinality(S \cap DOMAIN table)
    BY <1>3 DEF DeleteRows
  <2>2. T \in TableType
    <3>1. T \in [D -> RowType] /\ D \in SUBSET Ids
      BY <1>1
    <3> HIDE DEF T, D
    <3> QED
      BY <3>1 DEF TableType
  <2>3. Differs(table, T) = S /\ S \cap DOMAIN table = S
    BY DEF Differs
  <2> HIDE DEF T, done
  <2> QED
    BY <1>3, <2>1, <2>2, <2>3 DEF done
<1> QED
  BY <1>2, <1>3

\* The assignments of an UpdateWhere to one row, one after the other.
AssignAll(c, old) ==
    FoldLeft(LAMBDA row, a : [row EXCEPT ![a.field] = Assigned(old, a)], old, c.set)

LEMMA AssignedIsValue ==
    ASSUME model \in Models, NEW c \in Calls, AssignmentsValid(c), Representable(c),
           NEW i \in DOMAIN c.set, NEW old \in RowType
    PROVE  LET a == c.set[i]
           IN  /\ a.field \in {"rank", "del"}
               /\ a.field = "rank" => Assigned(old, a) \in Ranks
               /\ a.field = "del" => Assigned(old, a) \in Times
<1> DEFINE a == c.set[i]
<1>1. a \in Assignment
  <2>1. c.set \in Seq(Assignment)
    BY CallsAssumption, Zenon
  <2> QED
    BY <2>1
<1>2. a.value \in Value /\ Holdable(a.field, a.value) /\ a.field \in {"rank", "del"}
  BY <1>1 DEF Assignment, AssignmentsValid, Representable, UpdateFields
<1>3. a.op = "increment" => a.field = "rank" /\ a.value \in Nat
  BY <1>2 DEF AssignmentsValid, Value
<1>4. CASE a.op = "increment"
  <2>1. old.rank \in Ranks
    BY RowIs
  <2> HIDE DEF a
  <2>2. Assigned(old, a) = IF old.rank = NULL THEN NULL ELSE old.rank + a.value
    BY <1>3, <1>4 DEF Assigned
  <2> QED
    BY <1>2, <1>3, <1>4, <2>1, <2>2 DEF Value, Ranks, a
<1>5. CASE a.op # "increment"
  <2>1. Assigned(old, a) = Argument(a.field, a.value)
    BY <1>5 DEF Assigned
  <2> HIDE DEF a
  <2> QED
    BY <1>2, <2>1, ArgumentsAreRows DEF a
<1> QED
  BY <1>4, <1>5

\* They leave a row, and the deletion time alone unless one of them names it.
LEMMA AssignedRow ==
    ASSUME model \in Models, NEW c \in Calls, AssignmentsValid(c), Representable(c),
           NEW old \in RowType
    PROVE  /\ AssignAll(c, old) \in RowType
           /\ (\A i \in DOMAIN c.set : c.set[i].field # "del") => AssignAll(c, old).del = old.del
<1> DEFINE s == c.set
           n == Len(s)
           One(row, a) == [row EXCEPT ![a.field] = Assigned(old, a)]
           H == [i \in 1 .. n |-> [row \in RowType |-> One(row, s[i])]]
           Goes(g) == g = [u \in SUBSET DOMAIN s |->
                              IF u = {} THEN old ELSE One(g[u \ {Max(u)}], s[Max(u)])]
<1>1. n \in Nat /\ DOMAIN s = 1 .. n
  <2>1. s \in Seq(Assignment)
    BY CallsAssumption, Zenon
  <2> QED
    BY <2>1
<1>2. ASSUME NEW i \in 1 .. n, NEW row \in RowType
      PROVE  /\ One(row, s[i]) \in RowType
             /\ s[i].field # "del" => One(row, s[i]).del = row.del
  <2> DEFINE v == Assigned(old, s[i])
  <2>1. /\ s[i].field \in {"rank", "del"}
        /\ s[i].field = "rank" => v \in Ranks
        /\ s[i].field = "del" => v \in Times
    BY <1>1, AssignedIsValue
  <2> HIDE DEF v
  <2>2. CASE s[i].field = "rank"
    BY <2>1, <2>2, RowIs DEF v
  <2>3. CASE s[i].field = "del"
    BY <2>1, <2>3, RowIs DEF v
  <2> QED
    BY <2>1, <2>2, <2>3
<1>3. H \in [1 .. n -> [RowType -> RowType]]
  <2> HIDE DEF One, n
  <2> QED
    BY <1>2
<1>4. PICK G \in [SUBSET (1 .. n) -> RowType] : Folds(G, n, old, H)
  <2> HIDE DEF n, H
  <2> QED
    BY <1>1, <1>3, FoldExists, Zenon
<1>5. Goes(G)
  <2>1. ASSUME NEW u \in SUBSET (1 .. n), u # {}
        PROVE  H[Max(u)][G[u \ {Max(u)}]] = One(G[u \ {Max(u)}], s[Max(u)])
    <3>1. Max(u) \in 1 .. n
      BY <1>1, <2>1, MaxUpTo
    <3>2. u \ {Max(u)} \in SUBSET (1 .. n)
      OBVIOUS
    <3>3. G[u \ {Max(u)}] \in RowType
      <4> HIDE DEF n
      <4> QED
        BY <1>4, <3>2
    <3> HIDE DEF n, One, s
    <3> QED
      BY <3>1, <3>3
  <2> HIDE DEF H, n, One, s
  <2>2. \A u \in SUBSET (1 .. n) :
           G[u] = IF u = {} THEN old ELSE One(G[u \ {Max(u)}], s[Max(u)])
    BY <1>4, <2>1 DEF Folds
  <2>3. G = [u \in SUBSET (1 .. n) |-> G[u]]
    OBVIOUS
  <2> QED
    BY <1>1, <2>2, <2>3
<1> DEFINE g == CHOOSE it : Goes(it)
<1>6. Goes(g)
  <2> HIDE DEF Goes
  <2> QED
    BY <1>5
<1>7. AssignAll(c, old) = g[1 .. n]
  <2>1. AssignAll(c, old) = g[DOMAIN s]
    BY Zenon DEF AssignAll, FoldLeft, MapThenFoldSet
  <2> HIDE DEF g
  <2> QED
    BY <1>1, <2>1
<1> HIDE DEF g
<1> DEFINE Fine(k) ==
        /\ g[1 .. k] \in RowType
        /\ (\A i \in DOMAIN s : s[i].field # "del") => g[1 .. k].del = old.del
<1>8. Fine(0)
  <2>1. 1 .. 0 = {} /\ {} \in SUBSET DOMAIN s
    OBVIOUS
  <2> HIDE DEF s, One
  <2>2. g[{}] = old
    BY <1>6, <2>1
  <2> QED
    BY <2>1, <2>2
<1>9. ASSUME NEW k \in 0 .. n - 1, Fine(k)
      PROVE  Fine(k + 1)
  <2>1. k + 1 \in 1 .. n /\ (k + 1) - 1 = k /\ k \in Nat
    BY <1>1
  <2>2. 1 .. k + 1 \in SUBSET DOMAIN s /\ 1 .. k + 1 # {} /\ Max(1 .. k + 1) = k + 1
        /\ (1 .. k + 1) \ {k + 1} = 1 .. k
    BY <1>1, <2>1, MaxOfPrefix
  <2> HIDE DEF One
  <2>3. g[1 .. k + 1] = One(g[1 .. k], s[k + 1])
    BY <1>6, <2>2
  <2> HIDE DEF Goes, s, n
  <2>4. /\ One(g[1 .. k], s[k + 1]) \in RowType
        /\ s[k + 1].field # "del" => One(g[1 .. k], s[k + 1]).del = g[1 .. k].del
    BY <1>2, <1>9, <2>1
  <2> QED
    BY <1>1, <1>9, <2>1, <2>3, <2>4
<1>10. Fine(n)
  <2> DEFINE S == {k \in 0 .. n : Fine(k)}
  <2> HIDE DEF Fine
  <2>1. 0 \in S
    BY <1>1, <1>8
  <2>2. \A k \in 0 .. n - 1 : k \in S => k + 1 \in S
    BY <1>1, <1>9
  <2>3. n \in 0 .. n
    BY <1>1
  <2>4. \A k \in 0 .. n : k \in S
    <3> HIDE DEF S, n
    <3> QED
      BY <1>1, <2>1, <2>2, UpTo
  <2> HIDE DEF n
  <2> QED
    BY <2>3, <2>4
<1> QED
  BY <1>7, <1>10

\* UPDATE ... SET ... WHERE: the selected rows, each assigned once.
LEMMA UpdateWhereRowsEffect ==
    ASSUME model \in Models, table \in TableType, NEW c \in Calls, AssignmentsValid(c),
           Representable(c)
    PROVE  LET done == UpdateWhereRows(c)
           IN  /\ done.table \in TableType
               /\ done.affected = Cardinality(Differs(table, done.table))
               /\ DOMAIN done.table = DOMAIN table
               /\ Differs(table, done.table) \subseteq Selected(Where(c), table)
               /\ (\A i \in DOMAIN c.set : c.set[i].field # "del") =>
                     \A id \in DOMAIN table : done.table[id].del = table[id].del
<1> DEFINE S == Selected(Where(c), table)
           new == [id \in S |-> AssignAll(c, table[id])]
           T == [id \in DOMAIN table |-> IF id \in S THEN new[id] ELSE table[id]]
           done == UpdateWhereRows(c)
<1>1. table \in [DOMAIN table -> RowType]
  BY TableIsFinite
<1>2. S \in SUBSET DOMAIN table
  BY DEF Selected
<1>3. \A id \in S : table[id] \in RowType
  BY <1>1, <1>2
<1>4. new \in [S -> RowType]
  <2> HIDE DEF S
  <2>1. \A id \in S : AssignAll(c, table[id]) \in RowType
    BY <1>3, AssignedRow
  <2> QED
    BY <2>1
<1>5. done = [table |-> T, affected |-> Cardinality({id \in S : T[id] # table[id]})]
  <2>1. done = Rewrite(table, S, LAMBDA id : AssignAll(c, table[id]))
    BY Zenon DEF UpdateWhereRows, AssignAll
  <2> HIDE DEF S
  <2>2. T = [id \in DOMAIN table |-> IF id \in S THEN AssignAll(c, table[id]) ELSE table[id]]
    OBVIOUS
  <2> HIDE DEF T, done
  <2> QED
    BY <2>1, <2>2, Zenon DEF Rewrite
<1>6. /\ T \in TableType
      /\ DOMAIN T = DOMAIN table
      /\ \A id \in DOMAIN table : T[id] = IF id \in S THEN new[id] ELSE table[id]
      /\ Differs(table, T) = {id \in S : T[id] # table[id]}
  <2> HIDE DEF S, new
  <2> QED
    BY <1>2, <1>4, RewrittenRows
<1>7. ASSUME \A i \in DOMAIN c.set : c.set[i].field # "del", NEW id \in DOMAIN table
      PROVE  T[id].del = table[id].del
  <2>1. CASE id \in S
    <3>1. new[id] = AssignAll(c, table[id]) /\ table[id] \in RowType
      <4> HIDE DEF S
      <4> QED
        BY <1>3, <2>1
    <3>2. AssignAll(c, table[id]).del = table[id].del
      BY <1>7, <3>1, AssignedRow
    <3> HIDE DEF S, T, new
    <3> QED
      BY <1>6, <2>1, <3>1, <3>2
  <2>2. CASE id \notin S
    <3> HIDE DEF S, T, new
    <3> QED
      BY <1>6, <2>2
  <2> QED
    BY <2>1, <2>2
<1> HIDE DEF T, done, new
<1> QED
  BY <1>5, <1>6, <1>7 DEF done

---------------------------------------------------------------------------
(* What a statement of a call does to the table.                           *)

Upserts == {"upsert", "upsert many"}

\* What Exec has checked before the first statement.
Ready(c) == Accepted(c) /\ Representable(c) /\ ~NoOp(c)

LEMMA RowsAreGiven ==
    ASSUME NEW c \in Calls, Ready(c), c.op \notin Filters
    PROVE  Given(c.rows)
<1>1. ModelsGiven(c)
  BY CallShape DEF Ready, Accepted, AcceptsInsert, AcceptsUpsert, AcceptsInsertMany, AcceptsUpdate,
                   AcceptsUpdateMany, AcceptsDelete, Single, Many
<1>2. c.rows \in Seq(ModelValue \cup {NilRow}) /\ DOMAIN c.rows = 1 .. Len(c.rows)
  BY CallShape
<1>3. \A i \in DOMAIN c.rows : c.rows[i] \in ModelValue /\ c.rows[i] # NilRow
  BY <1>1, <1>2 DEF ModelsGiven, Range
<1>4. \A i \in DOMAIN c.rows : \A f \in Fields : Holdable(f, c.rows[i][f])
  BY <1>3 DEF Ready, Representable
<1>5. c.rows \in Seq(ModelValue)
  BY <1>2, <1>3
<1> QED
  BY <1>4, <1>5 DEF Given

LEMMA PartIsGiven ==
    ASSUME NEW rows, Given(rows), NEW a \in Nat, NEW b \in Nat, a < b, b <= Len(rows)
    PROVE  Given(SubSeq(rows, a + 1, b)) /\ Len(SubSeq(rows, a + 1, b)) = b - a
<1> DEFINE part == SubSeq(rows, a + 1, b)
<1>1. rows \in Seq(ModelValue) /\ DOMAIN rows = 1 .. Len(rows) /\ Len(rows) \in Nat
  BY DEF Given
<1>2. part \in Seq(ModelValue) /\ Len(part) = b - a
  BY <1>1
<1>3. \A i \in 1 .. b - a : part[i] = rows[a + i] /\ a + i \in DOMAIN rows
  BY <1>1
<1>4. DOMAIN part = 1 .. b - a
  BY <1>2
<1> HIDE DEF part
<1>5. \A i \in DOMAIN part : \A f \in Fields : Holdable(f, part[i][f])
  BY <1>3, <1>4 DEF Given
<1> QED
  BY <1>2, <1>5 DEF Given, part

\* The rows of one statement.
LEMMA BatchIsGiven ==
    ASSUME BatchInv, NEW w \in Workers, Running(w), Ready(call[w]), call[w].op \notin Filters
    PROVE  /\ Given(Batch(w))
           /\ Bulk(call[w]) => Len(Batch(w)) = End(w) - start[w]
           /\ ~Bulk(call[w]) => Batch(w) = call[w].rows /\ Len(Batch(w)) = 1
<1> DEFINE c == call[w]
<1>1. c \in Calls /\ start[w] \in Nat
  BY DEF BatchInv, Shape, Running
<1>2. Given(c.rows)
  BY <1>1, RowsAreGiven
<1>3. CASE Bulk(c)
  <2>1. End(w) \in Nat /\ start[w] < End(w) /\ End(w) <= Len(c.rows)
    BY <1>3, BatchBounds
  <2>2. Batch(w) = SubSeq(c.rows, start[w] + 1, End(w))
    BY <1>3 DEF Batch
  <2> QED
    BY <1>1, <1>2, <1>3, <2>1, <2>2, PartIsGiven
<1>4. CASE ~Bulk(c)
  <2>1. Batch(w) = c.rows
    BY <1>4 DEF Batch
  <2>2. c.op \in Single
    BY <1>1, <1>4, CallShape DEF Bulk
  <2>3. Len(c.rows) = 1
    BY <1>1, <2>2, CallShape
  <2> QED
    BY <1>2, <1>4, <2>1, <2>3
<1> QED
  BY <1>3, <1>4

\* The count of a statement of call c that left table T.
Counts(c, affected, T, rows) ==
    /\ affected \in Nat
    /\ c.op \notin Upserts => affected = Cardinality(Differs(table, T))
    /\ c.op \in Upserts => Cardinality(Differs(table, T)) <= affected /\ affected <= 2 * rows

\* Deleted rows that differ, and rows that differ by a call with predicates.
LeavesDeleted(c, T) ==
    \A id \in DOMAIN table :
        model.soft /\ table[id].del # NULL /\ id \in Differs(table, T) =>
            /\ id \in DOMAIN T
            /\ c.withDeleted \/ c.op \in Upserts
            /\ T[id].del # table[id].del =>
                  IF c.op = "update where"
                    THEN \E i \in DOMAIN c.set : c.set[i].field = "del"
                    ELSE "del" \in FieldsOf(c)

ChangesMatching(c, T) ==
    Bounded(c) => \A id \in Differs(table, T) :
        /\ \A g \in DOMAIN c.where : \E i \in DOMAIN c.where[g] :
              Atom(c.where[g][i], AsRow(id, table)) = "true"
        /\ model.soft /\ ~c.withDeleted => table[id].del = NULL

LEMMA WhereSelects ==
    ASSUME NEW c \in Calls, NEW id \in Selected(Where(c), table)
    PROVE  /\ id \in DOMAIN table
           /\ \A g \in DOMAIN c.where : \E i \in DOMAIN c.where[g] :
                 Atom(c.where[g][i], AsRow(id, table)) = "true"
           /\ model.soft /\ ~c.withDeleted => table[id].del = NULL
<1> DEFINE where == c.where
           b == c.withDeleted
<1>1. where \in Groups
  BY CallShape DEF Groups
<1>2. id \in Selected(Text(where \o Active(b)), table)
  BY Zenon DEF Where, Text
<1> HIDE DEF where, b
<1>3. /\ id \in DOMAIN table
      /\ \A g \in DOMAIN where : \E i \in DOMAIN where[g] :
            Atom(where[g][i], AsRow(id, table)) = "true"
      /\ model.soft /\ ~b => table[id].del = NULL
  BY <1>1, <1>2, SelectedAreNamed
<1> QED
  BY <1>3 DEF where, b

\* A DELETE by primary key selects an active row only.
LEMMA ActiveSelects ==
    ASSUME NEW id \in Selected(Text(Active(FALSE)), table)
    PROVE  id \in DOMAIN table /\ (model.soft => table[id].del = NULL)
<1> DEFINE where == <<>>
           b == FALSE
<1>1. where \in Groups /\ where \o Active(b) = Active(b)
  BY ActiveIsText DEF Groups
<1>2. where \in Groups /\ id \in Selected(Text(where \o Active(b)), table) /\ ~b
  BY <1>1, Zenon
<1> HIDE DEF where, b
<1>3. /\ id \in DOMAIN table
      /\ \A g \in DOMAIN where : \E i \in DOMAIN where[g] :
            Atom(where[g][i], AsRow(id, table)) = "true"
      /\ model.soft /\ ~b => table[id].del = NULL
  BY <1>2, SelectedAreNamed
<1> QED
  BY <1>2, <1>3

LEMMA StatementEffect ==
    ASSUME BatchInv, table \in TableType, NEW w \in Workers, Running(w), Ready(call[w]),
           NEW e \in Effects(w)
    PROVE  /\ e.done.table \in TableType
           /\ Counts(call[w], e.done.affected, e.done.table, Len(Batch(w)))
           /\ LeavesDeleted(call[w], e.done.table)
           /\ ChangesMatching(call[w], e.done.table)
<1> DEFINE c == call[w]
           T == e.done.table
           rows == Batch(w)
<1>1. c \in Calls /\ model \in Models
  BY DEF BatchInv, Shape, Running
<1>2. c.op \in Single \cup Many \cup Filters
  BY <1>1, CallShape
<1>3. c.op \notin Filters => Given(rows) /\ Len(rows) \in Nat
  BY BatchIsGiven DEF Given
<1>4. ASSUME T \in TableType
      PROVE  Cardinality(Differs(table, T)) \in Nat
  BY <1>4, TableIsFinite
<1>5. CASE c.op \in {"insert", "insert many"}
  <2>1. e \in InsertEffects(rows)
    BY <1>5 DEF Effects
  <2>2. Given(rows)
    BY <1>3, <1>5 DEF Filters
  <2>3. /\ T \in TableType
        /\ \A id \in DOMAIN table : id \in DOMAIN T /\ T[id] = table[id]
        /\ e.done.affected = Cardinality(Differs(table, T))
    BY <1>1, <2>1, <2>2, InsertRowsEffect
  <2> HIDE DEF T
  <2> QED
    <3>1. Counts(c, e.done.affected, T, Len(rows))
      BY <1>4, <1>5, <2>3 DEF Counts, Upserts
    <3>2. LeavesDeleted(c, T)
      BY <2>3 DEF LeavesDeleted, Differs
    <3>3. ChangesMatching(c, T)
      BY <1>5 DEF ChangesMatching, Bounded, Filters
    <3> QED
      BY <2>3, <3>1, <3>2, <3>3 DEF T
<1>6. CASE c.op \in Upserts
  <2>1. e \in UpsertEffects(c, rows)
    BY <1>6 DEF Effects, Upserts
  <2>2. PICK ids \in Keys(rows) : e = [ids |-> ids, done |-> UpsertRows(c, rows, ids)]
    BY <2>1 DEF UpsertEffects
  <2>3. Given(rows) /\ Len(rows) \in Nat
    BY <1>3, <1>6 DEF Filters, Upserts
  <2>4. e.done = UpsertRows(c, rows, ids)
    BY <2>2
  <2>5. /\ e.done \in Upserted
        /\ Cardinality(Differs(table, T)) <= e.done.affected
        /\ e.done.affected <= 2 * Len(rows)
        /\ \A k \in DOMAIN table :
              /\ k \in DOMAIN T
              /\ "del" \notin FieldsOf(c) => T[k].del = table[k].del
    BY <1>1, <2>3, <2>4, UpsertRowsEffect
  <2>6. T \in TableType /\ e.done.affected \in Nat
    BY <2>5 DEF Upserted
  <2> HIDE DEF T, rows
  <2> QED
    BY <1>6, <2>5, <2>6 DEF Counts, LeavesDeleted, ChangesMatching, Upserts, Bounded, Filters, T, rows
<1>7. CASE c.op \in {"update", "update many"}
  <2>1. e.done = UpdateRows(c, rows)
    <3>1. e \in UpdateEffects(c, rows)
      BY <1>7 DEF Effects
    <3>2. e = [ids |-> <<>>, done |-> UpdateRows(c, rows)]
      BY <3>1, Zenon DEF UpdateEffects
    <3> QED
      BY <3>2
  <2>2. Given(rows)
    BY <1>3, <1>7 DEF Filters
  <2>3. /\ T \in TableType
        /\ e.done.affected = Cardinality(Differs(table, T))
        /\ DOMAIN T = DOMAIN table
        /\ \A id \in Differs(table, T) :
              /\ model.soft /\ ~c.withDeleted => table[id].del = NULL
              /\ "del" \notin FieldsOf(c) => T[id].del = table[id].del
    BY <1>1, <2>1, <2>2, UpdateRowsEffect
  <2> HIDE DEF T
  <2> QED
    <3>1. Counts(c, e.done.affected, T, Len(rows))
      BY <1>4, <1>7, <2>3 DEF Counts, Upserts
    <3>2. LeavesDeleted(c, T)
      BY <1>7, <2>3 DEF LeavesDeleted
    <3>3. ChangesMatching(c, T)
      BY <1>7 DEF ChangesMatching, Bounded, Filters
    <3> QED
      BY <2>3, <3>1, <3>2, <3>3 DEF T
<1>8. CASE c.op \in {"delete", "delete where"}
  <2> DEFINE S == IF c.op = "delete where" THEN Selected(Where(c), table)
                  ELSE {rows[1].id} \cap Selected(Text(Active(FALSE)), table)
  <2>1. e \in DeleteEffects(c, rows)
    BY <1>8 DEF Effects
  <2>2. PICK now \in Now : e.done = DeleteRows(S, now)
    <3>1. DeleteEffects(c, rows) = {[ids |-> <<>>, done |-> DeleteRows(S, t)] : t \in Now}
      BY Zenon DEF DeleteEffects, Text
    <3> HIDE DEF S
    <3>2. PICK now \in Now : e = [ids |-> <<>>, done |-> DeleteRows(S, now)]
      BY <2>1, <3>1
    <3> QED
      BY <3>2
  <2>3. ~c.withDeleted
    BY <1>1, <1>8, CallShape
  <2>4. ASSUME NEW id \in S
        PROVE  /\ id \in DOMAIN table /\ (model.soft => table[id].del = NULL)
               /\ c.op = "delete where" =>
                     \A g \in DOMAIN c.where : \E i \in DOMAIN c.where[g] :
                        Atom(c.where[g][i], AsRow(id, table)) = "true"
    <3>1. CASE c.op = "delete where"
      <4>1. id \in Selected(Where(c), table)
        BY <2>4, <3>1
      <4> HIDE DEF S
      <4> QED
        BY <1>1, <2>3, <3>1, <4>1, WhereSelects
    <3>2. CASE c.op # "delete where"
      <4>1. id \in Selected(Text(Active(FALSE)), table)
        BY <2>4, <3>2
      <4> HIDE DEF S
      <4> QED
        BY <3>2, <4>1, ActiveSelects
    <3> QED
      BY <3>1, <3>2
  <2> HIDE DEF S
  <2>5. S \in SUBSET DOMAIN table
    BY <2>4
  <2>6. /\ T \in TableType
        /\ e.done.affected = Cardinality(Differs(table, T))
        /\ Differs(table, T) \subseteq S
        /\ model.soft => DOMAIN T = DOMAIN table
    BY <1>1, <2>2, <2>5, DeleteRowsEffect
  <2> HIDE DEF T
  <2>7. Counts(c, e.done.affected, T, Len(rows))
    BY <1>4, <1>8, <2>6 DEF Counts, Upserts
  <2>8. LeavesDeleted(c, T)
    BY <2>4, <2>6 DEF LeavesDeleted
  <2>9. ChangesMatching(c, T)
    BY <1>8, <2>4, <2>6 DEF ChangesMatching, Bounded, Filters
  <2> QED
    BY <2>6, <2>7, <2>8, <2>9 DEF T
<1>9. CASE c.op = "update where"
  <2>1. e.done = UpdateWhereRows(c)
    <3>1. e \in UpdateWhereEffects(c)
      BY <1>9 DEF Effects
    <3>2. e = [ids |-> <<>>, done |-> UpdateWhereRows(c)]
      BY <3>1, Zenon DEF UpdateWhereEffects
    <3> QED
      BY <3>2
  <2>2. AssignmentsValid(c) /\ Representable(c)
    BY <1>9 DEF Ready, Accepted, AcceptsUpdateWhere
  <2>3. /\ T \in TableType
        /\ e.done.affected = Cardinality(Differs(table, T))
        /\ DOMAIN T = DOMAIN table
        /\ Differs(table, T) \subseteq Selected(Where(c), table)
        /\ (\A i \in DOMAIN c.set : c.set[i].field # "del") =>
              \A id \in DOMAIN table : T[id].del = table[id].del
    BY <1>1, <2>1, <2>2, UpdateWhereRowsEffect
  <2> HIDE DEF T
  <2>4. ASSUME NEW id \in Differs(table, T)
        PROVE  /\ \A g \in DOMAIN c.where : \E i \in DOMAIN c.where[g] :
                     Atom(c.where[g][i], AsRow(id, table)) = "true"
               /\ model.soft /\ ~c.withDeleted => table[id].del = NULL
    BY <1>1, <2>3, WhereSelects
  <2>5. Counts(c, e.done.affected, T, Len(rows))
    BY <1>4, <1>9, <2>3 DEF Counts, Upserts
  <2>6. LeavesDeleted(c, T)
    BY <1>1, <1>9, <2>3, <2>4, CallShape DEF LeavesDeleted
  <2>7. ChangesMatching(c, T)
    BY <2>4 DEF ChangesMatching
  <2> QED
    BY <2>3, <2>5, <2>6, <2>7 DEF T
<1> QED
  BY <1>2, <1>5, <1>6, <1>7, <1>8, <1>9 DEF Single, Many, Filters, Upserts

---------------------------------------------------------------------------
(* The counts of the calls, and who changes which rows.                    *)

\* What Exec checks depends on the model and the call, which do not change.
LEMMA RigidReady ==
    ASSUME NEW c, UNCHANGED model
    PROVE  Ready(c)' <=> Ready(c)
<1>1. /\ UpdateFields' = UpdateFields
      /\ FieldsOf(c)' = FieldsOf(c)
      /\ InsertWidth' = InsertWidth
      /\ \A f, v : Holdable(f, v)' <=> Holdable(f, v)
  BY DEF UpdateFields, FieldsOf, InsertWidth, Holdable
<1>2. /\ FieldsSelectable(c)' <=> FieldsSelectable(c)
      /\ RowFits(c)' <=> RowFits(c)
      /\ WithDeletedValid(c)' <=> WithDeletedValid(c)
      /\ AssignmentsValid(c)' <=> AssignmentsValid(c)
      /\ Representable(c)' <=> Representable(c)
  <2>1. /\ FieldsSelectable(c)' <=> FieldsSelectable(c)
        /\ RowFits(c)' <=> RowFits(c)
        /\ WithDeletedValid(c)' <=> WithDeletedValid(c)
    BY <1>1 DEF FieldsSelectable, RowFits, WithDeletedValid
  <2>2. AssignmentsValid(c)' <=> AssignmentsValid(c)
    BY <1>1 DEF AssignmentsValid
  <2>3. Representable(c)' <=> Representable(c)
    BY <1>1 DEF Representable
  <2> QED
    BY <2>1, <2>2, <2>3
<1>3. /\ AcceptsInsert(c)' <=> AcceptsInsert(c)
      /\ AcceptsUpsert(c)' <=> AcceptsUpsert(c)
      /\ AcceptsInsertMany(c)' <=> AcceptsInsertMany(c)
      /\ AcceptsUpdate(c)' <=> AcceptsUpdate(c)
      /\ AcceptsUpdateMany(c)' <=> AcceptsUpdateMany(c)
      /\ AcceptsDelete(c)' <=> AcceptsDelete(c)
      /\ AcceptsUpdateWhere(c)' <=> AcceptsUpdateWhere(c)
  BY <1>2 DEF AcceptsInsert, AcceptsUpsert, AcceptsInsertMany, AcceptsUpdate, AcceptsUpdateMany,
              AcceptsDelete, AcceptsUpdateWhere, ModelsGiven, KeysGiven, DistinctKeys, NoOp, Bulk,
              PredicatesValid
<1>4. Accepted(c)' <=> Accepted(c)
  BY <1>3 DEF Accepted
<1> QED
  BY <1>2, <1>4 DEF Ready, NoOp, Bulk

Outcomes == [state : {"pending", "ok", "failed", "refused"}, total : Nat]

\* Besides the count: a call of one statement has sent it when it has returned, and
\* an upsert counts at most two for each row sent so far.
Counted(w, c) ==
    /\ ~Bulk(c) => start[w] <= 1 /\ (outcome[w].state = "pending" => start[w] = 0)
    /\ c.op \notin Upserts => outcome[w].total = Sum(changed[w])
    /\ c.op \in Upserts => Sum(changed[w]) <= outcome[w].total /\ outcome[w].total <= 2 * start[w]

CountInv ==
    /\ changed \in [Workers -> Seq(Nat)]
    /\ outcome \in [Workers -> Outcomes]
    /\ table \in TableType
    /\ \A w \in Workers :
        /\ call[w] = NoCall => outcome[w] = Pending /\ changed[w] = <<>>
        /\ \A c \in Calls : call[w] = c =>
              /\ Counted(w, c)
              /\ outcome[w].state = "pending" => Ready(c)

LEMMA CountInit == Init => CountInv
<1> SUFFICES ASSUME Init
             PROVE  CountInv
  OBVIOUS
<1>1. table \in TableType
  <2>1. /\ DOMAIN table \in SUBSET Ids /\ table = [id \in DOMAIN table |-> table[id]]
        /\ \A id \in DOMAIN table : table[id] \in [rank : Value, del : Times]
    BY TablesAssumption DEF Init, RowOf, Times
  <2>2. \A id \in DOMAIN table : table[id].rank = NULL => "rank" \in model.pointers
    BY DEF Init
  <2>3. \A id \in DOMAIN table : table[id] \in [rank : Ranks, del : Times]
    BY <2>1, <2>2 DEF Ranks, Value
  <2>4. table \in [DOMAIN table -> RowType]
    BY <2>1, <2>3, RowIs
  <2> QED
    BY <2>1, <2>4 DEF TableType
<1>2. /\ changed \in [Workers -> Seq(Nat)]
      /\ outcome \in [Workers -> Outcomes]
      /\ \A w \in Workers : call[w] = NoCall /\ outcome[w] = Pending /\ changed[w] = <<>>
  BY DEF Init, Outcomes, Pending
<1> QED
  BY <1>1, <1>2, CallShape DEF CountInv

\* A call that starts has changed nothing.
LEMMA CountStart ==
    ASSUME BatchInv, CountInv, NEW w \in Workers, Start(w)
    PROVE  CountInv'
<1>1. PICK c \in Calls :
          /\ call[w] = NoCall
          /\ Representable(c)
          /\ call' = [call EXCEPT ![w] = c]
          /\ outcome' = [outcome EXCEPT ![w] =
                 IF ~Accepted(c) THEN Returned("refused", 0)
                 ELSE IF NoOp(c) THEN Returned("ok", 0) ELSE Pending]
          /\ UNCHANGED <<model, table, start, changed>>
  BY DEF Start
<1>2. /\ call'[w] = c /\ c # NoCall /\ \A v \in Workers \ {w} : call'[v] = call[v]
      /\ start[w] = 0 /\ changed[w] = <<>>
  BY <1>1, CallShape DEF BatchInv, Shape, IdleInv, CountInv
<1>3. /\ outcome'[w] \in Outcomes /\ outcome'[w].total = 0
      /\ outcome'[w].state = "pending" => Accepted(c) /\ ~NoOp(c)
      /\ outcome' \in [Workers -> Outcomes]
      /\ \A v \in Workers \ {w} : outcome'[v] = outcome[v]
  BY <1>1 DEF CountInv, Outcomes, Returned, Pending
<1>4. ASSUME NEW v \in Workers
      PROVE  call'[v] = NoCall => outcome'[v] = Pending /\ changed'[v] = <<>>
  BY <1>1, <1>2, <1>3 DEF CountInv
<1>5. ASSUME NEW v \in Workers, NEW d \in Calls, call'[v] = d
      PROVE  Counted(v, d)' /\ (outcome'[v].state = "pending" => Ready(d)')
  <2>1. Ready(d)' <=> Ready(d)
    BY <1>1, RigidReady
  <2>2. CASE v = w
    <3>1. outcome'[v].state = "pending" => Ready(d)
      BY <1>1, <1>2, <1>3, <1>5, <2>2 DEF Ready
    <3>2. Counted(v, d)'
      BY <1>1, <1>2, <1>3, <2>2, SumOfEmpty DEF Counted
    <3> QED
      BY <2>1, <3>1, <3>2
  <2>3. CASE v # w
    <3>1. /\ call[v] = d /\ outcome'[v] = outcome[v] /\ changed'[v] = changed[v]
          /\ start'[v] = start[v]
      BY <1>1, <1>2, <1>3, <1>5, <2>3
    <3>2. Counted(v, d) /\ (outcome[v].state = "pending" => Ready(d))
      BY <3>1 DEF CountInv
    <3> QED
      BY <2>1, <3>1, <3>2 DEF Counted
  <2> QED
    BY <2>2, <2>3
<1>6. changed' \in [Workers -> Seq(Nat)] /\ (table \in TableType)'
  BY <1>1 DEF CountInv, TableType, RowType
<1> QED
  BY <1>3, <1>4, <1>5, <1>6 DEF CountInv

\* A statement's own contribution: its table, the history and the total after it.
LEMMA CountSend ==
    ASSUME BatchInv, CountInv, NEW w \in Workers, Running(w), Send(w),
           NEW state \in {"pending", "ok", "failed"}, NEW total \in Nat,
           Returns(w, state, total),
           state = "pending" => MoreBatches(w),
           table' \in TableType, changed' \in [Workers -> Seq(Nat)],
           \A v \in Workers \ {w} : changed'[v] = changed[v],
           call[w].op \notin Upserts => total = Sum(changed'[w]),
           call[w].op \in Upserts => Sum(changed'[w]) <= total /\ total <= 2 * End(w)
    PROVE  CountInv'
<1> DEFINE c == call[w]
<1>1. /\ call' = call /\ model' = model /\ c # NoCall
      /\ start'[w] = End(w) /\ \A v \in Workers \ {w} : start'[v] = start[v]
  BY DEF Send, BatchInv, Shape, Running
<1>2. /\ outcome'[w].state = state /\ outcome'[w].total = total
      /\ outcome' \in [Workers -> Outcomes]
      /\ \A v \in Workers \ {w} : outcome'[v] = outcome[v]
  BY DEF Returns, Returned, CountInv, Outcomes
<1>3. Counted(w, c) /\ Ready(c) /\ c \in Calls
  BY DEF BatchInv, Shape, CountInv, Running
<1>4. ASSUME NEW v \in Workers
      PROVE  call'[v] = NoCall => outcome'[v] = Pending /\ changed'[v] = <<>>
  BY <1>1, <1>2 DEF CountInv
<1>5. ASSUME NEW v \in Workers, NEW d \in Calls, call'[v] = d
      PROVE  Counted(v, d)' /\ (outcome'[v].state = "pending" => Ready(d)')
  <2>1. Ready(d)' <=> Ready(d)
    BY <1>1, RigidReady
  <2>2. CASE v = w
    <3>1. d = c
      BY <1>1, <1>5, <2>2
    <3>2. ~Bulk(d) => End(w) = 1 /\ state # "pending"
      BY <3>1 DEF End, MoreBatches
    <3>3. Counted(v, d)'
      BY <1>1, <1>2, <2>2, <3>1, <3>2 DEF Counted, Bulk
    <3> QED
      BY <1>3, <2>1, <3>1, <3>3
  <2>3. CASE v # w
    <3>1. /\ call[v] = d /\ outcome'[v] = outcome[v] /\ changed'[v] = changed[v]
          /\ start'[v] = start[v]
      BY <1>1, <1>2, <1>5, <2>3
    <3>2. Counted(v, d) /\ (outcome[v].state = "pending" => Ready(d))
      BY <3>1 DEF CountInv
    <3> QED
      BY <2>1, <3>1, <3>2 DEF Counted
  <2> QED
    BY <2>2, <2>3
<1>6. (table \in TableType)'
  BY DEF TableType, RowType, Send
<1> QED
  BY <1>2, <1>4, <1>5, <1>6 DEF CountInv

\* What a call that sends its next statement starts from.
LEMMA CountBefore ==
    ASSUME BatchInv, CountInv, NEW w \in Workers, Running(w)
    PROVE  /\ call[w] \in Calls /\ Ready(call[w]) /\ Counted(w, call[w])
           /\ start[w] \in Nat /\ End(w) \in Nat /\ start[w] <= End(w)
           /\ changed[w] \in Seq(Nat) /\ Sum(changed[w]) \in Nat /\ outcome[w].total \in Nat
           /\ call[w].op \in Upserts => Len(Batch(w)) \in Nat /\ Len(Batch(w)) = End(w) - start[w]
<1> DEFINE c == call[w]
<1>1. /\ c \in Calls /\ c # NoCall /\ Ready(c) /\ Counted(w, c) /\ start[w] \in Nat
      /\ changed[w] \in Seq(Nat) /\ outcome[w].total \in Nat /\ outcome[w].state = "pending"
  BY DEF BatchInv, Shape, CountInv, Running, Outcomes
<1>2. Sum(changed[w]) \in Nat
  BY <1>1, SumOfAppend
<1>3. CASE Bulk(c)
  <2>1. End(w) \in Nat /\ start[w] < End(w)
    BY <1>3, BatchBounds
  <2>2. c.op \in Upserts => Len(Batch(w)) = End(w) - start[w]
    BY <1>1, <1>3, BatchIsGiven DEF Upserts, Filters
  <2> QED
    BY <1>1, <1>2, <2>1, <2>2
<1>4. CASE ~Bulk(c)
  <2>1. End(w) = 1 /\ start[w] = 0
    BY <1>1, <1>4 DEF End, Counted
  <2>2. c.op \in Upserts => Len(Batch(w)) = 1
    BY <1>1, <1>4, BatchIsGiven DEF Upserts, Filters
  <2> QED
    BY <1>1, <1>2, <2>1, <2>2
<1> QED
  BY <1>3, <1>4

LEMMA CountStep == BatchInv /\ CountInv /\ [Next]_vars => CountInv'
<1> SUFFICES ASSUME BatchInv, CountInv, [Next]_vars
             PROVE  CountInv'
  OBVIOUS
<1>1. ASSUME NEW w \in Workers, Start(w)
      PROVE  CountInv'
  BY <1>1, CountStart
<1>2. ASSUME NEW w \in Workers, Succeeds(w)
      PROVE  CountInv'
  <2> DEFINE c == call[w]
             n == Cardinality(Differs(table, table'))
             state == IF MoreBatches(w) THEN "pending" ELSE "ok"
  <2>1. PICK e \in Effects(w) :
            /\ table' = e.done.table
            /\ changed' = [changed EXCEPT ![w] = Append(@, n)]
            /\ Returns(w, state, outcome[w].total + e.done.affected)
    BY <1>2 DEF Succeeds
  <2>2. Running(w) /\ Send(w)
    BY <1>2 DEF Succeeds
  <2>3. /\ Ready(c) /\ Counted(w, c) /\ start[w] \in Nat /\ End(w) \in Nat
        /\ changed[w] \in Seq(Nat) /\ Sum(changed[w]) \in Nat /\ outcome[w].total \in Nat
        /\ c.op \in Upserts => Len(Batch(w)) \in Nat /\ Len(Batch(w)) = End(w) - start[w]
    BY <2>2, CountBefore
  <2>4. /\ table' \in TableType
        /\ Counts(c, e.done.affected, table', Len(Batch(w)))
    BY <2>1, <2>2, <2>3, StatementEffect DEF CountInv
  <2>5. n \in Nat
    BY <2>4, TableIsFinite DEF CountInv
  <2> HIDE DEF n
  <2>6. /\ changed' \in [Workers -> Seq(Nat)]
        /\ changed'[w] = Append(changed[w], n)
        /\ \A v \in Workers \ {w} : changed'[v] = changed[v]
    BY <2>1, <2>3, <2>5 DEF CountInv
  <2>7. Sum(changed'[w]) = Sum(changed[w]) + n
    BY <2>3, <2>5, <2>6, SumOfAppend
  <2> DEFINE total == outcome[w].total + e.done.affected
  <2>8. total \in Nat
    BY <2>3, <2>4 DEF Counts
  <2>9. /\ c.op \notin Upserts => total = Sum(changed'[w])
        /\ c.op \in Upserts => Sum(changed'[w]) <= total /\ total <= 2 * End(w)
    <3> DEFINE before == outcome[w].total
               sum == Sum(changed[w])
               affected == e.done.affected
               len == Len(Batch(w))
    <3>1. /\ before \in Nat /\ sum \in Nat /\ n \in Nat /\ affected \in Nat
          /\ start[w] \in Nat /\ End(w) \in Nat
          /\ c.op \notin Upserts => before = sum /\ affected = n
          /\ c.op \in Upserts => /\ sum <= before /\ before <= 2 * start[w]
                                 /\ n <= affected /\ affected <= 2 * len
                                 /\ len \in Nat /\ len = End(w) - start[w]
      BY <2>3, <2>4, <2>5 DEF Counts, Counted, n
    <3>2. total = before + affected /\ Sum(changed'[w]) = sum + n
      BY <2>7
    <3> HIDE DEF before, sum, affected, len, total
    <3> QED
      BY <3>1, <3>2
  <2>10. Returns(w, state, total) /\ state \in {"pending", "ok", "failed"}
         /\ (state = "pending" => MoreBatches(w))
    BY <2>1
  <2> HIDE DEF total, state
  <2> QED
    BY <2>2, <2>4, <2>6, <2>8, <2>9, <2>10, CountSend
<1>3. ASSUME NEW w \in Workers, EffectUnreported(w) \/ Fails(w)
      PROVE  CountInv'
  <2>1. Running(w) /\ Send(w) /\ Returns(w, "failed", outcome[w].total) /\ changed' = changed
    BY <1>3 DEF EffectUnreported, Fails, Fail
  <2>2. /\ Ready(call[w]) /\ Counted(w, call[w]) /\ start[w] \in Nat /\ End(w) \in Nat
        /\ start[w] <= End(w) /\ outcome[w].total \in Nat
    BY <2>1, CountBefore
  <2>3. table' \in TableType
    <3>1. CASE Fails(w)
      BY <3>1 DEF Fails, CountInv
    <3>2. CASE EffectUnreported(w)
      <4>1. PICK e \in Effects(w) : table' = e.done.table
        BY <3>2 DEF EffectUnreported
      <4> QED
        BY <2>1, <2>2, <4>1, StatementEffect DEF CountInv
    <3> QED
      BY <1>3, <3>1, <3>2
  <2>4. /\ call[w].op \notin Upserts => outcome[w].total = Sum(changed'[w])
        /\ call[w].op \in Upserts => /\ Sum(changed'[w]) <= outcome[w].total
                                     /\ outcome[w].total <= 2 * End(w)
    BY <2>1, <2>2 DEF Counted
  <2> QED
    BY <2>1, <2>2, <2>3, <2>4, CountSend DEF CountInv
<1>4. CASE UNCHANGED vars
  <2>1. UNCHANGED <<model, changed, outcome, table, call, start>> /\ \A c : Ready(c)' <=> Ready(c)
    BY <1>4, RigidReady DEF vars
  <2>2. \A w \in Workers : \A c : Counted(w, c)' <=> Counted(w, c)
    BY <2>1 DEF Counted, Bulk
  <2>3. TableType' = TableType
    BY <2>1 DEF TableType, RowType
  <2> QED
    BY <2>1, <2>2, <2>3 DEF CountInv
<1> QED
  BY <1>1, <1>2, <1>3, <1>4 DEF Next

\* A step changes the table by one statement of the one call that sends.
LEMMA StepEffect ==
    ASSUME BatchInv, CountInv, [Next]_vars
    PROVE  \/ table' = table /\ \A v \in Workers : ~Acting(v)
           \/ \E w \in Workers :
                /\ Acting(w) /\ \A v \in Workers : Acting(v) => v = w
                /\ table' = table \/ (/\ LeavesDeleted(call[w], table')
                                      /\ ChangesMatching(call[w], table'))
<1>1. ASSUME NEW w \in Workers, Running(w), Send(w)
      PROVE  Acting(w) /\ \A v \in Workers : Acting(v) => v = w
  <2>1. /\ sent[w] \in Seq(Nat \X Nat)
        /\ sent'[w] = Append(sent[w], <<start[w], End(w)>>)
        /\ \A v \in Workers \ {w} : sent'[v] = sent[v]
    BY <1>1 DEF BatchInv, Shape, Send
  <2>2. start[w] \in Nat /\ End(w) \in Nat
    BY <1>1, CountBefore
  <2>3. Append(sent[w], <<start[w], End(w)>>) # sent[w]
    BY <2>1, <2>2
  <2> QED
    BY <2>1, <2>3 DEF Acting
<1>2. ASSUME NEW w \in Workers, Running(w), NEW e \in Effects(w), table' = e.done.table
      PROVE  LeavesDeleted(call[w], table') /\ ChangesMatching(call[w], table')
  <2>1. Ready(call[w])
    BY <1>2, CountBefore
  <2> QED
    BY <1>2, <2>1, StatementEffect DEF CountInv
<1>3. ASSUME NEW w \in Workers, Succeeds(w) \/ EffectUnreported(w)
      PROVE  /\ Acting(w) /\ \A v \in Workers : Acting(v) => v = w
             /\ LeavesDeleted(call[w], table') /\ ChangesMatching(call[w], table')
  <2>1. Running(w) /\ Send(w) /\ \E e \in Effects(w) : table' = e.done.table
    BY <1>3 DEF Succeeds, EffectUnreported
  <2> QED
    BY <1>1, <1>2, <2>1
<1>4. ASSUME NEW w \in Workers, Fails(w)
      PROVE  Acting(w) /\ (\A v \in Workers : Acting(v) => v = w) /\ table' = table
  BY <1>1, <1>4 DEF Fails
<1>5. ASSUME NEW w \in Workers, Start(w)
      PROVE  table' = table /\ \A v \in Workers : ~Acting(v)
  BY <1>5 DEF Start, Acting
<1>6. CASE UNCHANGED vars
  BY <1>6 DEF vars, Acting
<1> QED
  BY <1>3, <1>4, <1>5, <1>6 DEF Next

\* A row that is the same before and after does not differ.
LEMMA SameTable == Differs(table, table) = {}
  BY DEF Differs

LEMMA CountInvariant == Spec => [](BatchInv /\ CountInv)
<1> QED
  BY BatchInit, BatchStep, CountInit, CountStep, PTL DEF Spec

\* The count that a call returns, with an error too, is that of the rows its
\* answered statements changed, between any number of other calls: the sum over the
\* batches that Exec accumulates and returns beside an error.  An upsert counts a
\* changed row twice.
THEOREM CountsItsChanges == Spec => []CountMatchesChanges
<1>1. BatchInv /\ CountInv => CountMatchesChanges
  <2> SUFFICES ASSUME BatchInv, CountInv, NEW w \in Workers, call[w] # NoCall
               PROVE  IF call[w].op \in {"upsert", "upsert many"}
                        THEN Sum(changed[w]) <= outcome[w].total
                             /\ outcome[w].total <= 2 * Len(call[w].rows)
                        ELSE outcome[w].total = Sum(changed[w])
    BY Zenon DEF CountMatchesChanges, Sum
  <2> DEFINE c == call[w]
  <2>1. c \in Calls /\ start[w] \in Nat /\ outcome[w].total \in Nat /\ Counted(w, c)
    BY DEF BatchInv, Shape, CountInv, Outcomes
  <2>2. Len(c.rows) \in Nat /\ (c.op \in Single => Len(c.rows) = 1)
    BY <2>1, CallShape
  <2>3. c.op \in Upserts => start[w] <= Len(c.rows)
    <3>1. CASE Bulk(c)
      BY <2>1, <3>1 DEF BatchInv, BulkInv, Progress
    <3>2. CASE ~Bulk(c)
      BY <2>1, <2>2, <3>2 DEF Counted, Upserts, Bulk, Many, Single
    <3> QED
      BY <3>1, <3>2
  <2> DEFINE sum == Sum(changed[w])
             total == outcome[w].total
  <2>4. /\ c.op \notin Upserts => total = sum
        /\ c.op \in Upserts => sum <= total /\ total <= 2 * start[w]
    BY <2>1 DEF Counted
  <2>5. c.op \in Upserts => total <= 2 * Len(c.rows)
    BY <2>1, <2>2, <2>3, <2>4
  <2> HIDE DEF sum, total
  <2>6. IF c.op \in Upserts THEN sum <= total /\ total <= 2 * Len(c.rows) ELSE total = sum
    BY <2>4, <2>5
  <2> QED
    BY <2>6 DEF Upserts, sum, total
<1> QED
  BY <1>1, CountInvariant, PTL

\* A logically deleted row changes by a call with WithDeleted or an upsert only, its
\* deletion time only if that call writes the field, and nothing removes it: the
\* soft-delete condition the statements of package orm carry.
THEOREM LeavesDeletedRows == Spec => DeletedRowsAreLeftAlone
<1> DEFINE A == \A id \in DOMAIN table :
           model.soft /\ table[id].del # NULL /\ id \in Differs(table, table') =>
               /\ id \in DOMAIN table'
               /\ \E w \in Workers :
                    /\ Acting(w)
                    /\ call[w].withDeleted \/ call[w].op \in {"upsert", "upsert many"}
                    /\ table'[id].del # table[id].del =>
                          IF call[w].op = "update where"
                            THEN \E i \in DOMAIN call[w].set : call[w].set[i].field = "del"
                            ELSE "del" \in FieldsOf(call[w])
<1>1. BatchInv /\ CountInv /\ [Next]_vars => A
  <2> SUFFICES ASSUME BatchInv, CountInv, [Next]_vars, NEW id \in DOMAIN table, model.soft,
                      table[id].del # NULL, id \in Differs(table, table')
               PROVE  /\ id \in DOMAIN table'
                      /\ \E w \in Workers :
                          /\ Acting(w)
                          /\ call[w].withDeleted \/ call[w].op \in {"upsert", "upsert many"}
                          /\ table'[id].del # table[id].del =>
                                IF call[w].op = "update where"
                                  THEN \E i \in DOMAIN call[w].set : call[w].set[i].field = "del"
                                  ELSE "del" \in FieldsOf(call[w])
    OBVIOUS
  <2>1. table' # table
    BY SameTable
  <2>2. PICK w \in Workers : Acting(w) /\ LeavesDeleted(call[w], table')
    BY <2>1, StepEffect
  <2> QED
    BY <2>2 DEF LeavesDeleted, Upserts
<1>2. DeletedRowsAreLeftAlone <=> [][A]_vars
  BY DEF DeletedRowsAreLeftAlone
<1> HIDE DEF A
<1> QED
  BY <1>1, <1>2, CountInvariant, PTL DEF Spec

\* A row that UpdateWhere or DeleteWhere changes satisfied every predicate of the
\* call and was active unless WithDeleted: the parentheses that the WHERE text
\* writes around a disjunction, and the condition it appends.
THEOREM ChangesMatchingRows == Spec => OnlyMatchingRowsChange
<1> DEFINE A == \A w \in Workers : Acting(w) /\ Bounded(call[w]) =>
           \A id \in Differs(table, table') :
               /\ \A g \in DOMAIN call[w].where : \E i \in DOMAIN call[w].where[g] :
                     Atom(call[w].where[g][i], AsRow(id, table)) = "true"
               /\ model.soft /\ ~call[w].withDeleted => table[id].del = NULL
<1>1. BatchInv /\ CountInv /\ [Next]_vars => A
  <2> SUFFICES ASSUME BatchInv, CountInv, [Next]_vars, NEW w \in Workers, Acting(w),
                      Bounded(call[w]), NEW id \in Differs(table, table')
               PROVE  /\ \A g \in DOMAIN call[w].where : \E i \in DOMAIN call[w].where[g] :
                            Atom(call[w].where[g][i], AsRow(id, table)) = "true"
                      /\ model.soft /\ ~call[w].withDeleted => table[id].del = NULL
    OBVIOUS
  <2>1. table' # table
    BY SameTable
  <2>2. ChangesMatching(call[w], table')
    BY <2>1, StepEffect
  <2> QED
    BY <2>2 DEF ChangesMatching
<1>2. OnlyMatchingRowsChange <=> [][A]_vars
  BY DEF OnlyMatchingRowsChange
<1> HIDE DEF A
<1> QED
  BY <1>1, <1>2, CountInvariant, PTL DEF Spec

---------------------------------------------------------------------------
(* The id an INSERT leaves in the caller's model.                          *)

\* The model is touched by the one statement of an INSERT only, and a key that
\* the Go field cannot hold is not stored.
MemoryInv ==
    /\ call \in [Workers -> Calls \cup {NoCall}]
    /\ outcome = [w \in Workers |-> outcome[w]]
    /\ memory \in [Workers -> [made : Ids \cup {NULL}, found : Ids \cup {NULL}]]
    /\ \A w \in Workers :
        /\ memory[w].found # NULL => memory[w].found = memory[w].made
        /\ call[w] = NoCall => outcome[w].state = "pending"
        /\ outcome[w].state = "pending" => memory[w].found = NULL
        /\ outcome[w].state = "ok" /\ Generates(w) => memory[w].found # NULL

\* The key of the one row a single INSERT writes.
LEMMA KeyIsAnId ==
    ASSUME NEW w \in Workers, call[w] \in Calls, Generates(w), NEW e \in Effects(w)
    PROVE  e.ids[1] \in Ids
<1> DEFINE rows == call[w].rows
<1>1. call[w].op = "insert" /\ model.auto
  BY DEF Generates
<1>2. Len(rows) = 1 /\ 1 \in DOMAIN rows
  <2>1. call[w] \in Calls /\ call[w].op \in Single
    BY <1>1 DEF Single
  <2>2. Len(rows) = 1 /\ DOMAIN rows = 1 .. Len(rows)
    BY <2>1, CallShape, Zenon
  <2> QED
    BY <2>2
<1>3. Batch(w) = rows
  BY <1>1 DEF Batch, Bulk, Many
<1>4. Effects(w) = InsertEffects(rows)
  BY <1>1, <1>3 DEF Effects
<1>5. PICK ids \in Keys(rows) : e = [ids |-> ids, done |-> InsertRows(rows, ids)]
  BY <1>4 DEF InsertEffects
<1>6. ids \in [DOMAIN rows -> Ids \ DOMAIN table]
  BY <1>1 DEF Keys
<1> QED
  BY <1>2, <1>5, <1>6

LEMMA MemoryInit == Init => MemoryInv
  BY DEF Init, MemoryInv, Pending

LEMMA MemoryStep == MemoryInv /\ [Next]_vars => MemoryInv'
<1> SUFFICES ASSUME MemoryInv, [Next]_vars
             PROVE  MemoryInv'
  OBVIOUS
<1>0. NULL \notin Ids
  BY MutationsAssumption
<1>1. ASSUME NEW w \in Workers, Start(w)
      PROVE  MemoryInv'
  <2>1. PICK c \in Calls :
            /\ call[w] = NoCall
            /\ call' = [call EXCEPT ![w] = c]
            /\ outcome' = [outcome EXCEPT ![w] =
                   IF ~Accepted(c) THEN Returned("refused", 0)
                   ELSE IF NoOp(c) THEN Returned("ok", 0) ELSE Pending]
            /\ UNCHANGED <<model, memory>>
    BY <1>1 DEF Start
  <2>2. outcome'[w].state = "ok" => c.op # "insert"
    BY <2>1 DEF MemoryInv, Returned, Pending, NoOp, Bulk, Many
  <2>3. memory[w].found = NULL /\ call'[w] = c /\ c # NoCall
    BY <2>1, CallShape DEF MemoryInv
  <2>4. /\ outcome' = [v \in Workers |-> outcome'[v]]
        /\ \A v \in Workers \ {w} : call'[v] = call[v] /\ outcome'[v] = outcome[v]
    BY <2>1 DEF MemoryInv
  <2>5. call' \in [Workers -> Calls \cup {NoCall}]
    BY <2>1 DEF MemoryInv
  <2>6. memory' = memory /\ model' = model
    BY <2>1
  <2> QED
    BY <2>2, <2>3, <2>4, <2>5, <2>6 DEF MemoryInv, Generates
<1>2. ASSUME NEW w \in Workers, NEW e \in Effects(w), NEW state, NEW total,
             Running(w), Send(w), Returns(w, state, total), Remember(w, e),
             state # "pending" \/ ~Generates(w),
             state = "ok" /\ Generates(w) => Fits(e)
      PROVE  MemoryInv'
  <2>1. call[w] \in Calls /\ call[w] # NoCall /\ memory[w].found = NULL
    BY <1>2 DEF MemoryInv, Running
  <2>2. outcome'[w].state = state /\ \A v \in Workers \ {w} : outcome'[v] = outcome[v]
    BY <1>2 DEF Returns, Returned, MemoryInv
  <2>3. call' = call /\ model' = model /\ outcome' = [v \in Workers |-> outcome'[v]]
    BY <1>2 DEF Send, Returns, MemoryInv
  <2>4. CASE ~Generates(w)
    <3>1. memory' = memory
      BY <1>2, <2>4 DEF Remember
    <3> QED
      BY <2>1, <2>2, <2>3, <2>4, <3>1 DEF MemoryInv, Generates
  <2>5. CASE Generates(w)
    <3>1. e.ids[1] \in Ids
      BY <2>1, <2>5, KeyIsAnId
    <3>2. memory' = [memory EXCEPT ![w] = [made |-> e.ids[1],
                                           found |-> IF Fits(e) THEN e.ids[1] ELSE NULL]]
      BY <1>2, <2>1, <2>5 DEF Remember
    <3>3. /\ memory'[w] = [made |-> e.ids[1], found |-> IF Fits(e) THEN e.ids[1] ELSE NULL]
          /\ \A v \in Workers \ {w} : memory'[v] = memory[v]
          /\ memory' \in [Workers -> [made : Ids \cup {NULL}, found : Ids \cup {NULL}]]
      BY <3>1, <3>2 DEF MemoryInv
    <3>4. /\ memory'[w].made = e.ids[1]
          /\ memory'[w].found \in {e.ids[1], NULL}
          /\ state = "ok" => memory'[w].found # NULL
      BY <1>0, <1>2, <2>5, <3>1, <3>3
    <3>5. ASSUME NEW v \in Workers
          PROVE  /\ memory'[v].found # NULL => memory'[v].found = memory'[v].made
                 /\ call'[v] = NoCall => outcome'[v].state = "pending"
                 /\ outcome'[v].state = "pending" => memory'[v].found = NULL
                 /\ outcome'[v].state = "ok" /\ Generates(v)' => memory'[v].found # NULL
      <4>1. CASE v = w
        BY <1>2, <2>1, <2>2, <2>3, <2>5, <3>4, <4>1
      <4>2. CASE v # w
        BY <2>2, <2>3, <3>3, <4>2 DEF MemoryInv, Generates
      <4> QED
        BY <4>1, <4>2
    <3> QED
      BY <2>3, <3>3, <3>5 DEF MemoryInv
  <2> QED
    BY <2>4, <2>5
<1>3. ASSUME NEW w \in Workers, Succeeds(w)
      PROVE  MemoryInv'
  <2>1. PICK e \in Effects(w) :
            /\ Generates(w) => Fits(e)
            /\ Remember(w, e)
            /\ Returns(w, IF MoreBatches(w) THEN "pending" ELSE "ok",
                          outcome[w].total + e.done.affected)
    BY <1>3 DEF Succeeds
  <2>2. Running(w) /\ Send(w) /\ (Generates(w) => ~MoreBatches(w))
    BY <1>3 DEF Succeeds, Generates, MoreBatches, Bulk, Many
  <2> QED
    BY <1>2, <2>1, <2>2
<1>4. ASSUME NEW w \in Workers, EffectUnreported(w)
      PROVE  MemoryInv'
  <2>1. Running(w) /\ Send(w) /\ Returns(w, "failed", outcome[w].total)
    BY <1>4 DEF EffectUnreported, Fail
  <2>2. PICK e \in Effects(w) :
            \/ memory' = [memory EXCEPT ![w].made = IF Generates(w) THEN e.ids[1] ELSE @]
            \/ Remember(w, e)
    BY <1>4 DEF EffectUnreported
  <2>3. CASE Remember(w, e)
    BY <1>2, <2>1, <2>3
  <2>4. CASE memory' = [memory EXCEPT ![w].made = IF Generates(w) THEN e.ids[1] ELSE @]
    <3>1. call[w] \in Calls /\ call[w] # NoCall /\ memory[w].found = NULL
      BY <2>1 DEF MemoryInv, Running
    <3>2. Generates(w) => e.ids[1] \in Ids
      BY <3>1, KeyIsAnId
    <3>3. /\ outcome'[w].state = "failed"
          /\ \A v \in Workers \ {w} : outcome'[v] = outcome[v]
          /\ outcome' = [v \in Workers |-> outcome'[v]]
      BY <2>1 DEF Returns, Returned, MemoryInv
    <3>4. /\ memory' \in [Workers -> [made : Ids \cup {NULL}, found : Ids \cup {NULL}]]
          /\ memory'[w].found = NULL
          /\ \A v \in Workers \ {w} : memory'[v] = memory[v]
      BY <2>4, <3>1, <3>2 DEF MemoryInv
    <3> QED
      BY <2>1, <3>1, <3>3, <3>4 DEF MemoryInv, Generates, Send
  <2> QED
    BY <2>2, <2>3, <2>4
<1>5. ASSUME NEW w \in Workers, Fails(w)
      PROVE  MemoryInv'
  <2>1. /\ Running(w) /\ call' = call /\ model' = model /\ memory' = memory
        /\ outcome' = [outcome EXCEPT ![w] = Returned("failed", outcome[w].total)]
    BY <1>5 DEF Fails, Fail, Returns, Send
  <2>2. outcome'[w].state = "failed" /\ \A v \in Workers \ {w} : outcome'[v] = outcome[v]
    BY <2>1 DEF Returned, MemoryInv
  <2> QED
    BY <2>1, <2>2 DEF MemoryInv, Generates, Running
<1>6. CASE UNCHANGED vars
  BY <1>6 DEF MemoryInv, Generates, vars
<1> QED
  BY <1>1, <1>3, <1>4, <1>5, <1>6 DEF Next

\* An id an INSERT left in the caller's model is the id of the row it created, also
\* when the call went on to fail, and a success has left one: the reading back of
\* the generated key, whose overflow of the Go field fails the call.
THEOREM NamesItsRow == Spec => []ModelNamesItsRow
<1>1. MemoryInv => ModelNamesItsRow
  BY DEF MemoryInv, ModelNamesItsRow
<1> QED
  BY <1>1, MemoryInit, MemoryStep, PTL DEF Spec

\* The variables keep their shapes, no call takes more rows than its input has, and
\* every table a statement leaves holds rows that its columns can hold: a deletion
\* time is never the zero time, which the mutation layer turns into NULL.
THEOREM TypesHold == Spec => []TypeOK
<1>1. BatchInv /\ CountInv /\ MemoryInv => TypeOK
  <2> SUFFICES ASSUME BatchInv, CountInv, MemoryInv
               PROVE  TypeOK
    OBVIOUS
  <2>1. model \in Models /\ DOMAIN table \subseteq Ids /\ table \in [DOMAIN table -> RowType]
    BY TableIsFinite DEF BatchInv, Shape, CountInv
  <2>2. ASSUME NEW w \in Workers, call[w] # NoCall
        PROVE  start[w] \in 0 .. Max({1, Len(call[w].rows)})
    <3> DEFINE c == call[w]
               m == Len(c.rows)
    <3>1. c \in Calls /\ start[w] \in Nat /\ Counted(w, c)
      BY <2>2 DEF BatchInv, Shape, CountInv
    <3>2. m \in Nat
      BY <3>1, CallShape
    <3>3. start[w] <= m \/ start[w] <= 1
      BY <3>1 DEF Counted, BatchInv, BulkInv, Progress
    <3> HIDE DEF m
    <3>4. Max({1, m}) \in {1, m} /\ Max({1, m}) >= 1 /\ Max({1, m}) >= m
      BY <3>2, MaxOfTwo
    <3>5. start[w] \in 0 .. Max({1, m})
      BY <3>1, <3>2, <3>3, <3>4
    <3> QED
      BY <3>5 DEF m
  <2>3. ASSUME NEW w \in Workers
        PROVE  /\ call[w] \in Calls \cup {NoCall}
               /\ outcome[w] \in [state : {"pending", "ok", "failed", "refused"}, total : Nat]
               /\ memory[w] \in [made : Ids \cup {NULL}, found : Value]
    <3>1. Ids \cup {NULL} \subseteq Value
      BY MutationsAssumption DEF Value
    <3> QED
      BY <3>1 DEF CountInv, MemoryInv, Outcomes
  <2> QED
    BY <2>1, <2>2, <2>3 DEF TypeOK
<1> QED
  BY <1>1, CountInvariant, MemoryInit, MemoryStep, PTL DEF Spec

\* A caller that pages through the table only reads: composed with it, the mutations
\* are those of the theorems above, which therefore hold of the composition too.
THEOREM PagingOnlyReads == RowsSpec => Spec
<1>1. RowsInit => Init
  BY DEF RowsInit
<1>2. [RowsNext]_rowsVars => [Next]_vars
  BY DEF RowsNext, Mutate, StartPaging, ReadPage, RefusePage, rowsVars
<1> QED
  BY <1>1, <1>2, PTL DEF RowsSpec, Spec

---------------------------------------------------------------------------
(* The order of the rows, and the condition that seeks in it.               *)

Terms == [field : Fields, direction : {"asc", "desc"}]
PageRow == [id : Ids, rank : Value, del : Value]

\* What one term of an ORDER BY says of two values, NULL below every other.
LEMMA TermOrder ==
    ASSUME NEW term \in Terms, NEW a \in Value, NEW b \in Value, NEW c \in Value
    PROVE  /\ TermBefore(term, a, b) => ~ TermBefore(term, b, a) /\ a # b
           /\ TermBefore(term, a, b) \/ TermBefore(term, b, a) \/ a = b
           /\ TermBefore(term, a, b) /\ TermBefore(term, b, c) => TermBefore(term, a, c)
  BY MutationsAssumption DEF TermBefore, Terms, Value

\* Two rows that the i-th term tells apart, and no term before it.
ApartAt(order, r, s, i) ==
    /\ TermBefore(order[i], r[order[i].field], s[order[i].field])
    /\ \A j \in 1 .. i - 1 : r[order[j].field] = s[order[j].field]

\* A term is over a field that a row has.
LEMMA FieldValues ==
    ASSUME NEW order \in Seq(Terms), NEW i \in DOMAIN order, NEW r \in PageRow
    PROVE  order[i] \in Terms /\ r[order[i].field] \in Value
<1>1. order[i] \in Terms
  OBVIOUS
<1>2. order[i].field \in Fields
  BY <1>1 DEF Terms
<1>3. Ids \subseteq Value
  BY MutationsAssumption DEF Value
<1> QED
  BY <1>1, <1>2, <1>3 DEF Fields, PageRow

\* No row comes before itself, and coming before is transitive.
LEMMA BeforeIsStrict ==
    ASSUME NEW order \in Seq(Terms), NEW r \in PageRow, NEW s \in PageRow, NEW t \in PageRow
    PROVE  /\ ~ Before(order, r, r)
           /\ Before(order, r, s) /\ Before(order, s, t) => Before(order, r, t)
<1>1. \A i \in DOMAIN order : ~ TermBefore(order[i], r[order[i].field], r[order[i].field])
  BY FieldValues, TermOrder
<1>2. ASSUME NEW i \in DOMAIN order, NEW k \in DOMAIN order,
             ApartAt(order, r, s, i), ApartAt(order, s, t, k)
      PROVE  \E j \in DOMAIN order : ApartAt(order, r, t, j)
  <2>1. DOMAIN order = 1 .. Len(order) /\ Len(order) \in Nat
    OBVIOUS
  <2>2. CASE i < k
    <3>1. s[order[i].field] = t[order[i].field]
      BY <1>2, <2>1, <2>2 DEF ApartAt
    <3>2. \A j \in 1 .. i - 1 : s[order[j].field] = t[order[j].field]
      BY <1>2, <2>1, <2>2 DEF ApartAt
    <3> QED
      BY <1>2, <3>1, <3>2 DEF ApartAt
  <2>3. CASE k < i
    <3>1. r[order[k].field] = s[order[k].field]
      BY <1>2, <2>1, <2>3 DEF ApartAt
    <3>2. \A j \in 1 .. k - 1 : r[order[j].field] = s[order[j].field]
      BY <1>2, <2>1, <2>3 DEF ApartAt
    <3> QED
      BY <1>2, <3>1, <3>2 DEF ApartAt
  <2>4. CASE i = k
    <3>1. TermBefore(order[i], r[order[i].field], t[order[i].field])
      BY <1>2, <2>4, FieldValues, TermOrder DEF ApartAt
    <3> QED
      BY <1>2, <2>4, <3>1 DEF ApartAt
  <2> QED
    BY <2>1, <2>2, <2>3, <2>4
<1>3. \A x, y : Before(order, x, y) <=> \E i \in DOMAIN order : ApartAt(order, x, y, i)
  BY DEF Before, ApartAt
<1>4. ASSUME Before(order, r, s), Before(order, s, t)
      PROVE  Before(order, r, t)
  <2>1. PICK i \in DOMAIN order : ApartAt(order, r, s, i)
    BY <1>3, <1>4
  <2>2. PICK k \in DOMAIN order : ApartAt(order, s, t, k)
    BY <1>3, <1>4
  <2> QED
    BY <1>2, <1>3, <2>1, <2>2
<1> QED
  BY <1>1, <1>4 DEF Before

\* An order over the primary key puts any two rows one before the other.
LEMMA BeforeIsTotal ==
    ASSUME NEW order \in Seq(Terms), NEW r \in PageRow, NEW s \in PageRow, r.id # s.id,
           \E i \in DOMAIN order : order[i].field = "id"
    PROVE  Before(order, r, s) \/ Before(order, s, r)
<1> DEFINE T == {i \in DOMAIN order : r[order[i].field] # s[order[i].field]}
<1>1. T # {} /\ T \in SUBSET Nat
  OBVIOUS
<1>2. PICK i \in T : \A j \in T : i <= j
  <2> HIDE DEF T
  <2> QED
    BY <1>1, LeastNumber
<1>3. \A j \in 1 .. i - 1 : r[order[j].field] = s[order[j].field]
  <2>1. \A j \in 1 .. i - 1 : j \in DOMAIN order /\ j < i
    OBVIOUS
  <2> QED
    BY <1>2, <2>1
<1>4. \/ TermBefore(order[i], r[order[i].field], s[order[i].field])
      \/ TermBefore(order[i], s[order[i].field], r[order[i].field])
  BY FieldValues, TermOrder
<1> QED
  BY <1>3, <1>4 DEF Before

\* The truth of one level of the condition, above the truth of the levels below.
Truths == {"true", "false", "unknown"}

LevelOf(m, term, value, bound, deeper) ==
    IF bound = NULL THEN NullLevel(term.direction, value, deeper)
    ELSE ValueLevel(m, term, value, bound, deeper)

\* A level is true of the values that come after the cursor's, and of the same value
\* when the levels below are; a value that could be NULL must be one the cursor's
\* model can hold.
LEMMA LevelIsBefore ==
    ASSUME NEW m \in Models, NEW term \in Terms, NEW value \in Value, NEW bound \in Value,
           value = NULL => CursorFieldCanBeNull(m, term.field), NEW deeper \in Truths
    PROVE  /\ LevelOf(m, term, value, bound, deeper) \in Truths
           /\ LevelOf(m, term, value, bound, deeper) = "true"
                 <=> TermBefore(term, bound, value) \/ (bound = value /\ deeper = "true")
<1>1. \A p, q \in Truths : /\ Disj(p, q) \in Truths /\ (Disj(p, q) = "true" <=> p = "true" \/ q = "true")
                          /\ Conj(p, q) \in Truths /\ (Conj(p, q) = "true" <=> p = "true" /\ q = "true")
                          /\ Negate(p) \in Truths /\ (Negate(p) = "true" <=> p = "false")
  <2> TAKE p, q \in Truths
  <2>1. Disj(p, q) \in Truths /\ (Disj(p, q) = "true" <=> p = "true" \/ q = "true")
    BY DEF Truths, Disj
  <2>2. Conj(p, q) \in Truths /\ (Conj(p, q) = "true" <=> p = "true" /\ q = "true")
    BY DEF Truths, Conj
  <2>3. Negate(p) \in Truths /\ (Negate(p) = "true" <=> p = "false")
    BY DEF Truths, Negate
  <2> QED
    BY <2>1, <2>2, <2>3
<1>2. \A a \in Value : IsNull(a) \in Truths /\ (IsNull(a) = "true" <=> a = NULL)
                                         /\ (IsNull(a) = "false" <=> a # NULL)
  BY DEF Truths, IsNull, Bool
<1>3. \A a, b \in Value :
         /\ Less(a, b) \in Truths /\ (Less(a, b) = "true" <=> a # NULL /\ b # NULL /\ a < b)
         /\ Equal(a, b) \in Truths /\ (Equal(a, b) = "true" <=> a # NULL /\ b # NULL /\ a = b)
  BY DEF Truths, Less, Equal, Bool
<1>4. term.direction \in {"asc", "desc"}
  BY DEF Terms
<1>5. CASE bound = NULL
  <2>1. LevelOf(m, term, value, bound, deeper) = NullLevel(term.direction, value, deeper)
    BY <1>5 DEF LevelOf
  <2>2. CASE term.direction = "asc"
    BY <1>1, <1>2, <1>5, <2>1, <2>2 DEF NullLevel, TermBefore
  <2>3. CASE term.direction = "desc"
    BY <1>1, <1>2, <1>5, <2>1, <2>3 DEF NullLevel, TermBefore
  <2> QED
    BY <1>4, <2>2, <2>3
<1>6. CASE bound # NULL
  <2>1. LevelOf(m, term, value, bound, deeper) = ValueLevel(m, term, value, bound, deeper)
    BY <1>6 DEF LevelOf
  <2>2. CASE term.direction = "asc"
    <3>1. ValueLevel(m, term, value, bound, deeper) = Disj(Less(bound, value), Conj(Equal(value, bound), deeper))
      BY <2>2 DEF ValueLevel
    <3>2. TermBefore(term, bound, value) <=> value # NULL /\ bound < value
      BY <1>6, <2>2 DEF TermBefore
    <3>3. /\ Less(bound, value) \in Truths /\ Equal(value, bound) \in Truths
          /\ Less(bound, value) = "true" <=> value # NULL /\ bound < value
          /\ Equal(value, bound) = "true" <=> bound = value
      BY <1>3, <1>6
    <3>4. /\ Conj(Equal(value, bound), deeper) \in Truths
          /\ Conj(Equal(value, bound), deeper) = "true" <=> bound = value /\ deeper = "true"
      BY <1>1, <3>3
    <3>5. /\ ValueLevel(m, term, value, bound, deeper) \in Truths
          /\ ValueLevel(m, term, value, bound, deeper) = "true"
                <=> Less(bound, value) = "true" \/ Conj(Equal(value, bound), deeper) = "true"
      BY <1>1, <3>1, <3>3, <3>4
    <3> QED
      BY <2>1, <3>2, <3>3, <3>4, <3>5
  <2>3. CASE term.direction = "desc" /\ CursorFieldCanBeNull(m, term.field)
    <3>1. ValueLevel(m, term, value, bound, deeper)
            = Disj(Disj(Less(value, bound), IsNull(value)), Conj(Equal(value, bound), deeper))
      BY <2>3 DEF ValueLevel
    <3>2. TermBefore(term, bound, value) <=> value = NULL \/ value < bound
      BY <1>6, <2>3 DEF TermBefore
    <3>3. /\ Less(value, bound) \in Truths /\ Equal(value, bound) \in Truths /\ IsNull(value) \in Truths
          /\ Less(value, bound) = "true" <=> value # NULL /\ value < bound
          /\ Equal(value, bound) = "true" <=> bound = value
          /\ IsNull(value) = "true" <=> value = NULL
      BY <1>2, <1>3, <1>6
    <3>4. /\ Disj(Less(value, bound), IsNull(value)) \in Truths
          /\ Disj(Less(value, bound), IsNull(value)) = "true" <=> value = NULL \/ value < bound
      BY <1>1, <3>3
    <3>5. /\ Conj(Equal(value, bound), deeper) \in Truths
          /\ Conj(Equal(value, bound), deeper) = "true" <=> bound = value /\ deeper = "true"
      BY <1>1, <3>3
    <3>6. /\ ValueLevel(m, term, value, bound, deeper) \in Truths
          /\ ValueLevel(m, term, value, bound, deeper) = "true"
                <=> (value = NULL \/ value < bound) \/ Conj(Equal(value, bound), deeper) = "true"
      BY <1>1, <3>1, <3>4, <3>5
    <3> QED
      BY <2>1, <3>2, <3>5, <3>6
  <2>4. CASE term.direction = "desc" /\ ~ CursorFieldCanBeNull(m, term.field)
    <3>1. ValueLevel(m, term, value, bound, deeper)
            = Disj(Less(value, bound), Conj(Equal(value, bound), deeper))
      BY <2>4 DEF ValueLevel
    <3>2. TermBefore(term, bound, value) <=> value # NULL /\ value < bound
      BY <1>6, <2>4 DEF TermBefore
    <3>3. /\ Less(value, bound) \in Truths /\ Equal(value, bound) \in Truths
          /\ Less(value, bound) = "true" <=> value # NULL /\ value < bound
          /\ Equal(value, bound) = "true" <=> bound = value
      BY <1>3, <1>6
    <3>4. /\ Conj(Equal(value, bound), deeper) \in Truths
          /\ Conj(Equal(value, bound), deeper) = "true" <=> bound = value /\ deeper = "true"
      BY <1>1, <3>3
    <3>5. /\ ValueLevel(m, term, value, bound, deeper) \in Truths
          /\ ValueLevel(m, term, value, bound, deeper) = "true"
                <=> Less(value, bound) = "true" \/ Conj(Equal(value, bound), deeper) = "true"
      BY <1>1, <3>1, <3>3, <3>4
    <3> QED
      BY <2>1, <3>2, <3>3, <3>4, <3>5
  <2> QED
    BY <1>4, <2>2, <2>3, <2>4
<1> QED
  BY <1>5, <1>6

\* The condition that SeekAfter renders for a cursor with the values of a row, NULLs
\* among them, is true of the rows that ORDER BY puts after that row and of no others,
\* for any number of terms in any directions: no row is skipped at a tie or a NULL,
\* and none is read twice.
THEOREM SeekIsBefore ==
    ASSUME NEW m \in Models, NEW order \in Seq(Terms), NEW last \in PageRow, NEW row \in PageRow,
           NEW cursor, \A i \in DOMAIN order : cursor[i] = last[order[i].field],
           \A i \in DOMAIN order :
              row[order[i].field] = NULL => CursorFieldCanBeNull(m, order[i].field)
    PROVE  SeekCondition(m, order, cursor, row) = "true" <=> Before(order, last, row)
<1> DEFINE n == Len(order)
           One(i, deeper) == LevelOf(m, order[i], row[order[i].field], cursor[i], deeper)
           Levels(l) == l = [i \in 1 .. n + 1 |-> IF i > n THEN "false" ELSE One(i, l[i + 1])]
           H == [k \in 1 .. n |-> [v \in Truths |-> One(n + 1 - k, v)]]
           Tie(i) == last[order[i].field] = row[order[i].field]
           Apart(i) == TermBefore(order[i], last[order[i].field], row[order[i].field])
<1>1. n \in Nat /\ DOMAIN order = 1 .. n
  OBVIOUS
<1>2. ASSUME NEW i \in 1 .. n, NEW v \in Truths
      PROVE  One(i, v) \in Truths /\ (One(i, v) = "true" <=> Apart(i) \/ (Tie(i) /\ v = "true"))
  <2>1. /\ order[i] \in Terms /\ row[order[i].field] \in Value /\ last[order[i].field] \in Value
        /\ cursor[i] = last[order[i].field]
        /\ row[order[i].field] = NULL => CursorFieldCanBeNull(m, order[i].field)
    BY <1>1, FieldValues
  <2>2. /\ LevelOf(m, order[i], row[order[i].field], last[order[i].field], v) \in Truths
        /\ LevelOf(m, order[i], row[order[i].field], last[order[i].field], v) = "true"
              <=> Apart(i) \/ (Tie(i) /\ v = "true")
    BY <2>1, LevelIsBefore, Zenon
  <2>3. One(i, v) = LevelOf(m, order[i], row[order[i].field], last[order[i].field], v)
    BY <2>1
  <2> HIDE DEF One, Apart, Tie
  <2> QED
    BY <2>2, <2>3, Zenon
<1>3. H \in [1 .. n -> [Truths -> Truths]]
  <2>1. \A k \in 1 .. n : n + 1 - k \in 1 .. n
    BY <1>1
  <2> HIDE DEF One, n
  <2> QED
    BY <1>2, <2>1
<1>4. PICK G \in [0 .. n -> Truths] : Steps(G, n, "false", H)
  <2>1. "false" \in Truths
    BY DEF Truths
  <2> HIDE DEF n, H
  <2> QED
    BY <1>1, <1>3, <2>1, StepsExist, Zenon
<1> DEFINE L == [i \in 1 .. n + 1 |-> G[n + 1 - i]]
<1>5. Levels(L)
  <2>1. ASSUME NEW i \in 1 .. n + 1
        PROVE  L[i] = IF i > n THEN "false" ELSE One(i, L[i + 1])
    <3>1. CASE i > n
      <4>1. i = n + 1 /\ n + 1 - i = 0
        BY <1>1, <3>1
      <4>2. G[0] = "false"
        BY <1>4 DEF Steps
      <4> QED
        BY <3>1, <4>1, <4>2
    <3>2. CASE ~ (i > n)
      <4> DEFINE k == n + 1 - i
      <4>1. k \in 1 .. n /\ n + 1 - k = i /\ i + 1 \in 1 .. n + 1 /\ n + 1 - (i + 1) = k - 1 /\ k - 1 \in 0 .. n
        BY <1>1, <3>2
      <4>2. L[i] = G[k] /\ L[i + 1] = G[k - 1]
        BY <4>1
      <4> HIDE DEF k, One, L, n
      <4>3. G[k] = H[k][G[k - 1]] /\ G[k - 1] \in Truths
        BY <1>4, <4>1 DEF Steps
      <4>4. H[k][G[k - 1]] = One(n + 1 - k, G[k - 1])
        BY <4>1, <4>3
      <4> QED
        BY <3>2, <4>1, <4>2, <4>3, <4>4
    <3> QED
      BY <3>1, <3>2
  <2> HIDE DEF One, n
  <2> QED
    BY <2>1
<1> DEFINE l == CHOOSE it : Levels(it)
<1>6. Levels(l)
  <2> HIDE DEF Levels
  <2> QED
    BY <1>5
<1>7. SeekCondition(m, order, cursor, row) = l[1]
  BY Zenon DEF SeekCondition, LevelOf
<1> HIDE DEF l, L
<1> DEFINE After(i) == \E k \in i .. n : Apart(k) /\ \A j \in i .. k - 1 : Tie(j)
           Fine(i) == l[i] \in Truths /\ (l[i] = "true" <=> After(i))
<1>8. Fine(n + 1)
  <2>1. n + 1 \in 1 .. n + 1 /\ n + 1 > n /\ n + 1 .. n = {}
    BY <1>1
  <2>2. l[n + 1] = "false"
    <3> HIDE DEF One, n
    <3> QED
      BY <1>6, <2>1
  <2> QED
    BY <2>1, <2>2 DEF Truths
<1>9. ASSUME NEW i \in 1 .. n, Fine(i + 1)
      PROVE  Fine(i)
  <2>1. l[i] = One(i, l[i + 1])
    <3>1. i \in 1 .. n + 1 /\ ~ (i > n)
      BY <1>1
    <3> HIDE DEF One, n
    <3> QED
      BY <1>6, <3>1
  <2>2. l[i] \in Truths /\ (l[i] = "true" <=> Apart(i) \/ (Tie(i) /\ l[i + 1] = "true"))
    <3>1. l[i + 1] \in Truths
      BY <1>9
    <3>2. ASSUME NEW v \in Truths
          PROVE  One(i, v) \in Truths /\ (One(i, v) = "true" <=> Apart(i) \/ (Tie(i) /\ v = "true"))
      <4> HIDE DEF One, n, Apart, Tie
      <4> QED
        BY <1>2, Zenon
    <3> HIDE DEF One, n, Apart, Tie
    <3> QED
      BY <2>1, <3>1, <3>2, Zenon
  <2> HIDE DEF Apart, Tie, n
  <2>3. ASSUME Apart(i)
        PROVE  After(i)
    <3>1. i \in i .. n /\ i .. i - 1 = {}
      BY <1>1
    <3> QED
      BY <2>3, <3>1
  <2>4. ASSUME Tie(i), After(i + 1)
        PROVE  After(i)
    <3>1. PICK k \in i + 1 .. n : Apart(k) /\ \A j \in i + 1 .. k - 1 : Tie(j)
      BY <2>4
    <3>2. k \in i .. n /\ \A j \in i .. k - 1 : j = i \/ j \in i + 1 .. k - 1
      BY <1>1
    <3> QED
      BY <2>4, <3>1, <3>2
  <2>5. ASSUME After(i)
        PROVE  Apart(i) \/ (Tie(i) /\ After(i + 1))
    <3>1. PICK k \in i .. n : Apart(k) /\ \A j \in i .. k - 1 : Tie(j)
      BY <2>5
    <3>2. CASE k = i
      BY <3>1, <3>2
    <3>3. CASE k # i
      <4>1. k \in i + 1 .. n /\ i \in i .. k - 1 /\ \A j \in i + 1 .. k - 1 : j \in i .. k - 1
        BY <1>1, <3>3
      <4> QED
        BY <3>1, <4>1
    <3> QED
      BY <3>2, <3>3
  <2> HIDE DEF After
  <2> QED
    BY <1>9, <2>2, <2>3, <2>4, <2>5
<1>10. Fine(1)
  <2> DEFINE S == {k \in 0 .. n : Fine(n + 1 - k)}
  <2> HIDE DEF Fine, n
  <2>1. 0 \in S
    BY <1>1, <1>8
  <2>2. ASSUME NEW k \in 0 .. n - 1, k \in S
        PROVE  k + 1 \in S
    <3>1. n + 1 - (k + 1) \in 1 .. n /\ (n + 1 - (k + 1)) + 1 = n + 1 - k /\ k + 1 \in 0 .. n
      BY <1>1
    <3>2. Fine((n + 1 - (k + 1)) + 1)
      BY <2>2, <3>1
    <3>3. Fine(n + 1 - (k + 1))
      BY <1>9, <3>1, <3>2
    <3> QED
      BY <3>1, <3>3
  <2>3. \A k \in 0 .. n : k \in S
    <3> HIDE DEF S
    <3> QED
      BY <1>1, <2>1, <2>2, UpTo
  <2>4. n \in 0 .. n /\ n + 1 - n = 1
    BY <1>1
  <2>5. n \in S
    BY <2>3, <2>4
  <2> QED
    BY <2>4, <2>5
<1>11. After(1) <=> Before(order, last, row)
  BY <1>1 DEF Before
<1> QED
  BY <1>7, <1>10, <1>11

---------------------------------------------------------------------------
(* The pages of the rows.                                                   *)

Keyed(order) == \E i \in DOMAIN order : order[i].field = "id"
Ordered(order, rows) == \A i, j \in DOMAIN rows : i < j => Before(order, rows[i], rows[j])

\* A sequence of a finite set has each of its elements in one place.
LEMMA SeqOfSet ==
    ASSUME NEW S, IsFiniteSet(S), NEW page \in SetToSeqs(S)
    PROVE  /\ page \in Seq(S)
           /\ \A i, j \in DOMAIN page : i # j => page[i] # page[j]
           /\ \A x \in S : \E k \in DOMAIN page : page[k] = x
<1> DEFINE n == Cardinality(S)
<1>1. n \in Nat
  BY FS_CardinalityType
<1>2. page \in [1 .. n -> S] /\ \A i, j \in 1 .. n : i # j => page[i] # page[j]
  BY DEF SetToSeqs
<1>3. page \in Seq(S) /\ DOMAIN page = 1 .. n
  BY <1>1, <1>2
<1>4. page \in Injection(1 .. n, S)
  BY <1>2 DEF Injection, IsInjective
<1>5. Cardinality(1 .. n) = Cardinality(S)
  BY <1>1, FS_Interval
<1>6. page \in Surjection(1 .. n, S)
  BY <1>4, <1>5, FS_Injection
<1> HIDE DEF n
<1> QED
  BY <1>2, <1>3, <1>6 DEF Surjection

\* An order over the primary key leaves one way to sort rows with different keys.
LEMMA PageIsOrdered ==
    ASSUME NEW order \in Seq(Terms), Keyed(order),
           NEW rows \in SUBSET PageRow, IsFiniteSet(rows), \A r, s \in rows : r.id = s.id => r = s,
           NEW page \in SetToSeqs(rows),
           \A i, j \in DOMAIN page : i < j => ~ Before(order, page[j], page[i])
    PROVE  Ordered(order, page)
<1> SUFFICES ASSUME NEW i \in DOMAIN page, NEW j \in DOMAIN page, i < j
             PROVE  Before(order, page[i], page[j])
  BY DEF Ordered
<1>1. page \in Seq(rows) /\ page[i] # page[j]
  <2>1. i # j
    <3>1. page \in Seq(rows)
      BY SeqOfSet
    <3> QED
      BY <3>1
  <2> QED
    BY <2>1, SeqOfSet
<1>2. page[i] \in rows /\ page[j] \in rows
  BY <1>1
<1>3. page[i] \in PageRow /\ page[j] \in PageRow /\ page[i].id # page[j].id
  BY <1>1, <1>2
<1> QED
  BY <1>3, BeforeIsTotal DEF Keyed

\* A page that comes after the rows delivered before continues them.
LEMMA PageContinues ==
    ASSUME NEW order \in Seq(Terms), NEW before \in Seq(PageRow), Ordered(order, before),
           NEW page \in Seq(PageRow), Ordered(order, page),
           before # <<>> => \A k \in DOMAIN page : Before(order, Last(before), page[k])
    PROVE  Ordered(order, before \o page)
<1> DEFINE all == before \o page
           m == Len(before)
<1>1. /\ m \in Nat /\ DOMAIN before = 1 .. m /\ DOMAIN page = 1 .. Len(page) /\ Len(page) \in Nat
      /\ DOMAIN all = 1 .. m + Len(page)
      /\ \A k \in 1 .. m : all[k] = before[k]
      /\ \A k \in DOMAIN all : k > m => k - m \in DOMAIN page /\ all[k] = page[k - m]
  OBVIOUS
<1> SUFFICES ASSUME NEW i \in DOMAIN all, NEW j \in DOMAIN all, i < j
             PROVE  Before(order, all[i], all[j])
  BY DEF Ordered
<1> HIDE DEF all, m
<1>2. CASE j <= m
  <2>1. i \in DOMAIN before /\ j \in DOMAIN before /\ all[i] = before[i] /\ all[j] = before[j]
    BY <1>1, <1>2
  <2> QED
    BY <2>1 DEF Ordered
<1>3. CASE i > m
  <2>1. /\ i - m \in DOMAIN page /\ j - m \in DOMAIN page /\ i - m < j - m
        /\ all[i] = page[i - m] /\ all[j] = page[j - m]
    BY <1>1, <1>3
  <2> QED
    BY <2>1 DEF Ordered
<1>4. CASE i <= m /\ j > m
  <2>1. /\ i \in 1 .. m /\ m \in 1 .. m /\ all[i] = before[i]
        /\ j - m \in DOMAIN page /\ all[j] = page[j - m]
    BY <1>1, <1>4
  <2>2. before # <<>> /\ Last(before) = before[m]
    BY <2>1 DEF m, Last
  <2>3. Before(order, before[m], page[j - m])
    BY <2>1, <2>2
  <2>4. i = m \/ Before(order, before[i], before[m])
    BY <1>1, <2>1 DEF Ordered
  <2>5. before[i] \in PageRow /\ before[m] \in PageRow /\ page[j - m] \in PageRow
    BY <1>1, <2>1
  <2>6. Before(order, before[i], page[j - m])
    BY <2>3, <2>4, <2>5, BeforeIsStrict
  <2> QED
    BY <2>1, <2>6
<1> QED
  BY <1>1, <1>2, <1>3, <1>4

\* The first rows of a page, as many as the limit lets through.
LEMMA FirstRows ==
    ASSUME NEW page \in Seq(PageRow), NEW order
    PROVE  LET first == SubSeq(page, 1, Min({Limit, Len(page)}))
           IN  /\ first \in Seq(PageRow) /\ Len(first) = Min({Limit, Len(page)})
               /\ Ordered(order, page) => Ordered(order, first)
               /\ \A k \in DOMAIN first : k \in DOMAIN page /\ first[k] = page[k]
               /\ \A k \in DOMAIN page : k \in DOMAIN first \/ (first # <<>> /\ Len(first) = Limit /\ k > Limit)
<1> DEFINE m == Len(page)
           n == Min({Limit, m})
           first == SubSeq(page, 1, n)
<1>1. Limit \in Nat \ {0} /\ m \in Nat /\ DOMAIN page = 1 .. m
  BY PagesAssumption
<1> HIDE DEF m
<1>2. n \in {Limit, m} /\ n <= Limit /\ n <= m
  BY <1>1, MinOfTwo
<1> HIDE DEF n
<1>3. n \in Nat /\ 1 .. n \subseteq 1 .. m
  BY <1>1, <1>2
<1>4. /\ first \in Seq(PageRow) /\ Len(first) = n
      /\ \A k \in 1 .. n : first[k] = page[k]
  <2>1. \A k \in 1 .. n : page[k] \in PageRow
    BY <1>1, <1>3
  <2>2. /\ SubSeq(page, 1, n) \in Seq(PageRow)
        /\ Len(SubSeq(page, 1, n)) = IF 1 <= n THEN n - 1 + 1 ELSE 0
        /\ \A k \in 1 .. n - 1 + 1 : SubSeq(page, 1, n)[k] = page[1 + k - 1]
    <3>1. 1 \in Int /\ n \in Int
      BY <1>3
    <3> QED
      BY <2>1, <3>1, SubSeqProperties
  <2>3. \A k \in 1 .. n : k \in 1 .. n - 1 + 1 /\ 1 + k - 1 = k
    BY <1>3
  <2> QED
    BY <1>3, <2>2, <2>3
<1>5. \A k \in 1 .. n : first[k] = page[k]
  BY <1>4
<1> HIDE DEF first
<1>6. DOMAIN first = 1 .. n
  BY <1>4
<1>7. ASSUME Ordered(order, page)
      PROVE  Ordered(order, first)
  <2>1. \A i, j \in 1 .. m : i < j => Before(order, page[i], page[j])
    BY <1>1, <1>7 DEF Ordered
  <2>2. \A i, j \in 1 .. n : i < j => Before(order, first[i], first[j])
    BY <1>3, <1>5, <2>1
  <2> QED
    BY <1>6, <2>2 DEF Ordered
<1>8. ASSUME NEW k \in 1 .. m, k \notin 1 .. n
      PROVE  first # <<>> /\ Len(first) = Limit /\ k > Limit
  <2>1. k > n /\ n # m
    BY <1>1, <1>2, <1>3, <1>8
  <2>2. n = Limit
    BY <1>2, <2>1
  <2> QED
    BY <1>1, <1>4, <2>1, <2>2
<1> QED
  BY <1>1, <1>3, <1>4, <1>5, <1>6, <1>7, <1>8 DEF m, n, first

\* The rows of the table, as the pager reads them.
LEMMA RowsOfTable ==
    ASSUME table \in TableType
    PROVE  /\ RowSet \in SUBSET PageRow /\ IsFiniteSet(RowSet)
           /\ \A id \in DOMAIN table : AsRow(id, table) \in RowSet /\ AsRow(id, table).id = id
           /\ \A r, s \in RowSet : r.id = s.id => r = s
           /\ \A r \in RowSet : r.id # NULL /\ (r.rank = NULL => "rank" \in model.pointers)
<1>1. table \in [DOMAIN table -> [rank : Ranks, del : Times]] /\ DOMAIN table \in SUBSET Ids
      /\ IsFiniteSet(DOMAIN table)
  BY TableIsFinite, RowIs
<1>2. Ranks \subseteq Value /\ Times \subseteq Value /\ (NULL \in Ranks => "rank" \in model.pointers)
  BY MutationsAssumption DEF Ranks, Times, Value
<1>3. ASSUME NEW id \in DOMAIN table
      PROVE  /\ AsRow(id, table) \in PageRow /\ AsRow(id, table).id = id /\ id # NULL
             /\ AsRow(id, table).rank = NULL => "rank" \in model.pointers
  <2>1. id \in Ids /\ table[id].rank \in Ranks /\ table[id].del \in Times
    BY <1>1
  <2> QED
    BY <1>2, <2>1, MutationsAssumption DEF AsRow, PageRow
<1>4. IsFiniteSet(RowSet)
  <2> DEFINE f == [id \in DOMAIN table |-> AsRow(id, table)]
  <2>1. f \in Surjection(DOMAIN table, RowSet)
    BY DEF Surjection, RowSet
  <2> HIDE DEF f
  <2> QED
    BY <1>1, <2>1, FS_Surjection
<1> QED
  BY <1>3, <1>4 DEF RowSet

\* What a group of predicates lets through depends on the row alone.
Passes(groups, row) == Matches(Text(groups), row)

LEMMA VisibleStays ==
    ASSUME NEW id, NEW withDeleted, UNCHANGED model, AsRow(id, table') = AsRow(id, table),
           Visible(AsRow(id, table), withDeleted), pager'.withDeleted = withDeleted
    PROVE  Visible(AsRow(id, table), pager.withDeleted)'
<1>1. Visible(AsRow(id, table), withDeleted) <=> Passes(Active(withDeleted), AsRow(id, table))
  BY DEF Visible, Passes, Text
<1>2. Visible(AsRow(id, table), pager.withDeleted)' <=> Passes(Active(pager.withDeleted)', AsRow(id, table'))
  BY DEF Visible, Passes, Text
<1>3. Active(pager.withDeleted)' = Active(withDeleted)
  BY DEF Active
<1> QED
  BY <1>1, <1>2, <1>3

---------------------------------------------------------------------------
(* The inductive invariant of the pager.                                    *)

Pager == [state : {"idle", "reading", "done", "refused"}, order : Seq(Terms),
          withDeleted : BOOLEAN, delivered : Seq(PageRow)]

Delivered(id) == \E k \in DOMAIN pager.delivered : pager.delivered[k].id = id

\* A row that has stayed what it was is still there, and the pages so far have
\* brought it or stopped before it.
Awaited(id) ==
    /\ id \in DOMAIN table /\ Visible(AsRow(id, table), pager.withDeleted)
    /\ \/ pager.delivered = <<>>
       \/ Delivered(id)
       \/ Before(pager.order, Last(pager.delivered), AsRow(id, table))

PagesInv ==
    /\ pager \in Pager
    /\ pager.state = "idle" => pager = Idle
    /\ pager.state = "reading" => pager.order \in Orders[model]
    /\ Keyed(pager.order) =>
        /\ Ordered(pager.order, pager.delivered)
        /\ pager.state = "reading" => \A id \in expected : Awaited(id)
        /\ pager.state = "done" => \A id \in expected : Delivered(id)

\* A sorted-by deletion time is a pointer, so that the cursor can name its NULLs.
DeletionTimesArePointers ==
    \A m \in Models : \A order \in Orders[m] : \A i \in DOMAIN order :
       order[i].field = "del" => "del" \in m.pointers

\* Nothing is delivered before paging begins.
LEMMA PagesInit == RowsInit => PagesInv
<1> SUFFICES ASSUME RowsInit
             PROVE  PagesInv
  OBVIOUS
<1>1. pager = Idle /\ Idle \in Pager /\ pager.order = <<>>
  BY DEF RowsInit, Idle, Pager
<1>2. pager.state = "idle" /\ ~ Keyed(pager.order)
  BY <1>1 DEF Idle, Keyed
<1> QED
  BY <1>1, <1>2 DEF PagesInv

\* A row that another call leaves alone is awaited as before.
LEMMA AwaitedKeeps ==
    ASSUME NEW id, id \notin Differs(table, table'), UNCHANGED <<model, pager>>, Awaited(id)
    PROVE  Awaited(id)'
<1>1. id \in DOMAIN table /\ id \in DOMAIN table' /\ table'[id] = table[id]
  BY DEF Awaited, Differs
<1>2. AsRow(id, table') = AsRow(id, table)
  BY <1>1 DEF AsRow
<1> DEFINE row == AsRow(id, table)
           deleted == pager.withDeleted
<1>3. Visible(row, deleted) /\ Awaited(id)
  BY DEF Awaited
<1>4. pager' = pager /\ model' = model
  OBVIOUS
<1>5. Visible(AsRow(id, table), pager.withDeleted)'
  BY <1>2, <1>3, <1>4, VisibleStays
<1>6. /\ Delivered(id)' <=> Delivered(id)
      /\ Before(pager.order, Last(pager.delivered), AsRow(id, table))'
           <=> Before(pager.order, Last(pager.delivered), AsRow(id, table))
  BY <1>2, <1>4 DEF Delivered
<1> QED
  BY <1>1, <1>3, <1>4, <1>5, <1>6 DEF Awaited

\* Nothing that a call does makes the pages so far lose their place.
LEMMA PagesKeep ==
    ASSUME PagesInv, UNCHANGED <<model, pager>>, expected' \subseteq expected,
           pager.state = "reading" => expected' \cap Differs(table, table') = {}
    PROVE  PagesInv'
<1>1. pager' = pager /\ model' = model
  OBVIOUS
<1>2. ASSUME Keyed(pager.order)
      PROVE  /\ Ordered(pager.order, pager.delivered)
             /\ pager.state = "reading" => \A id \in expected' : Awaited(id)'
             /\ pager.state = "done" => \A id \in expected' : Delivered(id)
  BY <1>2, AwaitedKeeps DEF PagesInv
<1>3. \A id : Delivered(id)' <=> Delivered(id)
  BY <1>1 DEF Delivered
<1> QED
  BY <1>1, <1>2, <1>3 DEF PagesInv

\* Paging begins with every visible row still to come.
LEMMA StartPagingStep ==
    ASSUME BatchInv, CountInv, PagesInv, StartPaging
    PROVE  PagesInv'
<1>1. PICK order \in Orders[model], withDeleted \in BOOLEAN :
        /\ pager' = [Idle EXCEPT !.state = "reading", !.order = order, !.withDeleted = withDeleted]
        /\ expected' = {row.id : row \in {r \in RowSet : Visible(r, withDeleted)}}
  BY DEF StartPaging
<1>2. model' = model /\ table' = table /\ model \in Models
  BY DEF StartPaging, vars, BatchInv, Shape
<1>3. order \in Seq(Terms)
  BY <1>2, PagesAssumption DEF Terms
<1>4. /\ pager' \in Pager /\ pager'.state = "reading" /\ pager'.order = order
      /\ pager'.withDeleted = withDeleted /\ pager'.delivered = <<>>
  <2>1. pager' = [state |-> "reading", order |-> order, withDeleted |-> withDeleted,
                  delivered |-> <<>>]
    BY <1>1 DEF Idle
  <2>2. <<>> \in Seq(PageRow)
    OBVIOUS
  <2> QED
    BY <1>3, <2>1, <2>2 DEF Pager
<1>5. ASSUME NEW id \in expected'
      PROVE  Awaited(id)'
  <2>1. PICK row \in RowSet : row.id = id /\ Visible(row, withDeleted)
    BY <1>1
  <2>2. id \in DOMAIN table /\ row = AsRow(id, table)
    BY <2>1 DEF RowSet, AsRow
  <2>3. Visible(AsRow(id, table), pager.withDeleted)'
    BY <1>2, <1>4, <2>1, <2>2, VisibleStays
  <2> QED
    BY <1>2, <1>4, <2>2, <2>3 DEF Awaited
<1>6. Ordered(pager'.order, pager'.delivered)
  BY <1>4 DEF Ordered
<1> QED
  BY <1>2, <1>4, <1>5, <1>6 DEF PagesInv

\* A cursor that is refused leaves the pages as they are.
LEMMA RefusePageStep ==
    ASSUME PagesInv, RefusePage
    PROVE  PagesInv'
<1>1. /\ pager \in Pager /\ pager' = [pager EXCEPT !.state = "refused"]
  BY DEF RefusePage, PagesInv
<1>2. /\ pager' \in Pager /\ pager'.state = "refused" /\ pager'.order = pager.order
      /\ pager'.delivered = pager.delivered
  BY <1>1 DEF Pager
<1>3. Keyed(pager.order) => Ordered(pager.order, pager.delivered)
  BY DEF PagesInv
<1> QED
  BY <1>2, <1>3 DEF PagesInv

\* The next page continues the pages before it, and what it does not reach is still
\* to come.
LEMMA ReadPageStep ==
    ASSUME DeletionTimesArePointers, BatchInv, CountInv, PagesInv, ReadPage
    PROVE  PagesInv'
<1> DEFINE order == pager.order
           before == pager.delivered
           rows == Candidates(Cursor)
<1>1. PICK page \in Sorted(rows) :
        LET first == SubSeq(page, 1, Min({Limit, Len(page)}))
        IN  pager' = [pager EXCEPT !.delivered = @ \o first,
                                   !.state = IF Len(first) < Limit THEN "done" ELSE @]
  BY DEF ReadPage, Pages
<1> DEFINE first == SubSeq(page, 1, Min({Limit, Len(page)}))
           all == before \o first
<1>2. /\ pager.state = "reading" /\ pager \in Pager /\ order \in Orders[model] /\ model \in Models
      /\ model' = model /\ table' = table /\ expected' = expected /\ table \in TableType
  BY DEF ReadPage, PagesInv, BatchInv, Shape, CountInv, vars
<1>3. order \in Seq(Terms) /\ before \in Seq(PageRow) /\ Limit \in Nat \ {0}
  BY <1>2, PagesAssumption DEF Pager
<1>4. /\ rows \in SUBSET PageRow /\ IsFiniteSet(rows) /\ rows \subseteq RowSet
      /\ \A r, s \in rows : r.id = s.id => r = s
  <2>1. rows \subseteq RowSet
    BY DEF Candidates
  <2> HIDE DEF rows
  <2> QED
    BY <1>2, <2>1, RowsOfTable, FS_Subset
<1>5. /\ page \in SetToSeqs(rows) /\ \A i, j \in DOMAIN page : i < j => ~ Before(order, page[j], page[i])
      /\ page \in Seq(PageRow)
  <2>1. page \in SetToSeqs(rows) /\ \A i, j \in DOMAIN page : i < j => ~ Before(order, page[j], page[i])
    BY DEF Sorted
  <2> HIDE DEF rows
  <2>2. page \in Seq(rows)
    BY <1>4, <2>1, SeqOfSet
  <2> QED
    BY <1>4, <2>1, <2>2
<1>6. first \in Seq(PageRow)
  BY <1>5, FirstRows
<1>7. /\ pager' \in Pager /\ pager'.order = order /\ pager'.withDeleted = pager.withDeleted
      /\ pager'.delivered = all /\ all \in Seq(PageRow)
      /\ pager'.state = IF Len(first) < Limit THEN "done" ELSE "reading"
  <2>1. all \in Seq(PageRow)
    <3> HIDE DEF first
    <3> QED
      BY <1>3, <1>6
  <2>2. pager' = [state |-> IF Len(first) < Limit THEN "done" ELSE "reading", order |-> order,
                  withDeleted |-> pager.withDeleted, delivered |-> all]
    BY <1>1, <1>2 DEF Pager
  <2> HIDE DEF first, all
  <2> QED
    BY <1>2, <2>1, <2>2 DEF Pager
<1> HIDE DEF rows, first, all
<1>8. ASSUME Keyed(order)
      PROVE  /\ Ordered(order, all)
             /\ Len(first) < Limit => \A id \in expected : Delivered(id)'
             /\ ~ (Len(first) < Limit) => \A id \in expected : Awaited(id)'
  <2>1. Ordered(order, before) /\ \A id \in expected : Awaited(id)
    BY <1>2, <1>8 DEF PagesInv
  <2>2. Ordered(order, page)
    BY <1>3, <1>4, <1>5, <1>8, PageIsOrdered
  <2>3. /\ first \in Seq(PageRow) /\ Ordered(order, first)
        /\ \A k \in DOMAIN first : k \in DOMAIN page /\ first[k] = page[k]
        /\ \A k \in DOMAIN page : k \in DOMAIN first \/ (first # <<>> /\ Len(first) = Limit /\ k > Limit)
    BY <1>5, <2>2, FirstRows DEF first
  <2>4. \A k \in DOMAIN page : page[k] \in rows
    BY <1>4, <1>5, SeqOfSet
  <2>5. ASSUME before # <<>>, NEW row \in RowSet
        PROVE  row \in rows <=> Visible(row, pager.withDeleted) /\ Before(order, Last(before), row)
    <3>1. Cursor = [i \in DOMAIN order |-> Decoded(order[i].field, Last(before)[order[i].field])]
      BY <2>5 DEF Cursor
    <3>2. Cursor # <<>>
      BY <1>8, <3>1 DEF Keyed
    <3>3. \A i \in DOMAIN order : Cursor[i] = Last(before)[order[i].field]
      BY <1>2, <3>1 DEF DeletionTimesArePointers, Decoded
    <3>4. \A i \in DOMAIN order :
             row[order[i].field] = NULL => CursorFieldCanBeNull(model, order[i].field)
      <4> SUFFICES ASSUME NEW i \in DOMAIN order, row[order[i].field] = NULL
                   PROVE  CursorFieldCanBeNull(model, order[i].field)
        OBVIOUS
      <4>1. order[i].field \in Fields
        <5>1. order[i] \in Terms
          BY <1>3
        <5> QED
          BY <5>1 DEF Terms
      <4>2. row.id # NULL /\ (row.rank = NULL => "rank" \in model.pointers)
        BY <1>2, RowsOfTable
      <4>3. order[i].field = "del" => "del" \in model.pointers
        BY <1>2 DEF DeletionTimesArePointers
      <4> QED
        BY <4>1, <4>2, <4>3 DEF Fields, CursorFieldCanBeNull
    <3>5. Last(before) \in PageRow /\ row \in PageRow
      <4>1. Len(before) \in DOMAIN before
        BY <1>3, <2>5
      <4> QED
        BY <1>2, <1>3, <4>1, RowsOfTable DEF Last
    <3>6. SeekCondition(model, order, Cursor, row) = "true" <=> Before(order, Last(before), row)
      BY <1>2, <1>3, <3>3, <3>4, <3>5, SeekIsBefore
    <3> QED
      BY <3>2, <3>6 DEF rows, Candidates
  <2>6. ASSUME before = <<>>, NEW row \in RowSet
        PROVE  row \in rows <=> Visible(row, pager.withDeleted)
    BY <2>6 DEF rows, Candidates, Cursor
  <2>7. Ordered(order, all)
    <3>1. before # <<>> => \A k \in DOMAIN first : Before(order, Last(before), first[k])
      BY <1>4, <2>3, <2>4, <2>5
    <3> QED
      BY <1>3, <2>1, <2>3, <3>1, PageContinues DEF all
  <2>8. ASSUME NEW id \in expected
        PROVE  \/ \E k \in DOMAIN all : all[k].id = id
               \/ /\ Len(first) = Limit /\ Visible(AsRow(id, table), pager.withDeleted)
                  /\ id \in DOMAIN table /\ Before(order, Last(all), AsRow(id, table))
    <3> DEFINE row == AsRow(id, table)
    <3>1. id \in DOMAIN table /\ row \in RowSet /\ row.id = id /\ Visible(row, pager.withDeleted)
      BY <1>2, <2>1, RowsOfTable DEF Awaited
    <3> HIDE DEF row
    <3>2. CASE Delivered(id)
      <4>1. PICK k \in DOMAIN before : before[k].id = id
        BY <3>2 DEF Delivered
      <4>2. k \in DOMAIN all /\ all[k] = before[k]
        BY <1>3, <1>6, <4>1 DEF all
      <4> QED
        BY <4>1, <4>2
    <3>3. CASE ~ Delivered(id)
      <4>1. row \in rows
        BY <2>1, <2>5, <2>6, <3>1, <3>3 DEF Awaited, row
      <4>2. PICK k \in DOMAIN page : page[k] = row
        BY <1>4, <1>5, <4>1, SeqOfSet
      <4>3. CASE k \in DOMAIN first
        <5>1. first[k].id = id
          BY <2>3, <3>1, <4>2, <4>3
        <5>2. Len(before) + k \in DOMAIN all /\ all[Len(before) + k] = first[k]
          BY <1>3, <1>6, <4>3 DEF all
        <5> QED
          BY <5>1, <5>2
      <4>4. CASE k \notin DOMAIN first
        <5>1. first # <<>> /\ Len(first) = Limit /\ k > Limit
          BY <2>3, <4>4
        <5>2. Limit \in DOMAIN first /\ Last(first) = first[Limit]
          BY <1>3, <1>6, <5>1 DEF Last
        <5>3. Last(all) = Last(first)
          BY <1>3, <1>6, <5>1 DEF all, Last
        <5>4. Limit \in DOMAIN page /\ first[Limit] = page[Limit]
          BY <2>3, <5>2
        <5>5. Before(order, page[Limit], page[k])
          BY <2>2, <5>1, <5>4 DEF Ordered
        <5>6. Before(order, Last(all), row)
          BY <4>2, <5>2, <5>3, <5>4, <5>5
        <5> QED
          BY <3>1, <5>1, <5>6 DEF row
      <4> QED
        BY <4>3, <4>4
    <3> QED
      BY <3>2, <3>3
  <2>9. ASSUME NEW id
        PROVE  Delivered(id)' <=> \E k \in DOMAIN all : all[k].id = id
    BY <1>7 DEF Delivered
  <2>10. ASSUME NEW id \in expected, Visible(AsRow(id, table), pager.withDeleted), id \in DOMAIN table,
                Before(order, Last(all), AsRow(id, table)) \/ Delivered(id)'
         PROVE  Awaited(id)'
    <3>1. Visible(AsRow(id, table), pager.withDeleted)'
      BY <1>2, <1>7, <2>10, VisibleStays
    <3>2. Before(pager.order, Last(pager.delivered), AsRow(id, table))' \/ Delivered(id)'
      BY <1>2, <1>7, <2>10
    <3> QED
      BY <1>2, <2>10, <3>1, <3>2 DEF Awaited
  <2>11. \A id \in expected : id \in DOMAIN table /\ Visible(AsRow(id, table), pager.withDeleted)
    BY <2>1 DEF Awaited
  <2> QED
    BY <1>3, <2>7, <2>8, <2>9, <2>10, <2>11
<1>9. \/ pager'.state = "done" /\ Len(first) < Limit
      \/ pager'.state = "reading" /\ ~ (Len(first) < Limit)
  BY <1>7
<1> QED
  BY <1>2, <1>7, <1>8, <1>9 DEF PagesInv

\* Each step of the caller and of the other calls keeps the invariant.
LEMMA PagesStep ==
    ASSUME DeletionTimesArePointers
    PROVE  BatchInv /\ CountInv /\ PagesInv /\ [RowsNext]_rowsVars => PagesInv'
<1> SUFFICES ASSUME BatchInv, CountInv, PagesInv, [RowsNext]_rowsVars
             PROVE  PagesInv'
  OBVIOUS
<1>1. ASSUME Mutate
      PROVE  PagesInv'
  <2>1. model' = model /\ pager' = pager
    BY <1>1 DEF Mutate, Next, Start, Succeeds, EffectUnreported, Fails, Send
  <2>2. expected' = IF pager.state = "reading" THEN expected \ Differs(table, table') ELSE expected
    BY <1>1 DEF Mutate
  <2> QED
    BY <2>1, <2>2, PagesKeep
<1>2. ASSUME UNCHANGED rowsVars
      PROVE  PagesInv'
  <2>1. model' = model /\ pager' = pager /\ expected' = expected /\ table' = table
    BY <1>2 DEF rowsVars, vars
  <2>2. Differs(table, table') = {}
    BY <2>1, SameTable
  <2> QED
    BY <2>1, <2>2, PagesKeep
<1> QED
  BY <1>1, <1>2, StartPagingStep, ReadPageStep, RefusePageStep DEF RowsNext

\* Pages in an order over the primary key continue one another, whatever other calls
\* change between them, and paging that ends has brought every row that was visible
\* when it began and stayed what it was: the SeekAfter condition is true of a row
\* just when the row comes after the last one of the page before.  The hypothesis is
\* what the code needs: the cursor of a deletion time held by value is the zero time
\* where the row has NULL.
THEOREM PagesContinue ==
    ASSUME DeletionTimesArePointers
    PROVE  RowsSpec => []PagesFollowTheOrder
<1>1. PagesInv => PagesFollowTheOrder
  <2> SUFFICES ASSUME PagesInv, Keyed(pager.order)
               PROVE  /\ Ordered(pager.order, pager.delivered)
                      /\ pager.state = "done" => expected \subseteq {row.id : row \in Range(pager.delivered)}
    BY DEF PagesFollowTheOrder, Keyed, Ordered
  <2>1. \A id : Delivered(id) => id \in {row.id : row \in Range(pager.delivered)}
    BY DEF Delivered, Range
  <2> QED
    BY <2>1 DEF PagesInv
<1>2. BatchInv /\ CountInv /\ PagesInv /\ [RowsNext]_rowsVars => PagesInv'
  BY PagesStep
<1> QED
  BY <1>1, <1>2, PagingOnlyReads, CountInvariant, PagesInit, PTL DEF RowsSpec
=============================================================================
