---------------------------- MODULE SchemaChecks ----------------------------
(***************************************************************************)
(* check.SchemaType: the tables of a SQL snapshot against what a model and   *)
(* its relations ask of them.  SQL types are families, and a field's index   *)
(* path, its Go name and the location of a diagnostic are left out: a check  *)
(* answers the set of its codes.                                             *)
(***************************************************************************)
EXTENDS IndexChecks

CONSTANTS
    AppModels, Catalogs,  \* the models and the snapshots under test
    ColumnValues          \* what a column can hold; NullValue stands for NULL

Native == {"bool", "int", "float", "string", "bytes", "time"}

\* A field: its column and Go kind; null, it can hold or produce NULL (a
\* pointer, a byte slice or a soft-delete time); own, it is a Scanner or Valuer.
FieldType == [column : STRING, kind : Native \cup {"custom"}, null : BOOLEAN, own : BOOLEAN, auto : BOOLEAN]

\* A column: nullable, DEFAULT, generated from an expression, and what fills it.
ColumnType == [type : STRING, nullable : BOOLEAN, default : BOOLEAN, generated : BOOLEAN,
               auto : {"", "increment", "random"}]

\* A table: an index has whole columns; a primary key is unique in them.
TableType(t) ==
    /\ \A c \in DOMAIN t.columns : t.columns[c] \in ColumnType
    /\ \A i \in t.indexes : IsSequence(i.columns) /\ (i.name = "PRIMARY" => Unique(i))

\* A relation: a mapping repeats no field and no column.
RelationType(r) ==
    /\ IsSequence(r.fields) /\ \A i, j \in DOMAIN r.fields : r.fields[i].column = r.fields[j].column => i = j
    /\ r.edge = "" => r.deleted = <<>>
    /\ r.kind = "through" => /\ IsSequence(r.sourceColumns) /\ IsSequence(r.targetColumns)
                             /\ DOMAIN r.source = DOMAIN r.sourceColumns
                             /\ DOMAIN r.fields = DOMAIN r.targetColumns

ASSUME SchemaChecksAssumption ==
    /\ NullValue \in ColumnValues \ {1} /\ \A v \in ColumnValues : v \in Int /\ NullValue <= v
    /\ \A m \in AppModels : Range(m.fields) \subseteq FieldType /\ \A r \in m.relations : RelationType(r)
    /\ \A catalog \in Catalogs : \A name \in DOMAIN catalog : TableType(catalog[name])

\* What a check takes for granted: the columns of a junction's pair are stored
\* ones, and the application gives their values.
ASSUME PairsAreStored ==
    \A m \in AppModels, catalog \in Catalogs : \A r \in m.relations :
        r.kind = "through" /\ r.edge = "" /\ r.junction \in DOMAIN catalog =>
            \A c \in Range(r.sourceColumns \o r.targetColumns) \cap DOMAIN catalog[r.junction].columns :
                LET column == catalog[r.junction].columns[c]
                IN  ~column.generated /\ column.auto # "random"

---------------------------------------------------------------------------
(* Proofs the tables give: compatibleSQLType and package schemacompat.        *)

KnownTypes == {"integer", "tinyint", "year", "approximate", "exact", "text", "binary", "bit", "date", "clock"}

\* The type families of a Go kind; "clock" is TIME.
Families == [bool   |-> {"tinyint"},
             int    |-> {"integer", "tinyint", "year"},
             float  |-> {"integer", "tinyint", "approximate", "exact"},
             string |-> {"text"},
             bytes  |-> {"text", "binary", "bit"},
             time   |-> {"date"}]

OwnRepresentation(f) == f.kind = "custom" \/ f.own

Compatible(f, type) == OwnRepresentation(f) \/ type \notin KnownTypes \/ type \in Families[f.kind]

PrimaryKey(t) ==
    IF \E i \in t.indexes : i.name = "PRIMARY"
    THEN (CHOOSE i \in t.indexes : i.name = "PRIMARY").columns
    ELSE <<>>

\* Mutant: some column of the key is unique together with others.
UniqueKeyByOverlap(t, columns) ==
    \E i \in t.indexes : Unique(i) /\ Range(i.columns) \cap columns # {}

\* HasUniqueKey: a unique index over these columns or some of them.
UniqueKey(t, columns) ==
    \E i \in t.indexes : Unique(i) /\ i.columns # <<>> /\ Range(i.columns) \subseteq columns

\* HasIndexPrefix: these columns, in any order, lead an index.
IndexPrefix(t, columns) ==
    columns # <<>>
    /\ \E i \in t.indexes :
          /\ Usable(i) /\ Len(i.columns) >= Len(columns)
          /\ Range(columns) \subseteq Range(SubSeq(i.columns, 1, Len(columns)))

\* equalIdentifierSets: the same identifiers, none of them twice.
SameSet(left, right) ==
    Len(left) = Len(right) /\ IsInjective(left) /\ Range(left) \subseteq Range(right)

PairUnique(t, pair) == \E i \in t.indexes : Unique(i) /\ SameSet(i.columns, pair)

SourceIndexed(t, source) ==
    \E i \in t.indexes : /\ Usable(i) /\ Len(i.columns) >= Len(source)
                         /\ SameSet(SubSeq(i.columns, 1, Len(source)), source)

---------------------------------------------------------------------------
(* The checks of a model's own table.                                         *)

Codes(cases) == {c[1] : c \in {d \in cases : d[2]}}
ColumnsOf(fields) == [i \in DOMAIN fields |-> fields[i].column]

ColumnCodes(f, t) ==
    IF f.column \notin DOMAIN t.columns THEN {"CMP003"}
    ELSE LET c == t.columns[f.column]
         IN  Codes({<<"CMP004", ~Compatible(f, c.type)>>,
                    <<"CMP005", ~OwnRepresentation(f) /\ c.nullable /\ ~f.null>>,
                    <<"CMP006", ~OwnRepresentation(f) /\ ~c.nullable /\ f.null>>,
                    <<"CMP008", f.auto # (c.auto = "random")>>,
                    <<"CMP009", c.generated>>})

PrimaryKeyCodes(m, t) == Codes({<<"CMP007", m.key # <<>> /\ m.key # PrimaryKey(t)>>})

CandidateKeyCodes(uniques, t) == Codes({<<"CMP015", \E key \in uniques : ~UniqueKey(t, key)>>})

\* NOT NULL, and neither a default nor the database gives it a value.
NeedsValue(c) == ~c.nullable /\ ~c.default /\ ~c.generated /\ c.auto = ""
Unfilled(t, mapped) == {c \in DOMAIN t.columns \ mapped : NeedsValue(t.columns[c])}

RequiredCodes(m, t) == Codes({<<"CMP010", Unfilled(t, Range(ColumnsOf(m.fields))) # {}>>})

---------------------------------------------------------------------------
(* Relations: kind "one" is belongs_to or has_one; "many" is has_many; and     *)
(* "through" is many_to_many, pure when it has no edge model.                  *)

KeyCodes(fields, columns, t) ==
    UNION {IF columns[i] \notin DOMAIN t.columns THEN {"CMP003"}
           ELSE Codes({<<"CMP004", ~Compatible(fields[i], t.columns[columns[i]].type)>>})
              : i \in DOMAIN fields}

Present(columns, t) == Range(columns) \subseteq DOMAIN t.columns

TargetCodes(r, catalog) ==
    IF r.target \notin DOMAIN catalog THEN {"CMP002"}
    ELSE LET t == catalog[r.target]  columns == ColumnsOf(r.fields)
         IN  CandidateKeyCodes(r.uniques, t) \cup KeyCodes(r.fields, columns, t)
             \cup (IF ~Present(columns, t) THEN {}
                   ELSE IF r.kind = "many" THEN Codes({<<"CMP014", ~IndexPrefix(t, columns)>>})
                   ELSE Codes({<<"CMP011", ~UniqueKey(t, Range(columns))>>}))

Pair(r) == r.sourceColumns \o r.targetColumns

\* The pair, its index, and for a pure junction what else an INSERT must give;
\* of an edge model's table only the soft-delete column matters here.
PairCodes(r, t) ==
    Codes({<<"CMP012", r.edge = "" /\ ~PairUnique(t, Pair(r))>>,
           <<"CMP014", ~SourceIndexed(t, r.sourceColumns)>>,
           <<"CMP013", r.edge = "" /\ Unfilled(t, Range(Pair(r))) # {}>>})
    \cup (IF r.edge = "" THEN {} ELSE KeyCodes(r.deleted, ColumnsOf(r.deleted), t))

JunctionCodes(r, catalog) ==
    IF r.kind # "through" THEN {}
    ELSE IF r.junction \notin DOMAIN catalog THEN {"CMP002"}
    ELSE LET t == catalog[r.junction]
         IN  KeyCodes(r.source, r.sourceColumns, t) \cup KeyCodes(r.fields, r.targetColumns, t)
             \cup (IF Present(Pair(r), t) THEN PairCodes(r, t) ELSE {})

\* SchemaType of one model.
ModelCodes(m, catalog) ==
    IF m.table \notin DOMAIN catalog THEN {"CMP002"}
    ELSE LET t == catalog[m.table]
         IN  (UNION {ColumnCodes(m.fields[i], t) : i \in DOMAIN m.fields})
             \cup PrimaryKeyCodes(m, t) \cup CandidateKeyCodes(m.uniques, t) \cup RequiredCodes(m, t)
             \cup UNION {TargetCodes(r, catalog) \cup JunctionCodes(r, catalog) : r \in m.relations}

CheckModel(m, catalog) ==
    audit' = [kind |-> "model", of |-> m, catalog |-> catalog, codes |-> ModelCodes(m, catalog)]

---------------------------------------------------------------------------
(* What the answers are compared with: statements TiDB executes, and the rows  *)
(* its constraints allow.                                                      *)

\* An INSERT that names the columns of a row; 1 stands for any value.
Executes(t, row) ==
    /\ DOMAIN row \subseteq DOMAIN t.columns
    /\ Unfilled(t, DOMAIN row) = {}
    /\ \A c \in DOMAIN row : /\ ~t.columns[c].generated /\ t.columns[c].auto # "random"
                             /\ row[c] = NullValue => t.columns[c].nullable

\* The INSERT of the model leaves the key TiDB generates to it.
Written(m) == {i \in DOMAIN m.fields : ~m.fields[i].auto}
InsertsSucceed(m, t) ==
    \A null \in SUBSET {i \in Written(m) : m.fields[i].null /\ ~OwnRepresentation(m.fields[i])} :
        Executes(t, [c \in {m.fields[i].column : i \in Written(m)} |->
                        IF \E i \in null : m.fields[i].column = c THEN NullValue ELSE 1])

\* The values database/sql can put in a field of a kind.
Convertible(kind, type) ==
    CASE kind \in {"bytes", "string"} -> TRUE
      [] kind = "bool"  -> type \in {"tinyint", "bit"}
      [] kind = "int"   -> type \in {"integer", "tinyint", "year"}
      [] kind = "float" -> type \in {"integer", "tinyint", "year", "approximate", "exact"}
      [] kind = "time"  -> type = "date"

RowsDecode(m, t) ==
    \A i \in DOMAIN m.fields :
        LET f == m.fields[i]
        IN  /\ f.column \in DOMAIN t.columns
            /\ ~OwnRepresentation(f) /\ t.columns[f.column].type \in KnownTypes =>
                  /\ Convertible(f.kind, t.columns[f.column].type)
                  /\ t.columns[f.column].nullable => f.null

StoredRows(t) == {r \in [DOMAIN t.columns -> ColumnValues] :
                     \A c \in DOMAIN t.columns : r[c] = NullValue => t.columns[c].nullable}

\* No two rows agree on the columns, unless one of them is NULL.
NameOneRow(t, columns) ==
    \A r, s \in StoredRows(t) :
        r # s /\ Allowed({r, s}, t) /\ (\A c \in columns : r[c] # NullValue) =>
            \E c \in columns : r[c] # s[c]

\* The rows of one key are one range of an index, whatever else is stored.
KeyIsOneRange(t, columns) ==
    \E i \in t.indexes :
        /\ Usable(i)
        /\ \A r, s, u \in StoredRows(t) :
              (\A c \in columns : r[c] = s[c]) /\ (\E c \in columns : r[c] # u[c]) =>
                  ~(Before(r, u, i.columns) /\ Before(u, s, i.columns))

RelationWorks(r, catalog) ==
    LET t == catalog[r.target]  key == Range(ColumnsOf(r.fields))
    IN  /\ \A unique \in r.uniques : NameOneRow(t, unique)
        /\ r.kind = "many" => KeyIsOneRange(t, key)
        /\ r.kind # "many" => NameOneRow(t, key)
        /\ r.kind = "through" =>
              LET j == catalog[r.junction]
              IN  /\ KeyIsOneRange(j, Range(r.sourceColumns))
                  /\ r.edge = "" => /\ NameOneRow(j, Range(Pair(r)))
                                    /\ Executes(j, [c \in Range(Pair(r)) |-> 1])
                  /\ Present(ColumnsOf(r.deleted), j)

\* A model and a snapshot without findings work together: every value of the
\* model can be inserted, every row a table can hold can be read into it, its
\* key and its candidate keys name one row, a relation to one model finds at most
\* one, a relation to many reads one range of an index, and relation mutations
\* can insert their pairs, each of them once.
AcceptedModelsWork ==
    audit.kind = "model" /\ audit.codes = {} =>
        LET m == audit.of  t == audit.catalog[m.table]
        IN  /\ InsertsSucceed(m, t) /\ RowsDecode(m, t)
            /\ m.key # <<>> => NameOneRow(t, Range(m.key))
            /\ \A unique \in m.uniques : NameOneRow(t, unique)
            /\ \A r \in m.relations : RelationWorks(r, audit.catalog)

\* What the offline checks accept, TiDB serves.
AcceptedIsServed == AcceptedIndexesServe /\ AcceptedModelsWork
=============================================================================
