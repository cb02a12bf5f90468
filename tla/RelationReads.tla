---------------------------- MODULE RelationReads ----------------------------
(***************************************************************************)
(* The relation operations of the typed API over one database: a SELECT with *)
(* preloads that runs beside relation mutations and other writes, or a       *)
(* SELECT or COUNT over relation predicates.  The latter is one statement and *)
(* reads one state of the tables, so nothing runs beside it.                 *)
(***************************************************************************)
EXTENDS Preload, RelationQueries

vars == <<writeVars, loadVars, queryVars>>

Init ==
    /\ WriteInit /\ PreloadInit /\ QueryInit
    /\ (req = NoRequest) # (query = NoQuery)
    /\ query # NoQuery => query.model \in DOMAIN db

Next ==
    \/ Load /\ UNCHANGED queryVars
    \/ query = NoQuery /\ Write /\ UNCHANGED <<loadVars, queryVars>>
    \/ Ask /\ UNCHANGED <<writeVars, loadVars>>

Spec == Init /\ [][Next]_vars
=============================================================================
