-------------------------- MODULE MCMigrateRunner --------------------------
(* Instances of MigrateRunner for TLC. *)
EXTENDS MigrateRefinesLedger, TLC

CONSTANTS r1, r2, r3, a, b, c

Make(x) == [op |-> "create", obj |-> x, guarded |-> FALSE]
Drop(x) == [op |-> "drop", obj |-> x, guarded |-> FALSE]
Guarded(s) == [s EXCEPT !.guarded = TRUE]

AnyTime     == 0 .. 5

\* Two statements each way, the second guarded.
TwoStatements == [up |-> <<Make(a), Guarded(Make(b))>>, down |-> <<Guarded(Drop(b)), Drop(a)>>]
OneStatement  == [up |-> <<Make(c)>>, down |-> <<Drop(c)>>]
OneGuarded    == [up |-> <<Guarded(Make(a))>>, down |-> <<Guarded(Drop(a))>>]
\* What people wrote for a schema they adopt: its file can be reversed.
Adopted       == [up |-> <<Make(a)>>, down |-> <<Drop(a)>>]
OtherTwo      == [up |-> <<Make(b), Guarded(Make(c))>>, down |-> <<Guarded(Drop(c)), Drop(b)>>]

ThreeBodies == 1 :> {TwoStatements} @@ 2 :> {OneStatement}
TwoBodies   == 1 :> {OneGuarded} @@ 2 :> {OneStatement}
AdoptBodies == 1 :> {OtherTwo} @@ 2 :> {Adopted}

Both       == 1 :> TwoStatements @@ 2 :> OneStatement
Later      == 2 :> OneStatement
\* The reviewed file of a schema that exists, as Init writes it.
Reviewed   == 2 :> [up |-> <<Make(a)>>, down |-> <<>>]

Symmetric == Permutations(Runners)
=============================================================================
