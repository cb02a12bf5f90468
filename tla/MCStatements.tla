---------------------------- MODULE MCStatements ----------------------------
(* Instances of Statements for TLC. *)
EXTENDS Statements, TLC

CONSTANTS w1, w2, c1, c2, s1, s2

OneScope  == [w \in Workers |-> s1]
TwoScopes == w1 :> s1 @@ w2 :> s2

With(o, c, ow, cw) == [observer |-> o, capture |-> c, observerWants |-> ow, captureWants |-> cw]
\* The capture and the observer ask for different diagnostics; one of them asks.
Mixed     == {With(TRUE, TRUE, {"warnings"}, {"ru"}), With(TRUE, TRUE, {}, {"warnings"}),
              With(FALSE, TRUE, {}, {"ru"})}
Observed  == {With(TRUE, TRUE, {}, {"ru"})}
Measured  == {With(FALSE, TRUE, {}, {"ru"})}

EachOne == [w \in Workers |-> 1]
EachTwo == [w \in Workers |-> 2]
LongAndShort == w1 :> 3 @@ w2 :> 1

Symmetric == Permutations(Conns)
=============================================================================
