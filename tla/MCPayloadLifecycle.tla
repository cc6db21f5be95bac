------------------------- MODULE MCPayloadLifecycle -------------------------
(* TLC instances of PayloadLifecycle.                                       *)
EXTENDS PayloadLifecycle, TLC

CONSTANTS c1, c2, c3, s1, s2

\* Two goroutines of one node and one of another.
SharedStore == c1 :> s1 @@ c2 :> s1 @@ c3 :> s2

\* Two goroutines of one node.
OneStore == c1 :> s1 @@ c2 :> s1

Symmetry == Permutations({c1, c2})
=============================================================================
