---------------------------- MODULE MCCodeState ----------------------------
(***************************************************************************)
(* Values of CodeState's constants for TLC: a run and one nested in it.    *)
(* The trees whose diffs fit under the ceiling are interchangeable.        *)
(***************************************************************************)
EXTENDS CodeState, TLC

CONSTANTS outer, inner, x, y, z

Nested == [r \in Runs |-> IF r = inner THEN outer ELSE None]
SmallTrees == Permutations({x, y})
==============================================================================
