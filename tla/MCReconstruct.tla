--------------------------- MODULE MCReconstruct ---------------------------
(***************************************************************************)
(* Values of Reconstruct's constants for TLC: a run recorded from a dirty  *)
(* tree, one whose patch does not apply, and one from a clean tree.        *)
(***************************************************************************)
EXTENDS Reconstruct

CONSTANTS dirty, bad, clean

Checkout(r) == [kind |-> "checkout", runs |-> <<r>>, worktree |-> TRUE, force |-> FALSE,
                commit |-> FALSE, named |-> FALSE]
InRoot(r) == [Checkout(r) EXCEPT !.worktree = FALSE]
Compare(r, s) == [kind |-> "diff", runs |-> <<r, s>>]
Clean == [kind |-> "clean", remove |-> TRUE]

Typed ==
  {Checkout(dirty), Checkout(bad), [Checkout(dirty) EXCEPT !.commit = TRUE],
   [Checkout(dirty) EXCEPT !.named = TRUE],
   InRoot(dirty), InRoot(bad), [InRoot(dirty) EXCEPT !.force = TRUE],
   Compare(dirty, clean), Compare(dirty, bad), Clean}
InPlaceThenClean == {InRoot(clean), InRoot(dirty), Clean}
============================================================================
