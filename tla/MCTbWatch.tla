------------------------------ MODULE MCTbWatch ------------------------------
(***************************************************************************)
(* Values of TbWatch's constants for TLC.                                  *)
(***************************************************************************)
EXTENDS TbWatch

CONSTANTS a, b

(* Without --chain a run brings only itself.                               *)
Alone == [r \in Runs |-> {r}]

Named          == [follow |-> FALSE, copies |-> FALSE]
Followed       == [follow |-> TRUE,  copies |-> FALSE]
NamedCopies    == [follow |-> FALSE, copies |-> TRUE]
FollowedCopies == [follow |-> TRUE,  copies |-> TRUE]

AllModes   == {Named, Followed, NamedCopies, FollowedCopies}
OnlyFollow == {Followed}
==============================================================================
