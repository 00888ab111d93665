----------------------------- MODULE MCTraining ------------------------------
(* A training script of two runs, which may nest, and a worker thread.     *)
EXTENDS Training

MCBatches == [x \in Models |-> 1]
MCName == [x \in Models |-> "hparams"]
Alike == Permutations(Runs) \cup Permutations(Models)

(* Runs are resumed and chained as long as nothing is logged to them; with *)
(* calls, each is started once, the store takes every tag, and one of them *)
(* at most ends otherwise than by its block.                               *)
Bounds ==
  \/ callsLeft = [t \in Threads |-> MaxCalls]
  \/ /\ \A r \in Runs : starts[r] <= 1 /\ continues[r] = None
     /\ refused = {} /\ Cardinality(astray) <= 1
=============================================================================
