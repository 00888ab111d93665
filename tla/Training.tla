------------------------------ MODULE Training -------------------------------
(***************************************************************************)
(* A training script: the thread `Main` opens and leaves runs (Lifecycle), *)
(* and in their bodies it logs hyperparameters and opens TensorBoard       *)
(* writers (Params), to the run that is active unless it names another.    *)
(* MLflow's stack belongs to the thread, so the other threads always name  *)
(* the run.  What a call raises propagates through the blocks.             *)
(***************************************************************************)
EXTENDS Lifecycle

CONSTANTS Models, Batches, Name, Threads, Main, MaxCalls

ASSUME TrainingAssumption ==
  Main \in Threads /\ Batches \in [Models -> Nat] /\ None \notin Models /\ MaxCalls \in Nat

VARIABLES call, params, artifacts, sessions, claimed, taken, logged,
          callsLeft,  \* bounds the calls each thread makes
          body        \* history: each block Main logged in, with the run it logged to

ActiveOf == [t \in Threads |-> IF t = Main THEN Active ELSE None]
P == INSTANCE Params WITH active <- ActiveOf

calls == <<call, params, artifacts, sessions, claimed, taken, logged>>
training == <<calls, callsLeft, body>>
allVars == <<vars, training>>

TTypeOK ==
  /\ TypeOK /\ P!TypeOK
  /\ callsLeft \in [Threads -> 0..MaxCalls]
  /\ body \subseteq Runs \X Runs

TInit ==
  /\ Init /\ P!Init
  /\ callsLeft = [t \in Threads |-> MaxCalls] /\ body = {}

(* Main's blocks wait while it is in a call.                               *)
Block ==
  /\ call[Main].at = "idle" /\ Next
  /\ UNCHANGED training

Begin(t, named) ==
  /\ callsLeft[t] > 0 /\ callsLeft' = [callsLeft EXCEPT ![t] = @ - 1]
  /\ P!Begin(t, named)
  /\ named # None => status[named] # "none"
  /\ t = Main => Running
  /\ body' = IF t = Main /\ named = None /\ blocks # <<>> /\ {Inner, Active} \cap astray = {}
               THEN body \cup {<<Inner, Active>>} ELSE body
  /\ UNCHANGED vars

Step(t) ==
  /\ \/ P!Proceed(t) /\ UNCHANGED raised
     \/ P!Fail(t) /\ raised' = IF t = Main THEN "error" ELSE raised
     \/ t = Main /\ P!Abandon(t) /\ raised' = "interrupt"
  /\ UNCHANGED <<stack, blocks, status, causes, continues, exiting, left, astray, starts,
                 callsLeft, body>>

TNext ==
  \/ Block
  \/ \E t \in Threads, named \in Runs \cup {None} : Begin(t, named)
  \/ \E t \in Threads : Step(t)

TSpec == TInit /\ [][TNext]_allVars
-----------------------------------------------------------------------------
(* TensorBoard's hyperparameters are those of the run, see Params.         *)
SessionHonest == P!SessionHonest

(* What the body of a block logs without naming a run lands on the run of  *)
(* that block, also after inner blocks were left in whatever way.  (`body` *)
(* has no run ended by hand or whose end was cut short.)                   *)
LandsInBlock == \A b \in body : b[1] = b[2]
=============================================================================
