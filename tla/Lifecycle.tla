------------------------------ MODULE Lifecycle ------------------------------
(***************************************************************************)
(* `with runsnap.start_run():` blocks of one thread, MLflow's stack of     *)
(* active runs they stand on, and the chain of attempts a run continues    *)
(* (src/runsnap/_lifecycle.py, __init__.py).                               *)
(*                                                                         *)
(* Blocks nest; the stack need not follow them, since MLflow's own         *)
(* start_run() and end_run() move it as well, and since leaving a block    *)
(* ends the run on top of the stack.  An exception propagates block by     *)
(* block until it is caught, and another Ctrl-C may come at any time.      *)
(***************************************************************************)
EXTENDS Naturals, FiniteSets, Sequences, SequencesExt

CONSTANTS
  Runs,           \* run ids of the process
  Named,          \* the ids passed as `continues`
  MaxStarts,      \* bound: how often a run is started, resuming included
  None

VARIABLES
  stack,          \* MLflow's active runs, the one it would end next last
  blocks,         \* the runs whose `with` block is open, the innermost last
  status,         \* run -> MLflow's status, "none" before it exists
  cause,          \* run -> the tag TAG_FAILURE_CAUSE
  continues,      \* run -> the tag TAG_CONTINUES
  raised,         \* the exception propagating
  exiting,        \* where the __exit__ of the innermost block is
  left,           \* history: run -> how its last block was left
  astray,         \* history: runs whose end the block's __exit__ did not decide
  refused,        \* history: runs whose cause the store refused
  starts          \* history: run -> how often it was started

vars == <<stack, blocks, status, cause, continues, raised, exiting, left, astray,
          refused, starts>>
causes == <<cause, refused>>

Exceptions == {"error", "interrupt"}

ASSUME LifecycleAssumption ==
  IsFiniteSet(Runs) /\ None \notin Runs \cup Exceptions /\ MaxStarts \in Nat

TypeOK ==
  /\ stack \in Seq(Runs) /\ blocks \in Seq(Runs) /\ IsInjective(stack) /\ IsInjective(blocks)
  /\ status \in [Runs -> {"none", "RUNNING", "FINISHED", "FAILED", "KILLED"}]
  /\ cause \in [Runs -> Exceptions \cup {None}]
  /\ continues \in [Runs -> Named \cup {None}]
  /\ raised \in Exceptions \cup {None}
  /\ exiting \in {"no", "cause", "end"}
  /\ left \in [Runs -> Exceptions \cup {"open", "normal", "cut"}]
  /\ astray \subseteq Runs /\ refused \subseteq Runs
  /\ starts \in [Runs -> 0..MaxStarts]

Init ==
  /\ stack = <<>> /\ blocks = <<>>
  /\ status = [r \in Runs |-> "none"] /\ cause = [r \in Runs |-> None]
  /\ continues = [r \in Runs |-> None]
  /\ raised = None /\ exiting = "no"
  /\ left = [r \in Runs |-> "open"] /\ astray = {} /\ refused = {}
  /\ starts = [r \in Runs |-> 0]

Running == raised = None /\ exiting = "no"
Active == IF stack = <<>> THEN None ELSE Last(stack)
Inner == Last(blocks)
-----------------------------------------------------------------------------
(* start_run: MLflow starts the run, or continues it when it has ended,    *)
(* then the attempt is recorded, which the store may refuse.  (capture is  *)
(* CodeState's.)  Its block is not entered when MLflow's own start_run is  *)
(* used or when Ctrl-C comes before start_run returns.  The attempt named  *)
(* is one that there is, or one the server no longer has.                  *)
Start(r, attempt, entered) ==
  /\ Running /\ starts[r] < MaxStarts
  /\ attempt \in Runs => status[attempt] # "none"
  /\ status[r] # "RUNNING" /\ ~Contains(blocks, r)
  /\ stack' = Append(stack, r)
  /\ status' = [status EXCEPT ![r] = "RUNNING"]
  /\ \E tag \in IF attempt = None THEN {continues[r]} ELSE {attempt, continues[r]} :
       continues' = [continues EXCEPT ![r] = tag]
  /\ blocks' = IF entered THEN Append(blocks, r) ELSE blocks
  /\ raised' \in IF entered THEN {None} ELSE {None, "interrupt"}
  /\ left' = [left EXCEPT ![r] = "open"]
  /\ astray' = IF entered THEN astray \ {r} ELSE astray \cup {r}
  /\ starts' = [starts EXCEPT ![r] = @ + 1]
  /\ UNCHANGED <<causes, exiting>>

(* mlflow.end_run() in the body of a block.                                *)
Terminated(as) == [status EXCEPT ![Active] = as]
EndByHand ==
  /\ Running /\ stack # <<>>
  /\ stack' = Front(stack) /\ status' = Terminated("FINISHED")
  /\ astray' = astray \cup {Active}
  /\ UNCHANGED <<blocks, causes, continues, raised, exiting, left, starts>>

Raise(exception) ==
  /\ Running /\ blocks # <<>> /\ raised' = exception
  /\ UNCHANGED <<stack, blocks, status, causes, continues, exiting, left, astray, starts>>
Catch ==
  /\ raised # None /\ exiting = "no" /\ raised' = None
  /\ UNCHANGED <<stack, blocks, status, causes, continues, exiting, left, astray, starts>>
-----------------------------------------------------------------------------
(* LifecycleRun.__exit__.                                                  *)
BeginExit ==
  /\ blocks # <<>> /\ exiting = "no"
  /\ exiting' = IF raised = None THEN "end" ELSE "cause"
  /\ UNCHANGED <<stack, blocks, status, causes, continues, raised, left, astray, starts>>

(* record_cause: what the store refuses is warned about.                   *)
CauseMutant == "error"
Cause == raised
RecordCause ==
  /\ exiting = "cause" /\ exiting' = "end"
  /\ \/ cause' = [cause EXCEPT ![Inner] = Cause] /\ UNCHANGED refused
     \/ UNCHANGED cause /\ refused' = refused \cup {Inner}
  /\ UNCHANGED <<stack, blocks, status, continues, raised, left, astray, starts>>

Leave(how) ==
  /\ blocks' = Front(blocks) /\ exiting' = "no"
  /\ left' = [left EXCEPT ![Inner] = how]

(* An interrupted run that is on top of the stack ends as KILLED.  Else    *)
(* MLflow's own __exit__ decides: if the run is on the stack at all, the   *)
(* one on top is ended.                                                    *)
KilledMutant == raised = "interrupt" /\ stack # <<>>
Killed == raised = "interrupt" /\ Active = Inner
EndsMutant == Killed
Ends == Killed \/ Contains(stack, Inner)
As == IF Killed THEN "KILLED" ELSE IF raised = None THEN "FINISHED" ELSE "FAILED"
Misled == IF Contains(stack, Inner) /\ Active # Inner THEN {Inner, Active} ELSE {}

Exit ==
  /\ exiting = "end"
  /\ IF Ends THEN stack' = Front(stack) /\ status' = Terminated(As)
     ELSE UNCHANGED <<stack, status>>
  /\ Leave(IF raised = None THEN "normal" ELSE raised)
  /\ astray' = astray \cup Misled
  /\ UNCHANGED <<causes, continues, raised, starts>>

(* MLflow cannot end the run, which is off the stack by then.              *)
ExitFails ==
  /\ exiting = "end" /\ Ends
  /\ stack' = Front(stack) /\ UNCHANGED status
  /\ Leave("cut")
  /\ raised' = "error"
  /\ astray' = astray \cup Misled \cup {Active}
  /\ UNCHANGED <<causes, continues, starts>>

(* Another Ctrl-C, which nothing in __exit__ catches; inside end_run it    *)
(* finds the run off the stack, and its status sent or not.                *)
ExitInterrupted ==
  /\ exiting # "no" /\ Leave("cut")
  /\ raised' = "interrupt"
  /\ \/ UNCHANGED <<stack, status>> /\ astray' = astray \cup {Inner}
     \/ /\ exiting = "end" /\ Ends
        /\ stack' = Front(stack) /\ status' \in {status, Terminated(As)}
        /\ astray' = astray \cup {Inner, Active}
  /\ UNCHANGED <<causes, continues, starts>>
-----------------------------------------------------------------------------
(* attempt_runs: at most one request for every run there is, and one that  *)
(* finds the chain at its end, going round, or leading nowhere; here all   *)
(* of them find the runs in one state.                                     *)
RevisitsMutant(r, seen) == seen # <<>> /\ r = seen[1]
Revisits(r, seen) == Contains(seen, r)
GetRun(w) ==
  IF w.next = None THEN [w EXCEPT !.end = "first"]
  ELSE IF w.next \in Runs /\ Revisits(w.next, w.seen) THEN [w EXCEPT !.end = "revisits"]
  ELSE IF w.next \in Runs /\ status[w.next] # "none"
       THEN [w EXCEPT !.seen = Append(@, w.next), !.next = continues[w.next]]
  ELSE [w EXCEPT !.end = "missing"]
Walk(r) ==
  LET walk[n \in 0..Cardinality(Runs) + 1] ==
        IF n = 0 THEN [seen |-> <<>>, next |-> r, end |-> "none"]
        ELSE LET w == walk[n - 1] IN IF w.end = "none" THEN GetRun(w) ELSE w
  IN walk
AttemptRuns(r) == Walk(r)[Cardinality(Runs) + 1]
-----------------------------------------------------------------------------
Next ==
  \/ \E r \in Runs, a \in Named \cup {None}, entered \in BOOLEAN : Start(r, a, entered)
  \/ EndByHand \/ \E x \in Exceptions : Raise(x)
  \/ Catch
  \/ BeginExit \/ RecordCause \/ Exit \/ ExitFails \/ ExitInterrupted

Spec == Init /\ [][Next]_vars
-----------------------------------------------------------------------------
(* A run is ended by its own block and as its own block was left: "KILLED" *)
(* by Ctrl-C, "FAILED" by another exception, whatever blocks around and    *)
(* inside it do, whichever exceptions are caught in between, and whatever  *)
(* the user does to other runs.  (Not so the runs that were ended by hand, *)
(* whose exit was cut short, or whose block found another run on top.)     *)
EndedAsLeft ==
  \A r \in Runs \ astray :
    <<left[r], status[r]>> \in
      {<<"open", "none">>, <<"open", "RUNNING">>, <<"normal", "FINISHED">>,
       <<"error", "FAILED">>, <<"interrupt", "KILLED">>}

(* The cause recorded is that of the exception that left the run's block,  *)
(* and a run that was never left by one carries none.                      *)
CauseTold ==
  \A r \in Runs :
    /\ left[r] \in Exceptions => cause[r] = left[r] \/ r \in refused
    /\ left[r] = "normal" /\ starts[r] = 1 => cause[r] = None

(* The chain of attempts is walked to its end: from the run along the tags *)
(* to the attempt that continues none, each once; or to the first attempt  *)
(* that was met before, or that the server does not have.                  *)
Walked ==
  \A r \in Runs : status[r] # "none" =>
    LET walk == AttemptRuns(r)
        last == continues[Last(walk.seen)]
    IN /\ walk.seen # <<>> /\ walk.seen[1] = r /\ IsInjective(walk.seen)
       /\ \A i \in 1..Len(walk.seen) - 1 : continues[walk.seen[i]] = walk.seen[i + 1]
       /\ \/ walk.end = "first" /\ last = None
          \/ walk.end = "revisits" /\ Contains(walk.seen, last)
          \/ walk.end = "missing" /\ last # None /\ (last \in Runs => status[last] = "none")
=============================================================================
