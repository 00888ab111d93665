------------------------------- MODULE Params --------------------------------
(***************************************************************************)
(* log_params() and the TensorBoard session that claim_session() makes of  *)
(* what it has recorded (src/runsnap/_params.py, and the head of           *)
(* tensorboard() in _tensorboard.py), called by several threads of one     *)
(* process.  A batch of params is sent, or an artifact written, in one     *)
(* step; between two steps of a call any other thread may run.             *)
(***************************************************************************)
EXTENDS Naturals, FiniteSets

CONSTANTS
  Runs,           \* run ids
  Models,         \* the Pydantic models logged
  Batches,        \* model -> how many batches its params take
  Name,           \* model -> the name it is logged under
  Threads,        \* threads of the process
  None

VARIABLES
  active,         \* thread -> its active run
  call,           \* thread -> what it is doing
  params,         \* batches on the tracking server, as <<run, model, batch>>
  artifacts,      \* what the hparams artifacts there hold, as <<run, model>>
  sessions,       \* run -> the models in _sessions
  claimed,        \* _claimed
  taken,          \* history: sessions handed to a writer, as <<run, models>>
  logged          \* history: log_params() calls that returned

calls == <<call, params, artifacts, sessions, claimed, taken, logged>>
server == <<params, artifacts>>
history == <<taken, logged>>

Idle == [at |-> "idle", run |-> None, model |-> None, batch |-> 0]

TypeOK ==
  /\ call \in [Threads -> [at : {"idle", "send", "artifact", "remember", "check", "copy"},
                           run : Runs \cup {None}, model : Models \cup {None}, batch : Nat]]
  /\ \A t \in Threads :
       /\ call[t].at # "idle" => call[t].run # None
       /\ call[t].at \notin {"idle", "copy"} => call[t].model # None
       /\ call[t].at = "send" => call[t].batch \in 1..Batches[call[t].model]
  /\ params \subseteq {p \in Runs \X Models \X Nat : p[3] \in 1..Batches[p[2]]}
  /\ artifacts \subseteq Runs \X Models
  /\ \A a, b \in artifacts : a[1] = b[1] /\ Name[a[2]] = Name[b[2]] => a = b
  /\ sessions \in [Runs -> SUBSET Models] /\ claimed \subseteq Runs
  /\ taken \subseteq Runs \X SUBSET Models
  /\ logged \subseteq [run : Runs, model : Models, warned : BOOLEAN]

Init ==
  /\ call = [t \in Threads |-> Idle]
  /\ params = {} /\ artifacts = {}
  /\ sessions = [r \in Runs |-> {}] /\ claimed = {} /\ taken = {} /\ logged = {}

Run(t) == call[t].run
Model(t) == call[t].model
IsAt(t, step) == call[t].at = step
Goto(t, step) == call' = [call EXCEPT ![t].at = step]
Return(t) == call' = [call EXCEPT ![t] = Idle]
-----------------------------------------------------------------------------
(* _resolve_run_id: the run named, else the thread's active one.           *)
Resolved(t, named) == IF named # None THEN named ELSE active[t]

(* The first batch there is to send from `batch` on, or the artifact.      *)
SendingPastMutant(batch, model) ==
  IF batch <= Batches[model] + 1 THEN "send" ELSE "artifact"
Sending(batch, model) == IF batch <= Batches[model] THEN "send" ELSE "artifact"

LogParams(t, named, model) ==
  /\ IsAt(t, "idle") /\ Resolved(t, named) # None
  /\ call' = [call EXCEPT ![t] = [at |-> Sending(1, model), run |-> Resolved(t, named),
                                  model |-> model, batch |-> 1]]
  /\ UNCHANGED <<server, sessions, claimed, history>>

Sent(t) == params' = params \cup {<<Run(t), Model(t), call[t].batch>>}

(* hparams/<name>.json: what another model left under the name is gone.    *)
Overwritten(t) == {a \in artifacts : a[1] = Run(t) /\ Name[a[2]] = Name[Model(t)]}
Written(t) == artifacts' = (artifacts \ Overwritten(t)) \cup {<<Run(t), Model(t)>>}

Send(t) ==
  /\ IsAt(t, "send") /\ Sent(t)
  /\ call' = [call EXCEPT ![t].at = Sending(call[t].batch + 1, Model(t)), ![t].batch = @ + 1]
  /\ UNCHANGED <<artifacts, sessions, claimed, history>>

Write(t) ==
  /\ IsAt(t, "artifact") /\ Written(t) /\ Goto(t, "remember")
  /\ UNCHANGED <<params, sessions, claimed, history>>

(* The server refuses a request, or does not answer one it has carried     *)
(* out: the caller gets the exception.                                     *)
Fail(t) ==
  /\ \/ IsAt(t, "send") /\ (Sent(t) \/ UNCHANGED params) /\ UNCHANGED artifacts
     \/ IsAt(t, "artifact") /\ (Written(t) \/ UNCHANGED artifacts) /\ UNCHANGED params
  /\ Return(t) /\ UNCHANGED <<sessions, claimed, history>>

Remember(t) ==
  /\ IsAt(t, "remember") /\ Goto(t, "check")
  /\ sessions' = [sessions EXCEPT ![Run(t)] = @ \cup {Model(t)}]
  /\ UNCHANGED <<server, claimed, history>>

(* The last test: a run that a writer has claimed is warned about.         *)
Check(t) ==
  /\ IsAt(t, "check") /\ Return(t)
  /\ logged' = logged \cup {[run |-> Run(t), model |-> Model(t), warned |-> Run(t) \in claimed]}
  /\ UNCHANGED <<server, sessions, claimed, taken>>
-----------------------------------------------------------------------------
(* claim_session() for tensorboard(): the mark, then the copy.             *)
MarkedMutant(r) == IF sessions[r] = {} THEN claimed ELSE claimed \cup {r}
Marked(r) == claimed \cup {r}
Claim(t, named) ==
  /\ IsAt(t, "idle") /\ Resolved(t, named) # None
  /\ claimed' = Marked(Resolved(t, named))
  /\ call' = [call EXCEPT ![t] = [at |-> "copy", run |-> Resolved(t, named),
                                  model |-> None, batch |-> 0]]
  /\ UNCHANGED <<server, sessions, history>>

Copy(t) ==
  /\ IsAt(t, "copy") /\ Return(t)
  /\ taken' = taken \cup {<<Run(t), sessions[Run(t)]>>}
  /\ UNCHANGED <<server, sessions, claimed, logged>>

(* Ctrl-C in the middle of a call.                                         *)
Abandon(t) ==
  /\ ~IsAt(t, "idle") /\ Return(t)
  /\ UNCHANGED <<server, sessions, claimed, history>>
-----------------------------------------------------------------------------
Begin(t, named) ==
  \/ \E model \in Models : LogParams(t, named, model)
  \/ Claim(t, named)
Proceed(t) == Send(t) \/ Write(t) \/ Remember(t) \/ Check(t) \/ Copy(t)
-----------------------------------------------------------------------------
(* TensorBoard's hyperparameters are those of the run.  What a session     *)
(* shows is on the tracking server, every batch of it and the artifact,    *)
(* which another model logged to the run under its name may have taken.    *)
(* What a log_params() recorded that returned without a warning is in      *)
(* every session of its run, whichever thread claims at which moment.      *)
SessionHonest ==
  \A session \in taken :
    /\ \A m \in session[2] :
         /\ \E x \in Models : Name[x] = Name[m] /\ <<session[1], x>> \in artifacts
         /\ \A b \in 1..Batches[m] : <<session[1], m, b>> \in params
    /\ \A l \in logged : session[1] = l.run => l.warned \/ l.model \in session[2]
=============================================================================
