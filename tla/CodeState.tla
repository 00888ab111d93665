----------------------------- MODULE CodeState -----------------------------
(***************************************************************************)
(* What start_run() records of the code a run was started from             *)
(* (_capture.py, with build_patch and read_state of _git.py), and what     *)
(* `runsnap checkout` makes of that record (_cli.py).                      *)
(*                                                                         *)
(* One process at a time starts runs, nests them and resumes them, while   *)
(* its user edits files and commits.  Capture is a series of git commands  *)
(* and of requests to the tracking server, each a step of its own, any of  *)
(* which may fail, and the process may be killed between two of them.      *)
(*                                                                         *)
(* A working tree is a model value.  A patch is the pair of the tree it    *)
(* was made against and the one it makes of it; its digest is itself.      *)
(***************************************************************************)
EXTENDS Naturals, Sequences

CONSTANTS
  Runs,        \* run ids
  None,        \* no run, no patch, no tag
  Parent,      \* Parent[r]: the run r is nested in, or None
  Resumable,   \* runs that may be started again with their run_id
  Trees,       \* contents of the working tree, ignored files left out
  Huge,        \* trees whose diff from any other passes the size ceiling
  MaxCommits,  \* bound: commits made, the first one included
  Faulty       \* whether git commands and requests may fail

ASSUME RunsAssumption ==
  /\ None \notin Runs \union Trees \union (Trees \X Trees)
  /\ Parent \in [Runs -> Runs \union {None}]
  /\ Resumable \subseteq Runs /\ Huge \subseteq Trees
  /\ MaxCommits \in Nat \ {0} /\ Faulty \in BOOLEAN

VARIABLES
  commits,   \* the tree of each commit; HEAD is the last one
  tree,      \* the working tree
  stack,     \* MLflow's stack of active runs
  started,   \* runs that exist on the tracking server
  tags,      \* tags[r]: the runsnap.git.* tags of r
  artifact,  \* artifact[r]: code/state.patch of r, or None
  holders,   \* _patch_holders
  cur,       \* the run being captured, or None
  step,      \* what capture does next: "read", "diff" or "record"
  state,     \* the CodeState being recorded
  todo,      \* the requests still to be made for it
  again,     \* history: runs captured after they had been started before
  seen       \* history: the trees there were during the last capture of r,
             \* or none if something was reported or HEAD moved between the
             \* capture's two looks at it

repo    == <<commits, tree>>
mlflow  == <<started, tags, artifact>>
capture == <<cur, step, state, todo>>
past    == <<again, seen>>
vars    == <<repo, stack, mlflow, holders, capture, past>>

Patches == Trees \X Trees
NoTags  == [commit |-> 0, dirty |-> "unset", sha |-> None, holder |-> None]
NoState == [commit |-> 0, patch |-> None, dirty |-> "unset", holder |-> None]

TypeOK ==
  /\ commits \in Seq(Trees) /\ Len(commits) \in 1 .. MaxCommits
  /\ tree \in Trees
  /\ stack \in Seq(Runs) /\ started \subseteq Runs
  /\ tags \in [Runs -> [commit : 0 .. MaxCommits, dirty : {"unset", "true", "false"},
                        sha : Patches \union {None}, holder : Runs \union {None}]]
  /\ artifact \in [Runs -> Patches \union {None}]
  /\ holders \in [Runs -> (Runs \X Patches) \union {None}]
  /\ cur \in Runs \union {None} /\ step \in {"read", "diff", "record"}
  /\ state \in [commit : 0 .. MaxCommits, patch : Patches \union {None},
                dirty : {"unset", "true", "false"}, holder : Runs \union {None}]
  /\ todo \in Seq({"commit", "dirty", "sha", "holder", "artifact", "error", "rest"})
  /\ again \subseteq Runs
  /\ seen \in [Runs -> SUBSET Trees]

Init ==
  /\ \E t \in Trees : commits = <<t>> /\ tree = t
  /\ stack = <<>> /\ started = {}
  /\ tags = [r \in Runs |-> NoTags]
  /\ artifact = [r \in Runs |-> None] /\ holders = [r \in Runs |-> None]
  /\ cur = None /\ step = "read" /\ state = NoState /\ todo = <<>>
  /\ again = {} /\ seen = [r \in Runs |-> {}]
-----------------------------------------------------------------------------
(* The user.                                                               *)

Flawed == [r \in Runs |-> IF r = cur THEN {} ELSE seen[r]]

AtHead == commits[Len(commits)]

Edit(t) ==
  /\ tree # t /\ tree' = t
  /\ seen' = [r \in Runs |-> IF r = cur /\ seen[r] # {} THEN seen[r] \union {t} ELSE seen[r]]
  /\ UNCHANGED <<commits, stack, mlflow, holders, capture, again>>

Commit ==
  /\ tree # AtHead /\ Len(commits) < MaxCommits
  /\ commits' = Append(commits, tree)
  /\ seen' = IF step = "diff" THEN Flawed ELSE seen
  /\ UNCHANGED <<tree, stack, mlflow, holders, capture, again>>
-----------------------------------------------------------------------------
(* start_run() and the end of runs.                                        *)

(* MLflow nests a new run in the one on top of its stack; a resumed run    *)
(* keeps the parent it has.                                                *)
Top == IF stack = <<>> THEN None ELSE stack[Len(stack)]
Startable(r) ==
  /\ cur = None /\ \A i \in DOMAIN stack : stack[i] # r
  /\ IF r \in started THEN r \in Resumable ELSE Parent[r] = Top

StartRun(r) ==
  /\ Startable(r)
  /\ stack' = Append(stack, r) /\ started' = started \union {r}
  /\ cur' = r
  /\ again' = again \union ({r} \cap started)
  /\ seen' = [seen EXCEPT ![r] = {tree}]
  /\ UNCHANGED <<repo, tags, artifact, holders, step, state, todo>>

(* Capture is switched off, or the process is not in a repository.         *)
StartPlain(r) ==
  /\ Startable(r)
  /\ stack' = Append(stack, r) /\ started' = started \union {r}
  /\ UNCHANGED <<repo, tags, artifact, holders, capture, past>>

EndRun ==
  /\ cur = None /\ stack # <<>>
  /\ stack' = SubSeq(stack, 1, Len(stack) - 1)
  /\ UNCHANGED <<repo, mlflow, holders, capture, past>>

(* The process ends, or is killed.  What it remembered is gone.            *)
Exit ==
  /\ stack # <<>>
  /\ stack' = <<>> /\ holders' = [r \in Runs |-> None]
  /\ cur' = None /\ step' = "read" /\ state' = NoState /\ todo' = <<>>
  /\ seen' = Flawed
  /\ UNCHANGED <<repo, mlflow, again>>
-----------------------------------------------------------------------------
(* capture()                                                               *)

ReadState ==
  /\ cur # None /\ step = "read"
  /\ state' = [state EXCEPT !.commit = Len(commits)]
  /\ step' = "diff"
  /\ UNCHANGED <<repo, stack, mlflow, holders, cur, todo, past>>

(* build_patch: the diff against HEAD as it is now, abandoned (and the     *)
(* patch with it) when it passes the ceiling.                              *)
Changed  == tree # AtHead
TooLarge == Changed /\ tree \in Huge
Built == IF Changed /\ ~TooLarge THEN <<AtHead, tree>> ELSE None

DirtyMutant(patch) == IF patch # None \/ TooLarge THEN "True" ELSE "False"
Dirty(patch) == IF patch # None \/ TooLarge THEN "true" ELSE "false"

(* The run that holds the patch of the parent, if that is this one.        *)
InheritedMutant(patch) ==
  LET known == IF Parent[cur] = None THEN None ELSE holders[Parent[cur]]
  IN IF known = None THEN None ELSE known[1]
Inherited(patch) ==
  LET known == IF Parent[cur] = None THEN None ELSE holders[Parent[cur]]
  IN IF known # None /\ known[2] = patch THEN known[1] ELSE None

(* The requests of _record_state, _record_patch and capture in their       *)
(* order.  "error" is the tag that carries a failure, "rest" MLflow's own  *)
(* tags and the invocation, which nothing is reconstructed from.  Branch   *)
(* and URL are left out: when one of the two fails, what follows is left   *)
(* undone as when the request after them fails.                            *)
Requests(patch, holder) ==
  <<"commit", "dirty">>
    \o (IF patch = None THEN <<>>
        ELSE <<"sha", IF holder = None THEN "artifact" ELSE "holder">>)
    \o (IF TooLarge THEN <<"error">> ELSE <<>>)
    \o <<"rest">>

BuildPatch ==
  /\ cur # None /\ step = "diff"
  /\ LET holder == IF Built = None THEN None ELSE Inherited(Built)
     IN /\ state' = [state EXCEPT !.patch = Built, !.dirty = Dirty(Built), !.holder = holder]
        /\ todo' = Requests(Built, holder)
  /\ step' = "record"
  /\ seen' = IF TooLarge THEN Flawed ELSE seen
  /\ UNCHANGED <<repo, stack, mlflow, holders, cur, again>>

(* A git command fails: the reason is recorded.                            *)
GitFail ==
  /\ Faulty /\ cur # None /\ step \in {"read", "diff"}
  /\ step' = "record" /\ todo' = <<"error">>
  /\ seen' = Flawed
  /\ UNCHANGED <<repo, stack, mlflow, holders, cur, state, again>>

(* What the next request does to the run on the tracking server.           *)
Tagged ==
  LET what == todo[1]
      was  == tags[cur]
  IN [tags EXCEPT ![cur] =
        [commit |-> IF what = "commit" THEN state.commit ELSE was.commit,
         dirty  |-> IF what = "dirty" THEN state.dirty ELSE was.dirty,
         sha    |-> IF what = "sha" THEN state.patch ELSE was.sha,
         holder |-> IF what = "holder" THEN state.holder ELSE was.holder]]
Uploaded ==
  IF todo[1] = "artifact" THEN [artifact EXCEPT ![cur] = state.patch] ELSE artifact

(* _patch_holders is updated once the request has succeeded.               *)
Remembered ==
  CASE todo[1] = "artifact" -> [holders EXCEPT ![cur] = <<cur, state.patch>>]
    [] todo[1] = "holder"   -> [holders EXCEPT ![cur] = <<state.holder, state.patch>>]
    [] OTHER -> holders
RememberedFailedMutant == Remembered
RememberedFailed == holders

Record ==
  /\ cur # None /\ step = "record" /\ todo # <<>>
  /\ tags' = Tagged /\ artifact' = Uploaded /\ holders' = Remembered
  /\ todo' = Tail(todo)
  /\ UNCHANGED <<repo, stack, started, cur, step, state, past>>

(* A failed request may have been carried out all the same.  The failure   *)
(* is recorded, unless that is what failed.                                *)
RecordFail ==
  /\ Faulty /\ cur # None /\ step = "record" /\ todo # <<>>
  /\ \/ tags' = Tagged /\ artifact' = Uploaded
     \/ UNCHANGED <<tags, artifact>>
  /\ holders' = RememberedFailed
  /\ todo' = IF todo[1] = "error" THEN Tail(todo) ELSE <<"error">>
  /\ seen' = Flawed
  /\ UNCHANGED <<repo, stack, started, cur, step, state, again>>

(* start_run() returns.                                                    *)
Captured ==
  /\ cur # None /\ step = "record" /\ todo = <<>>
  /\ cur' = None /\ step' = "read" /\ state' = NoState
  /\ UNCHANGED <<repo, stack, mlflow, holders, todo, past>>
-----------------------------------------------------------------------------
Capture == ReadState \/ BuildPatch \/ GitFail \/ Record \/ RecordFail \/ Captured

Next ==
  \/ \E t \in Trees : Edit(t)
  \/ Commit
  \/ \E r \in Runs : StartRun(r) \/ StartPlain(r)
  \/ EndRun \/ Exit \/ Capture

Spec == Init /\ [][Next]_vars
-----------------------------------------------------------------------------
(* The commands that read the record.                                      *)

Holder(r) == IF tags[r].holder = None THEN r ELSE tags[r].holder
Downloaded(r) == artifact[Holder(r)]

(* The tree `checkout` leaves on the new branch, or None when it refuses:  *)
(* nothing recorded, no patch to be had, or one that does not apply.       *)
Restored(r) ==
  LET base == commits[tags[r].commit]
      patch == Downloaded(r)
  IN CASE tags[r].commit = 0 -> None
       [] tags[r].commit # 0 /\ tags[r].dirty # "true" -> base
       [] OTHER -> IF patch # None /\ patch[1] = base THEN patch[2] ELSE None

(* The shortcut of `diff`: what it calls "identical" is never compared.    *)
SameTags(a, b) == tags[a].commit = tags[b].commit /\ tags[a].sha = tags[b].sha
IdenticalMutant(a, b) == SameTags(a, b)
Identical(a, b) ==
  SameTags(a, b) /\ \A r \in {a, b} : tags[r].dirty = "false" \/ tags[r].sha # None

(* Whether r refers to a patch, and neither it nor the run that holds the  *)
(* patch was captured again.                                               *)
Refers(r) == tags[r].holder # None
Settled(r) == {r, Holder(r)} \cap again = {}

(* A run captured with nothing reported is reconstructed as the tree it    *)
(* was started from, or as one its user made of it during the capture,     *)
(* whatever failed, ended or was captured before and after it.  (Excepted: *)
(* HEAD moved between the capture's two looks at it, and the runs that     *)
(* ReferenceKept is about.)                                                *)
Reproducible ==
  \A r \in Runs \ {cur} :
    seen[r] # {} /\ (Refers(r) => Settled(r)) => Restored(r) \in seen[r]

(* "A nested run SHALL reference an ancestor's uploaded patch only when    *)
(* its own patch is byte-identical to the ancestor's": the patch behind a  *)
(* reference is there from the moment it is made, and is the one whose     *)
(* digest the run carries.                                                 *)
ReferenceHolds ==
  \A r \in Runs : Refers(r) /\ Settled(r) => artifact[Holder(r)] = tags[r].sha

(* Two runs whose code `diff` calls identical without looking make the     *)
(* same tree, also when a capture was cut short or abandoned at the        *)
(* ceiling: without a patch both are reconstructed, and with one as far as *)
(* it can be had.  (Excepted: runs captured again, which may carry the     *)
(* digest of an older patch.)                                              *)
IdenticalMeansSame ==
  \A a, b \in {r \in Runs : tags[r].commit # 0 /\ Settled(r)} :
    Identical(a, b) =>
      IF tags[a].sha = None THEN Restored(a) # None /\ Restored(a) = Restored(b)
      ELSE Restored(a) = Restored(b) \/ None \in {Downloaded(a), Downloaded(b)}

(* The same of runs that are resumed and of runs nested in them, once they *)
(* are captured.                                                           *)
ReferenceKept == \A r \in Runs \ {cur} : Refers(r) => artifact[Holder(r)] = tags[r].sha
=============================================================================
