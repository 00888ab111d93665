----------------------------- MODULE Reconstruct -----------------------------
(***************************************************************************)
(* The commands that reconstruct recorded code in a repository             *)
(* (src/runsnap/_cli.py: checkout, diff, clean; src/runsnap/_git.py).      *)
(* Several may be under way at once and any may be killed.  Each git       *)
(* command that changes the repository is a step; what is between the      *)
(* steps of one command is free for the others and for the user.           *)
(*                                                                         *)
(* A commit is the set of changes it holds over the recorded base, and so  *)
(* is the uncommitted work of a working tree.  A change is the patch       *)
(* recorded with a run, or the user's: "edit" is one to tracked files,     *)
(* "file" an untracked file.                                               *)
(***************************************************************************)
EXTENDS Naturals, FiniteSets, Sequences

CONSTANTS
  Runs,           \* recorded runs
  Patched,        \* those recorded from a dirty working tree
  Broken,         \* those whose patch does not apply to the recorded commit
  Cmds,           \* the commands typed, each at most once
  Requests,       \* what may be typed
  Overlap,        \* whether a command may be typed before the last one ended
  Faulty,         \* whether git may fail to create or remove a worktree
  Main, Detached, \* where the user's working tree stands at first
  None

Changes == Runs \cup {"edit", "file"}
Recorded(r) == {r} \cap Patched
Branch == [commit : SUBSET Changes, by : Cmds]
Tree == [here : BOOLEAN, wip : SUBSET Changes]

Request ==
  [kind : {"checkout"}, runs : Seq(Runs), worktree : BOOLEAN, force : BOOLEAN,
   commit : BOOLEAN, named : BOOLEAN]
    \cup [kind : {"diff"}, runs : Seq(Runs)]
    \cup [kind : {"clean"}, remove : BOOLEAN]

(* A branch is that of a run (branch_name), one the user named (--branch), *)
(* or a temporary one of a diff and one of its two sides.  Its worktree,   *)
(* if it has one, lies at a path made from the branch's name.              *)
Names ==
  [run : Runs, named : BOOLEAN, by : {None}, side : {0}]
    \cup [run : Runs, named : {FALSE}, by : Cmds, side : {1, 2}]
RunBranch(r, named) == [run |-> r, named |-> named, by |-> None, side |-> 0]

ASSUME ReconstructAssumption ==
  /\ Patched \subseteq Runs /\ Broken \subseteq Patched
  /\ Requests \subseteq Request
  /\ \A q \in Requests :
       /\ q.kind = "checkout" => Len(q.runs) = 1
       /\ q.kind = "diff" => Len(q.runs) = 2
  /\ Overlap \in BOOLEAN /\ Faulty \in BOOLEAN
  /\ Main # Detached /\ Names \cap {Main, Detached} = {}
  /\ None \notin Cmds \cup Branch \cup Tree

VARIABLES
  branches,       \* branch -> None, or its commit and the command that made it
  trees,          \* branch -> None, or its worktree: directory there, work in it
  root,           \* the user's working tree: where it is, where the user put
                  \* it, and the uncommitted work in it
  cmd,            \* command -> what it is, where it is, its locals
  disturbed       \* branches cleaned away under the command that uses them

vars == <<branches, trees, root, cmd, disturbed>>

Places == {"idle", "check", "create", "apply", "untree", "unbranch", "commit",
           "sweep", "unsweep", "list", "remove", "ended"}
Stands == Names \cup {Main, Detached}
Fresh(ask, at, out) ==
  [ask |-> ask, at |-> at, job |-> 1, prev |-> Main, saw |-> {},
   made |-> <<>>, owed |-> {}, out |-> out]
Idle == Fresh(None, "idle", "none")

Command ==
  [ask : Requests \cup {None}, at : Places, job : 1..2, prev : Stands,
   saw : SUBSET {"edit", "file"}, made : Seq(SUBSET Changes),
   owed : SUBSET (Names \X {"tree", "root", "none", "half"}),
   out : {"none", "done", "refused", "unapplied", "broke", "failed", "killed"}]

TypeOK ==
  /\ branches \in [Names -> {None} \cup Branch]
  /\ trees \in [Names -> {None} \cup Tree]
  /\ root \in [on : Stands, home : Stands, wip : SUBSET Changes]
  /\ cmd \in [Cmds -> Command] /\ \A c \in Cmds : Len(cmd[c].made) <= 2
  /\ disturbed \subseteq Names
  /\ \A b \in Names : trees[b] # None => branches[b] # None

Init ==
  /\ branches = [b \in Names |-> None] /\ trees = [b \in Names |-> None]
  /\ \E h \in {Main, Detached} : root = [on |-> h, home |-> h, wip |-> {}]
  /\ cmd = [c \in Cmds |-> Idle]
  /\ disturbed = {}
-----------------------------------------------------------------------------
Active(c) == cmd[c].at \notin {"idle", "ended"}
At(c, place) == cmd[c].at = place
Kind(c) == cmd[c].ask.kind
InPlace(c) == Active(c) /\ Kind(c) = "checkout" /\ ~cmd[c].ask.worktree
RunOf(c) == cmd[c].ask.runs[cmd[c].job]

(* The branch c is reconstructing on; of a diff, that of its current side. *)
BranchOfMutant(c) ==
  IF Kind(c) = "diff" THEN RunBranch(RunOf(c), FALSE)
  ELSE RunBranch(RunOf(c), cmd[c].ask.named)
BranchOf(c) ==
  IF Kind(c) = "diff"
  THEN [run |-> RunOf(c), named |-> FALSE, by |-> c, side |-> cmd[c].job]
  ELSE RunBranch(RunOf(c), cmd[c].ask.named)

(* What git knows.  It deletes no branch that is checked out somewhere,    *)
(* the worktrees whose directory is gone included.                         *)
Exists(b) == branches[b] # None
CheckedOut(b) == trees[b] # None \/ root.on = b
Deletable(b) == Exists(b) /\ ~CheckedOut(b)
Deleted(b) == [branches EXCEPT ![b] = None]
Made(c, b) == [branches EXCEPT ![b] = [commit |-> {}, by |-> c]]

Goto(c, place) == cmd' = [cmd EXCEPT ![c].at = place]
Ended(c, out) == cmd' = [cmd EXCEPT ![c] = Fresh(@.ask, "ended", out)]

(* The finally of _code_diff takes back the sides up to n, the last first. *)
Sweep(c, n) ==
  IF n > 0 THEN cmd' = [cmd EXCEPT ![c] = [@ EXCEPT !.at = "sweep", !.job = n]]
  ELSE Ended(c, IF Len(cmd[c].made) = 2 THEN "done" ELSE "failed")

(* The command gives up; a diff still takes back what it may have made.    *)
Fail(c, out) == IF Kind(c) = "diff" THEN Sweep(c, cmd[c].job) ELSE Ended(c, out)

Begin(c, q) ==
  /\ cmd[c].at = "idle"
  /\ ~Overlap => ~\E d \in Cmds : Active(d)
  /\ (q.kind = "checkout" /\ ~q.worktree) => ~\E d \in Cmds : InPlace(d)
  /\ cmd' = [cmd EXCEPT ![c] = Fresh(q, IF q.kind = "clean" THEN "list" ELSE "check", "none")]
  /\ UNCHANGED <<branches, trees, root, disturbed>>
-----------------------------------------------------------------------------
(* What checkout and diff look at before they change anything.             *)
DirtyRootMutant(c) == FALSE
DirtyRoot(c) == ~cmd[c].ask.worktree /\ ~cmd[c].ask.force /\ root.wip # {}
Refused(c) ==
  LET b == BranchOf(c)
  IN \/ Exists(b)
     \/ /\ Kind(c) = "checkout"
        /\ \/ cmd[c].ask.worktree /\ trees[b] # None /\ trees[b].here
           \/ DirtyRoot(c)

Check(c) ==
  /\ At(c, "check") /\ ~Refused(c)
  /\ cmd' = [cmd EXCEPT ![c] = [@ EXCEPT !.at = "create", !.saw = root.wip \ Runs]]
  /\ UNCHANGED <<branches, trees, root, disturbed>>

(* A check fails, or the patch cannot be downloaded.  The side at hand of  *)
(* a diff is not to be taken back yet.                                     *)
CheckFail(c) ==
  /\ At(c, "check") /\ (Refused(c) \/ RunOf(c) \in Patched)
  /\ IF Kind(c) = "diff" THEN Sweep(c, cmd[c].job - 1) ELSE Ended(c, "refused")
  /\ UNCHANGED <<branches, trees, root, disturbed>>
-----------------------------------------------------------------------------
(* _reconstruct: a worktree, or the user's working tree switched.          *)
AddTree(c) ==
  LET b == BranchOf(c)
  IN /\ At(c, "create") /\ ~InPlace(c)
     /\ ~Exists(b) /\ trees[b] = None
     /\ branches' = Made(c, b)
     /\ trees' = [trees EXCEPT ![b] = [here |-> TRUE, wip |-> {}]]
     /\ Goto(c, "apply")
     /\ UNCHANGED <<root, disturbed>>

(* The branch is there by now, or git fails and may leave the branch, or   *)
(* the branch and the worktree.                                            *)
AddFail(c) ==
  LET b == BranchOf(c)
  IN /\ At(c, "create") /\ ~InPlace(c)
     /\ \/ Exists(b) /\ UNCHANGED <<branches, trees>>
        \/ ~Exists(b) /\ Faulty /\ branches' \in {branches, Made(c, b)} /\ UNCHANGED trees
        \/ /\ ~Exists(b) /\ Faulty /\ trees[b] = None
           /\ branches' = Made(c, b)
           /\ trees' = [trees EXCEPT ![b] = [here |-> TRUE, wip |-> {}]]
     /\ Fail(c, "broke")
     /\ UNCHANGED <<root, disturbed>>

(* git checkout --force discards what was changed in tracked files; an     *)
(* untracked file stays, and so do the new files of an earlier patch.      *)
ByForce == {wip \in SUBSET (root.wip \ {"edit"}) : root.wip \cap {"file"} \subseteq wip}

(* git checkout [--force] -b: edits are discarded by force, else carried   *)
(* along or in the way.                                                    *)
Previous == root.on
Switch(c) ==
  LET b == BranchOf(c)
  IN /\ At(c, "create") /\ InPlace(c) /\ ~Exists(b)
     /\ branches' = Made(c, b)
     /\ \E wip \in IF cmd[c].ask.force THEN ByForce ELSE {root.wip} :
          /\ root' = [root EXCEPT !.on = b, !.wip = wip]
          /\ cmd' = [cmd EXCEPT ![c] = [@ EXCEPT !.at = "apply", !.prev = Previous,
                                                 !.saw = cmd[c].saw \cap wip]]
     /\ UNCHANGED <<trees, disturbed>>

SwitchFail(c) ==
  /\ At(c, "create") /\ InPlace(c)
  /\ Exists(BranchOf(c)) \/ (~cmd[c].ask.force /\ root.wip # {})
  /\ Ended(c, "broke")
  /\ UNCHANGED <<branches, trees, root, disturbed>>

(* The tree c works in, None when it is not there any more.                *)
TreeOf(c) ==
  IF InPlace(c) THEN root
  ELSE IF trees[BranchOf(c)] # None /\ trees[BranchOf(c)].here THEN trees[BranchOf(c)]
  ELSE None
WorkIn(c, wip) ==
  IF InPlace(c) THEN root' = [root EXCEPT !.wip = wip] /\ UNCHANGED trees
  ELSE trees' = [trees EXCEPT ![BranchOf(c)].wip = wip] /\ UNCHANGED root

(* apply_patch: all or nothing, and nothing to run for a clean run.  Work  *)
(* that is in the tree already may be in the way.                          *)
Apply(c) ==
  LET patch == Recorded(RunOf(c))
  IN /\ At(c, "apply")
     /\ IF patch = {} THEN UNCHANGED <<trees, root>>
        ELSE /\ TreeOf(c) # None
             /\ patch \cap (Broken \cup TreeOf(c).wip) = {}
             /\ WorkIn(c, TreeOf(c).wip \cup patch)
     /\ IF Kind(c) = "diff" THEN Goto(c, "commit")
        ELSE IF cmd[c].ask.commit THEN Goto(c, "commit")
        ELSE Ended(c, "done")
     /\ UNCHANGED <<branches, disturbed>>

ApplyFail(c) ==
  /\ At(c, "apply") /\ Recorded(RunOf(c)) # {}
  /\ \/ TreeOf(c) = None
     \/ TreeOf(c) # None /\ (TreeOf(c).wip # {} \/ RunOf(c) \in Broken)
  /\ Goto(c, "untree")
  /\ UNCHANGED <<branches, trees, root, disturbed>>

(* The undoing: first the tree, then the branch; an error in it is not     *)
(* caught.                                                                 *)
UndoTree(c) ==
  /\ At(c, "untree")
  /\ IF InPlace(c)
     THEN /\ cmd[c].prev \in Names => Exists(cmd[c].prev)
          /\ \E wip \in ByForce : root' = [root EXCEPT !.on = cmd[c].prev, !.wip = wip]
          /\ UNCHANGED trees
     ELSE /\ trees[BranchOf(c)] # None
          /\ trees' = [trees EXCEPT ![BranchOf(c)] = None]
          /\ UNCHANGED root
  /\ Goto(c, "unbranch")
  /\ UNCHANGED <<branches, disturbed>>

UndoneBranchMutant(b) == branches
UndoneBranch(b) == Deleted(b)
UndoBranch(c) ==
  /\ At(c, "unbranch") /\ Deletable(BranchOf(c))
  /\ branches' = UndoneBranch(BranchOf(c))
  /\ Fail(c, "unapplied")
  /\ UNCHANGED <<trees, root, disturbed>>

UndoFail(c) ==
  /\ \/ At(c, "untree") /\ InPlace(c) /\ cmd[c].prev \in Names /\ ~Exists(cmd[c].prev)
     \/ At(c, "untree") /\ ~InPlace(c) /\ trees[BranchOf(c)] = None
     \/ At(c, "unbranch") /\ ~Deletable(BranchOf(c))
  /\ Fail(c, "broke")
  /\ UNCHANGED <<branches, trees, root, disturbed>>
-----------------------------------------------------------------------------
(* commit_all, for checkout --commit and for both sides of a diff.  A diff *)
(* takes the base itself when there is nothing to commit; elsewhere git    *)
(* refuses, and nobody catches that.                                       *)
LastSideMutant(c) == FALSE
LastSide(c) == cmd[c].job = 2
ComparedMutant(wip) == {}
Compared(wip) == wip
Committed(c) == IF InPlace(c) THEN root.on ELSE BranchOf(c)
Commit(c) ==
  LET wip == TreeOf(c).wip
      b == Committed(c)
  IN /\ At(c, "commit") /\ TreeOf(c) # None
     /\ wip # {} \/ Kind(c) = "diff"
     /\ branches' = IF b \in Names THEN [branches EXCEPT ![b].commit = @ \cup wip] ELSE branches
     /\ WorkIn(c, {})
     /\ IF Kind(c) = "diff"
        THEN cmd' = [cmd EXCEPT ![c] = [@ EXCEPT !.made = Append(cmd[c].made, Compared(wip)),
                                                 !.at = IF LastSide(c) THEN "sweep" ELSE "check",
                                                 !.job = 2]]
        ELSE Ended(c, "done")
     /\ UNCHANGED disturbed

CommitFail(c) ==
  /\ At(c, "commit")
  /\ TreeOf(c) = None \/ (TreeOf(c) # None /\ TreeOf(c).wip = {} /\ Kind(c) = "checkout")
  /\ Fail(c, "broke")
  /\ UNCHANGED <<branches, trees, root, disturbed>>

(* _remove_diff_tree, once for every side begun.                           *)
SweepTree(c) ==
  /\ At(c, "sweep")
  /\ trees' = [trees EXCEPT ![BranchOf(c)] = None]
  /\ Goto(c, "unsweep")
  /\ UNCHANGED <<branches, root, disturbed>>

SweepBranch(c) ==
  /\ At(c, "unsweep")
  /\ branches' = IF Deletable(BranchOf(c)) THEN Deleted(BranchOf(c)) ELSE branches
  /\ Sweep(c, cmd[c].job - 1)
  /\ UNCHANGED <<trees, root, disturbed>>
-----------------------------------------------------------------------------
(* clean: the worktrees and the branches under runsnap/, which those the   *)
(* user named are not; then one after the other, until one fails.          *)
Ours(b) == ~b.named
Place(b) == IF trees[b] # None THEN "tree" ELSE IF root.on = b THEN "root" ELSE "none"
Leftovers == {<<b, Place(b)>> : b \in {d \in Names : Exists(d) /\ Ours(d)}}

List(c) ==
  /\ At(c, "list")
  /\ IF cmd[c].ask.remove /\ Leftovers # {}
     THEN cmd' = [cmd EXCEPT ![c] = [@ EXCEPT !.at = "remove", !.owed = Leftovers]]
     ELSE Ended(c, "done")
  /\ UNCHANGED <<branches, trees, root, disturbed>>

(* A worktree or branch removed while the command that made it runs.       *)
Disturbs(b) ==
  disturbed' = IF Exists(b) /\ Active(branches[b].by) THEN disturbed \cup {b} ELSE disturbed

Halfway(c) == \E e \in cmd[c].owed : e[2] = "half"
RemoveTree(c, b) ==
  /\ At(c, "remove") /\ ~Halfway(c) /\ <<b, "tree">> \in cmd[c].owed
  /\ trees[b] # None
  /\ trees' = [trees EXCEPT ![b] = None]
  /\ cmd' = [cmd EXCEPT ![c].owed = (@ \ {<<b, "tree">>}) \cup {<<b, "half">>}]
  /\ Disturbs(b)
  /\ UNCHANGED <<branches, root>>

RemoveBranch(c, b) ==
  LET how == IF Halfway(c) THEN "half" ELSE "none"
      left == cmd[c].owed \ {<<b, how>>}
  IN /\ At(c, "remove") /\ <<b, how>> \in cmd[c].owed
     /\ Deletable(b)
     /\ branches' = Deleted(b)
     /\ IF left = {} THEN Ended(c, "done") ELSE cmd' = [cmd EXCEPT ![c].owed = left]
     /\ Disturbs(b)
     /\ UNCHANGED <<trees, root>>

(* The main working tree cannot be removed, nor what others removed, and   *)
(* git may refuse a worktree, a locked one for instance.                   *)
RemoveFail(c) ==
  /\ At(c, "remove")
  /\ \E e \in cmd[c].owed :
       /\ Halfway(c) => e[2] = "half"
       /\ e[2] = "tree" => trees[e[1]] = None \/ Faulty
       /\ e[2] \in {"none", "half"} => ~Deletable(e[1])
  /\ Ended(c, "failed")
  /\ UNCHANGED <<branches, trees, root, disturbed>>
-----------------------------------------------------------------------------
(* The command is killed; an interrupted diff takes its sides back.        *)
Kill(c) ==
  /\ Active(c) /\ Ended(c, "killed")
  /\ UNCHANGED <<branches, trees, root, disturbed>>
Interrupt(c) ==
  /\ Active(c) /\ Kind(c) = "diff" /\ cmd[c].at \notin {"sweep", "unsweep"}
  /\ Sweep(c, IF At(c, "check") THEN cmd[c].job - 1 ELSE cmd[c].job)
  /\ UNCHANGED <<branches, trees, root, disturbed>>

(* The user works, leaves a reconstruction, or deletes one by hand.        *)
Edit(x) ==
  /\ root' = [root EXCEPT !.wip = @ \cup {x}]
  /\ UNCHANGED <<branches, trees, cmd, disturbed>>
GoBack ==
  /\ root.on \in Names /\ ~\E c \in Cmds : InPlace(c)
  /\ root' = [root EXCEPT !.on = Main, !.home = Main]
  /\ UNCHANGED <<branches, trees, cmd, disturbed>>
DeleteDir(b) ==
  /\ trees[b] # None /\ Exists(b) /\ ~Active(branches[b].by)
  /\ trees' = [trees EXCEPT ![b].here = FALSE]
  /\ UNCHANGED <<branches, root, cmd, disturbed>>

Step(c) ==
  \/ \E q \in Requests : Begin(c, q)
  \/ Check(c) \/ CheckFail(c)
  \/ AddTree(c) \/ AddFail(c) \/ Switch(c) \/ SwitchFail(c)
  \/ Apply(c) \/ ApplyFail(c)
  \/ UndoTree(c) \/ UndoBranch(c) \/ UndoFail(c)
  \/ Commit(c) \/ CommitFail(c)
  \/ SweepTree(c) \/ SweepBranch(c)
  \/ List(c) \/ (\E b \in Names : RemoveTree(c, b) \/ RemoveBranch(c, b)) \/ RemoveFail(c)
  \/ Kill(c) \/ Interrupt(c)

Next ==
  \/ \E c \in Cmds : Step(c)
  \/ \E x \in {"edit", "file"} : Edit(x)
  \/ GoBack
  \/ \E b \in Names : DeleteDir(b)

Spec == Init /\ [][Next]_vars
-----------------------------------------------------------------------------
(* What the command c, which is ending well, leaves or found out.          *)
Exact(c) ==
  LET b == BranchOf(c)
      r == RunOf(c)
      work == IF InPlace(c) THEN root'.wip ELSE trees'[b].wip
      all == branches'[b].commit \cup work
  IN /\ Kind(c) = "diff" => \A n \in 1..2 : cmd[c].made[n] = Recorded(cmd[c].ask.runs[n])
     /\ Kind(c) = "checkout" =>
            /\ branches'[b].by = c
            /\ InPlace(c) => root'.on = b
            /\ Recorded(r) \subseteq (IF cmd[c].ask.commit THEN branches'[b].commit ELSE work)
            /\ all \ Recorded(r) \subseteq
                 ((IF InPlace(c) THEN {"file"} \cup {x \in {"edit"} : x \notin cmd[c].saw} ELSE {})
                   \cup (IF InPlace(c) /\ cmd[c].ask.force THEN Runs ELSE {}))
            /\ cmd[c].ask.commit => work = {}

(* A branch cleaned away under the command that uses it is no longer its   *)
(* own: another command may make it again.                                 *)
Undisturbed(c) == \A b \in disturbed : b.by # c /\ (b.by = None => b # BranchOf(c))

(* A checkout that succeeds leaves the tree the run was started from, its  *)
(* patch uncommitted unless asked for, whatever other commands do, and a   *)
(* diff compares these trees.  In place an untracked file may be there     *)
(* besides, one of an earlier patch too where --force was given, and what  *)
(* the user edited since the check.                                        *)
Restored ==
  [][\A c \in Cmds :
       Active(c) /\ Kind(c) # "clean" /\ cmd'[c].out = "done" /\ Undisturbed(c) => Exact(c)]_vars

(* "The command fails ... and leaves no partially reconstructed branch or  *)
(* worktree behind", "no worktree, branch, or directory it created         *)
(* remains": what is in the repository is of a command that runs, that     *)
(* was killed, or of a checkout that succeeded or broke off on an error    *)
(* git gave outside the patch's application; and the user's working tree   *)
(* is where the user put it, but for such a checkout.                      *)
Excused(c) ==
  \/ Active(c) \/ cmd[c].out = "killed"
  \/ Kind(c) = "checkout" /\ cmd[c].out \in {"done", "broke"}
NothingLeft ==
  /\ \A b \in Names \ disturbed : Exists(b) => Excused(branches[b].by)
  /\ root.on # root.home => root.on \in Names /\ Exists(root.on)
                              /\ (root.on \notin disturbed => Excused(branches[root.on].by))

(* What one command or the user made, another does not take away: a        *)
(* worktree or a branch goes by its own command, or by a clean --remove    *)
(* that listed it under runsnap/.                                          *)
Moving(c) == cmd'[c] # cmd[c]
OnlyOwn ==
  [][\A b \in Names \ disturbed :
       \/ Exists(b) /\ branches'[b] = None
       \/ trees[b] # None /\ trees'[b] = None
       => \E c \in Cmds :
            /\ Moving(c)
            /\ \/ c = branches[b].by /\ Active(c)
               \/ Kind(c) = "clean" /\ cmd[c].ask.remove /\ ~b.named]_vars

(* The user's uncommitted work stays: only a checkout in place takes it    *)
(* away, with --force or if it was not there yet when the checkout looked. *)
WorkKept ==
  [][\A x \in root.wip \ (Runs \cup root'.wip) :
       \E c \in Cmds : /\ InPlace(c) /\ Moving(c)
                       /\ cmd[c].ask.force \/ cmd[c].ask.commit \/ x \notin cmd[c].saw]_vars

(* "When asked it SHALL remove each listed worktree and its branch", where *)
(* no other command is under way.                                          *)
CleanRemoves ==
  [][\A c \in Cmds :
       At(c, "remove") /\ cmd'[c].out \in {"done", "failed"} =>
         \A e \in cmd[c].owed : branches'[e[1]] = None /\ trees'[e[1]] = None]_vars
=============================================================================
