-------------------------- MODULE ReconstructProofs --------------------------
(***************************************************************************)
(* What the commands leave behind and what they take away, for any runs,   *)
(* commands and requests.                                                  *)
(*                                                                         *)
(* Phases says of one command how far it can have got.  Books ties every   *)
(* branch to the command that made it: what is there is of a command that  *)
(* has got that far (or is excused), and a checkout that works on a branch *)
(* still has it, unless a clean took it away.  Standing is about the       *)
(* user's working tree, in which one checkout works at a time, and Looked  *)
(* about what was in it when that checkout looked.  Contents says what the *)
(* trees hold on the way to a checkout or a comparison.                    *)
(***************************************************************************)
EXTENDS Reconstruct, SequenceTheorems, TLAPS

Working == {"apply", "untree", "unbranch", "commit"}

Phase(c) ==
  /\ cmd[c].at # "ended" => cmd[c].out = "none"
  /\ cmd[c].at # "idle" => cmd[c].ask \in Requests
  /\ Active(c) /\ Kind(c) = "clean" =>
       /\ cmd[c].at \in {"list", "remove"}
       /\ cmd[c].at = "remove" => cmd[c].ask.remove /\ \A e \in cmd[c].owed : ~e[1].named
  /\ Active(c) /\ Kind(c) = "checkout" =>
       /\ cmd[c].at \in Working \cup {"check", "create"} /\ cmd[c].job = 1
       /\ cmd[c].at = "commit" => cmd[c].ask.commit
  /\ Active(c) /\ Kind(c) = "diff" =>
       /\ cmd[c].at \in Working \cup {"check", "create", "sweep", "unsweep"}
       /\ cmd[c].at \notin {"sweep", "unsweep"} => Len(cmd[c].made) = cmd[c].job - 1
Phases == \A c \in Cmds : Phase(c)

(* The branches that c, as far as it has got, may have made.               *)
Mine(c, b) ==
  IF Kind(c) = "diff"
  THEN /\ b.by = c /\ b.side \in 1 .. cmd[c].job
       /\ cmd[c].at \in {"check", "create"} => b.side # cmd[c].job
       /\ b.run = cmd[c].ask.runs[b.side]
  ELSE Kind(c) = "checkout" /\ cmd[c].at \in Working /\ b = BranchOf(c)

Accounted ==
  \A b \in Names \ disturbed :
    Exists(b) => LET c == branches[b].by
                 IN IF Active(c) THEN Mine(c, b) ELSE Excused(c)
Temporary == \A b \in Names : Exists(b) /\ b.by # None => branches[b].by = b.by
Holds(c) == Exists(BranchOf(c)) /\ branches[BranchOf(c)].by = c
Holding ==
  \A c \in Cmds :
    cmd[c].at \in Working /\ Kind(c) = "checkout" /\ BranchOf(c) \notin disturbed => Holds(c)
Swept == \A c \in Cmds : cmd[c].at = "unsweep" => trees[BranchOf(c)] = None
Books == Accounted /\ Temporary /\ Holding /\ Swept

Standing ==
  /\ \A c, d \in Cmds : InPlace(c) /\ InPlace(d) => c = d
  /\ root.on \in Names => Exists(root.on) /\ root.on.by = None
  /\ root.on # root.home => root.on \in Names
  /\ \A c \in Cmds : InPlace(c) /\ cmd[c].at \in Working =>
       /\ cmd[c].at # "unbranch" => root.on = BranchOf(c)
       /\ cmd[c].prev \in Names => cmd[c].prev.by = None
       /\ cmd[c].prev # root.home => cmd[c].prev \in Names

(* What was in the user's working tree when a checkout in place looked.    *)
Looked ==
  \A c \in Cmds : InPlace(c) =>
    /\ cmd[c].at = "create" /\ ~cmd[c].ask.force =>
         cmd[c].saw = {} /\ root.wip \subseteq {"edit", "file"}
    /\ cmd[c].at \in Working => "edit" \notin cmd[c].saw

(* What lies on a branch while it is reconstructed, and what a diff found. *)
Lying(c) == IF InPlace(c) THEN root.wip ELSE trees[BranchOf(c)].wip
Strange(c) ==
  IF InPlace(c) THEN {"edit", "file"} \cup (IF cmd[c].ask.force THEN Runs ELSE {}) ELSE {}
Found(c) == \A n \in 1 .. Len(cmd[c].made) : cmd[c].made[n] = Recorded(cmd[c].ask.runs[n])
Laid(c) ==
  /\ ~InPlace(c) => trees[BranchOf(c)] # None
  /\ branches[BranchOf(c)].commit = {}
  /\ cmd[c].at = "apply" => Lying(c) \subseteq Strange(c)
  /\ cmd[c].at = "commit" =>
       Recorded(RunOf(c)) \subseteq Lying(c) /\ Lying(c) \ Recorded(RunOf(c)) \subseteq Strange(c)
Contents ==
  \A c \in Cmds : Active(c) /\ Kind(c) # "clean" /\ Undisturbed(c) =>
    Found(c) /\ (cmd[c].at \in {"apply", "commit"} => Laid(c))

RInv == TypeOK /\ Phases /\ Books /\ Standing /\ Looked
-----------------------------------------------------------------------------
LEMMA Asked ==
  ASSUME NEW q \in Requests
  PROVE  /\ q.kind \in {"checkout", "diff", "clean"}
         /\ q.kind = "checkout" => /\ q.runs \in Seq(Runs) /\ Len(q.runs) = 1
                                   /\ q.worktree \in BOOLEAN /\ q.force \in BOOLEAN
                                   /\ q.commit \in BOOLEAN /\ q.named \in BOOLEAN
         /\ q.kind = "diff" => q.runs \in Seq(Runs) /\ Len(q.runs) = 2
         /\ q.kind = "clean" => q.remove \in BOOLEAN
BY ReconstructAssumption DEF Request

(* The branch that c works on.                                             *)
LEMMA Branches ==
  ASSUME TypeOK, Phases, NEW c \in Cmds, Active(c), Kind(c) # "clean"
  PROVE  /\ Kind(c) \in {"checkout", "diff"} /\ RunOf(c) \in Runs /\ BranchOf(c) \in Names
         /\ Kind(c) = "checkout" => BranchOf(c).by = None /\ cmd[c].job = 1
         /\ Kind(c) = "diff" =>
              /\ BranchOf(c).by = c /\ BranchOf(c).side = cmd[c].job
              /\ BranchOf(c).run = cmd[c].ask.runs[cmd[c].job]
<1>1. cmd[c].ask \in Requests /\ cmd[c].job \in 1 .. 2
  BY DEF TypeOK, Command, Phases, Phase, Active
<1>2. Kind(c) \in {"checkout", "diff"}
  BY <1>1, Asked DEF Kind
<1>3. RunOf(c) \in Runs /\ (Kind(c) = "checkout" => cmd[c].job = 1)
  <2>1. CASE Kind(c) = "checkout"
    BY <1>1, <2>1, Asked DEF Kind, RunOf, Phases, Phase
  <2>2. CASE Kind(c) = "diff"
    BY <1>1, <2>2, Asked DEF Kind, RunOf
  <2> QED
    BY <1>2, <2>1, <2>2
<1>4. CASE Kind(c) = "checkout"
  BY <1>1, <1>2, <1>3, <1>4, Asked DEF BranchOf, RunBranch, Names, Kind
<1>5. CASE Kind(c) = "diff"
  BY <1>1, <1>2, <1>3, <1>5 DEF BranchOf, Names, RunOf
<1> QED
  BY <1>2, <1>3, <1>4, <1>5

LEMMA NamesAre ==
  /\ None \notin Cmds /\ None \notin Branch /\ None \notin Tree
  /\ \A b \in Names :
       /\ b.run \in Runs /\ b.by \in Cmds \cup {None}
       /\ b.by = None => b.side = 0
       /\ b.by # None => b.side \in 1 .. 2 /\ ~b.named
  /\ \A b, d \in Names :
       b.by # None /\ b.by = d.by /\ b.side = d.side /\ b.run = d.run => b = d
<1>1. None \notin Cmds /\ None \notin Branch /\ None \notin Tree
  BY ReconstructAssumption
<1>2. \A b \in Names :
       /\ b.run \in Runs /\ b.by \in Cmds \cup {None}
       /\ b.by = None => b.side = 0
       /\ b.by # None => b.side \in 1 .. 2 /\ ~b.named
  <2> SUFFICES ASSUME NEW b \in Names
               PROVE  /\ b.run \in Runs /\ b.by \in Cmds \cup {None}
                      /\ b.by = None => b.side = 0
                      /\ b.by # None => b.side \in 1 .. 2 /\ ~b.named
    OBVIOUS
  <2>1. CASE b \in [run : Runs, named : BOOLEAN, by : {None}, side : {0}]
    BY <2>1
  <2>2. CASE b \in [run : Runs, named : {FALSE}, by : Cmds, side : {1, 2}]
    <3>1. b.run \in Runs /\ b.by \in Cmds /\ b.side \in {1, 2} /\ b.named \in {FALSE}
      BY <2>2
    <3>2. ~b.named
      BY <3>1
    <3> QED
      BY <1>1, <3>1, <3>2
  <2> QED
    BY <2>1, <2>2 DEF Names
<1>3. ASSUME NEW b \in Names, NEW d \in Names,
             b.by # None, b.by = d.by, b.side = d.side, b.run = d.run
      PROVE  b = d
  <2>1. /\ b \in [run : Runs, named : {FALSE}, by : Cmds, side : {1, 2}]
        /\ d \in [run : Runs, named : {FALSE}, by : Cmds, side : {1, 2}]
    BY <1>1, <1>3 DEF Names
  <2>2. b = [run |-> b.run, named |-> b.named, by |-> b.by, side |-> b.side] /\ ~b.named
    BY <2>1
  <2>3. d = [run |-> d.run, named |-> d.named, by |-> d.by, side |-> d.side] /\ ~d.named
    BY <2>1
  <2>4. b.named = d.named
    BY <2>1
  <2> QED
    BY <1>3, <2>2, <2>3, <2>4
<1> QED
  BY <1>1, <1>2, <1>3
-----------------------------------------------------------------------------
(* The steps of a command.                                                 *)
Others(c) == \A d \in Cmds \ {c} : cmd'[d] = cmd[d]

SameJob(c) ==
  /\ cmd'[c].ask = cmd[c].ask /\ cmd'[c].job = cmd[c].job
  /\ cmd'[c].made = cmd[c].made /\ cmd'[c].out = cmd[c].out
Typed(c) == cmd' \in [Cmds -> Command] /\ Others(c) /\ Len(cmd'[c].made) <= 2

LEMMA Puts ==
  ASSUME TypeOK, NEW c \in Cmds, NEW e \in Command, cmd' = [cmd EXCEPT ![c] = e],
         Len(e.made) <= 2
  PROVE  Typed(c) /\ cmd'[c] = e
BY DEF TypeOK, Others, Typed

LEMMA Going ==
  ASSUME TypeOK, NEW c \in Cmds, NEW p \in Places, Goto(c, p)
  PROVE  /\ Typed(c) /\ SameJob(c) /\ cmd'[c].at = p
         /\ cmd'[c].prev = cmd[c].prev /\ cmd'[c].saw = cmd[c].saw /\ cmd'[c].owed = cmd[c].owed
<1>1. PICK old : old = cmd[c]
  OBVIOUS
<1>2. PICK e : e = [old EXCEPT !.at = p]
  OBVIOUS
<1>3. old \in Command /\ Len(old.made) <= 2
  BY <1>1 DEF TypeOK
<1>4. /\ e \in Command /\ e.at = p /\ e.ask = old.ask /\ e.job = old.job /\ e.made = old.made
      /\ e.out = old.out /\ e.prev = old.prev /\ e.saw = old.saw /\ e.owed = old.owed
  BY ONLY <1>2, <1>3, p \in Places DEF Command
<1>5. cmd' = [cmd EXCEPT ![c] = e]
  BY <1>1, <1>2 DEF Goto
<1> QED
  BY <1>1, <1>3, <1>4, <1>5, Puts DEF SameJob

LEMMA Ending ==
  ASSUME TypeOK, NEW c \in Cmds,
         NEW out \in {"done", "refused", "unapplied", "broke", "failed", "killed"},
         Ended(c, out)
  PROVE  /\ Typed(c) /\ cmd'[c].at = "ended" /\ cmd'[c].ask = cmd[c].ask
         /\ cmd'[c].made = <<>> /\ cmd'[c].out = out
<1>1. PICK e : e = [ask |-> cmd[c].ask, at |-> "ended", job |-> 1, prev |-> Main, saw |-> {},
                    made |-> <<>>, owed |-> {}, out |-> out]
  OBVIOUS
<1>2. cmd' = [cmd EXCEPT ![c] = e]
  BY <1>1 DEF Ended, Fresh
<1>3. cmd \in [Cmds -> Command] /\ e \in Command
  <2>1. <<>> \in Seq(SUBSET Changes) /\ Main \in Stands /\ "ended" \in Places
    BY DEF Stands, Places
  <2>2. cmd[c].ask \in Requests \cup {None}
    BY DEF TypeOK, Command
  <2> QED
    BY <1>1, <2>1, <2>2 DEF TypeOK, Command
<1>4. Len(e.made) <= 2
  BY <1>1
<1> QED
  BY <1>1, <1>2, <1>3, <1>4, Puts

(* The finally of a diff, from its side n on.                              *)
LEMMA Sweeping ==
  ASSUME TypeOK, NEW c \in Cmds, NEW n \in 0 .. 2, Sweep(c, n)
  PROVE  /\ Typed(c) /\ cmd'[c].ask = cmd[c].ask
         /\ n = 0 => /\ cmd'[c].at = "ended" /\ cmd'[c].made = <<>>
                     /\ cmd'[c].out = IF Len(cmd[c].made) = 2 THEN "done" ELSE "failed"
         /\ n # 0 => /\ cmd'[c].at = "sweep" /\ cmd'[c].job = n
                     /\ cmd'[c].made = cmd[c].made /\ cmd'[c].out = cmd[c].out
<1>1. CASE n = 0
  BY <1>1, Ending DEF Sweep
<1>2. CASE n # 0
  <2>1. n \in 1 .. 2 /\ n > 0
    BY <1>2
  <2>2. PICK old : old = cmd[c]
    OBVIOUS
  <2>3. PICK e : e = [old EXCEPT !.at = "sweep", !.job = n]
    OBVIOUS
  <2>4. old \in Command /\ "sweep" \in Places
    BY <2>2 DEF TypeOK, Places
  <2>5. /\ e \in Command /\ e.at = "sweep" /\ e.job = n
        /\ e.ask = old.ask /\ e.made = old.made /\ e.out = old.out
    BY ONLY <2>1, <2>3, <2>4 DEF Command
  <2>6. cmd' = [cmd EXCEPT ![c] = e] /\ cmd \in [Cmds -> Command]
    BY <2>1, <2>2, <2>3 DEF Sweep, TypeOK
  <2> QED
    BY <1>2, <2>2, <2>5, <2>6, Puts DEF TypeOK
<1> QED
  BY <1>1, <1>2

LEMMA Failing ==
  ASSUME TypeOK, NEW c \in Cmds, NEW out \in {"unapplied", "broke"}, Fail(c, out)
  PROVE  /\ Typed(c) /\ cmd'[c].ask = cmd[c].ask
         /\ Kind(c) = "diff" => cmd'[c].at = "sweep" /\ SameJob(c)
         /\ Kind(c) # "diff" => cmd'[c].at = "ended" /\ cmd'[c].out = out
<1>1. cmd[c].job \in 0 .. 2 /\ cmd[c].job # 0
  BY DEF TypeOK, Command
<1> QED
  BY <1>1, Sweeping, Ending DEF Fail, SameJob

LEMMA BeginFacts ==
  ASSUME TypeOK, NEW c \in Cmds, NEW q \in Requests, Begin(c, q)
  PROVE  /\ Typed(c) /\ cmd'[c].ask = q /\ cmd'[c].job = 1 /\ cmd'[c].made = <<>>
         /\ cmd'[c].at = IF q.kind = "clean" THEN "list" ELSE "check"
         /\ cmd'[c].out = "none"
<1>1. PICK at : at = IF q.kind = "clean" THEN "list" ELSE "check"
  OBVIOUS
<1>2. PICK e : e = [ask |-> q, at |-> at, job |-> 1, prev |-> Main, saw |-> {},
                    made |-> <<>>, owed |-> {}, out |-> "none"]
  OBVIOUS
<1>3. cmd' = [cmd EXCEPT ![c] = e]
  BY <1>1, <1>2 DEF Begin, Fresh
<1>4. e \in Command
  <2>1. <<>> \in Seq(SUBSET Changes) /\ Main \in Stands /\ at \in Places
    BY <1>1 DEF Stands, Places
  <2> QED
    BY <1>2, <2>1 DEF Command
<1>5. Len(e.made) <= 2
  BY <1>2
<1>6. Typed(c) /\ cmd'[c] = e
  BY <1>3, <1>4, <1>5, Puts
<1> QED
  BY <1>1, <1>2, <1>6

LEMMA CheckFacts ==
  ASSUME TypeOK, NEW c \in Cmds, Check(c)
  PROVE  /\ Typed(c) /\ SameJob(c) /\ cmd'[c].at = "create"
         /\ cmd'[c].saw = root.wip \ Runs
<1>1. PICK old : old = cmd[c]
  OBVIOUS
<1>2. PICK e : e = [old EXCEPT !.at = "create", !.saw = root.wip \ Runs]
  OBVIOUS
<1>3. old \in Command /\ "create" \in Places /\ root.wip \ Runs \in SUBSET {"edit", "file"}
  BY <1>1 DEF TypeOK, Places, Changes
<1>4. /\ e \in Command /\ e.at = "create" /\ e.saw = root.wip \ Runs /\ e.ask = old.ask
      /\ e.job = old.job /\ e.made = old.made /\ e.out = old.out
  BY ONLY <1>2, <1>3 DEF Command
<1>5. cmd' = [cmd EXCEPT ![c] = e] /\ Len(old.made) <= 2
  BY <1>1, <1>2 DEF Check, TypeOK
<1> QED
  BY <1>1, <1>4, <1>5, Puts DEF SameJob

LEMMA SwitchFacts ==
  ASSUME TypeOK, NEW c \in Cmds, Switch(c)
  PROVE  /\ Typed(c) /\ SameJob(c) /\ cmd'[c].at = "apply" /\ cmd'[c].prev = root.on
         /\ cmd'[c].saw = cmd[c].saw \cap root'.wip
<1>1. PICK old : old = cmd[c]
  OBVIOUS
<1>2. PICK wip : /\ root' = [root EXCEPT !.on = BranchOf(c), !.wip = wip]
                 /\ cmd' = [cmd EXCEPT ![c] = [@ EXCEPT !.at = "apply", !.prev = root.on,
                                                        !.saw = cmd[c].saw \cap wip]]
  BY DEF Switch, Previous
<1>3. PICK e : e = [old EXCEPT !.at = "apply", !.prev = root.on, !.saw = old.saw \cap wip]
  OBVIOUS
<1>4. /\ root' = [root EXCEPT !.on = BranchOf(c), !.wip = wip]
      /\ cmd' = [cmd EXCEPT ![c] = e]
  BY <1>1, <1>2, <1>3
<1>5. root'.wip = wip
  BY <1>4 DEF TypeOK
<1>6. old \in Command /\ "apply" \in Places /\ root.on \in Stands /\ Len(old.made) <= 2
  BY <1>1 DEF TypeOK, Places
<1>7. /\ e \in Command /\ e.at = "apply" /\ e.saw = old.saw \cap wip /\ e.prev = root.on
      /\ e.ask = old.ask /\ e.job = old.job /\ e.made = old.made /\ e.out = old.out
  BY ONLY <1>3, <1>6 DEF Command
<1> QED
  BY <1>1, <1>4, <1>5, <1>6, <1>7, Puts DEF SameJob

LEMMA TreesTyped ==
  ASSUME TypeOK, NEW c \in Cmds, BranchOf(c) \in Names
  PROVE  /\ InPlace(c) => TreeOf(c) = root
         /\ ~InPlace(c) /\ TreeOf(c) # None =>
              TreeOf(c) = trees[BranchOf(c)] /\ trees[BranchOf(c)] \in Tree
         /\ TreeOf(c) # None => TreeOf(c).wip \in SUBSET Changes
BY DEF TreeOf, TypeOK, Tree

LEMMA CommitFacts ==
  ASSUME TypeOK, Phases, NEW c \in Cmds, Commit(c), Kind(c) = "diff"
  PROVE  /\ Typed(c) /\ cmd'[c].ask = cmd[c].ask /\ cmd'[c].out = cmd[c].out
         /\ cmd'[c].at = IF cmd[c].job = 2 THEN "sweep" ELSE "check"
         /\ cmd'[c].job = 2 /\ cmd'[c].made = Append(cmd[c].made, TreeOf(c).wip)
         /\ cmd[c].job \in 1 .. 2 /\ Len(cmd[c].made) = cmd[c].job - 1
         /\ Len(cmd'[c].made) = cmd[c].job
<1>1. PICK old : old = cmd[c]
  OBVIOUS
<1>2. PICK wip : wip = TreeOf(c).wip
  OBVIOUS
<1>3. PICK at : at = IF old.job = 2 THEN "sweep" ELSE "check"
  OBVIOUS
<1>4. PICK made : made = Append(old.made, wip)
  OBVIOUS
<1>5. PICK e : e = [old EXCEPT !.made = made, !.at = at, !.job = 2]
  OBVIOUS
<1>6. /\ Active(c) /\ BranchOf(c) \in Names /\ old \in Command
      /\ wip \in SUBSET Changes /\ at \in Places
  BY <1>1, <1>2, <1>3, Branches, TreesTyped DEF Commit, At, Active, TypeOK, Places
<1>7. cmd' = [cmd EXCEPT ![c] = e]
  BY <1>1, <1>2, <1>3, <1>4, <1>5 DEF Commit, Compared, LastSide
<1>8. /\ Len(old.made) = old.job - 1 /\ old.job \in 1 .. 2 /\ old.made \in Seq(SUBSET Changes)
  BY <1>1, <1>6 DEF Commit, At, Phases, Phase, Command
<1>9. made \in Seq(SUBSET Changes) /\ Len(made) = old.job /\ old.job <= 2
  BY <1>4, <1>6, <1>8
<1>10. /\ e \in Command /\ e.at = at /\ e.made = made /\ e.job = 2
      /\ e.ask = old.ask /\ e.out = old.out
  <2>1. made \in Seq(SUBSET Changes) /\ 2 \in 1 .. 2 /\ old \in Command /\ at \in Places
    BY <1>6, <1>9
  <2> QED
    BY ONLY <1>5, <2>1 DEF Command
<1>11. Typed(c) /\ cmd'[c] = e
  BY <1>7, <1>9, <1>10, Puts
<1> QED
  BY <1>1, <1>2, <1>3, <1>4, <1>8, <1>9, <1>10, <1>11

LEMMA ListFacts ==
  ASSUME TypeOK, NEW c \in Cmds, List(c)
  PROVE  /\ Typed(c) /\ cmd'[c].ask = cmd[c].ask
         /\ \/ /\ cmd'[c].at = "remove" /\ cmd[c].ask.remove
               /\ cmd'[c].out = cmd[c].out /\ cmd'[c].made = cmd[c].made
               /\ \A e \in cmd'[c].owed : ~e[1].named
            \/ cmd'[c].at = "ended" /\ cmd'[c].out = "done"
<1>1. CASE cmd[c].ask.remove /\ Leftovers # {}
  <2>1. PICK old : old = cmd[c]
    OBVIOUS
  <2>2. PICK e : e = [old EXCEPT !.at = "remove", !.owed = Leftovers]
    OBVIOUS
  <2>3. /\ Leftovers \in SUBSET (Names \X {"tree", "root", "none", "half"})
        /\ \A x \in Leftovers : ~x[1].named
    BY DEF Leftovers, Place, Ours
  <2>4. old \in Command /\ "remove" \in Places /\ Len(old.made) <= 2
    BY <2>1 DEF TypeOK, Places
  <2>5. /\ e \in Command /\ e.at = "remove" /\ e.owed = Leftovers /\ e.made = old.made
        /\ e.ask = old.ask /\ e.out = old.out
    BY ONLY <2>2, <2>3, <2>4 DEF Command
  <2>6. cmd' = [cmd EXCEPT ![c] = e]
    BY <1>1, <2>1, <2>2 DEF List
  <2> QED
    BY <1>1, <2>1, <2>3, <2>4, <2>5, <2>6, Puts
<1>2. CASE ~(cmd[c].ask.remove /\ Leftovers # {})
  BY <1>2, Ending DEF List
<1> QED
  BY <1>1, <1>2

Owing(c, owed) == cmd' = [cmd EXCEPT ![c].owed = owed]

LEMMA OwingFacts ==
  ASSUME TypeOK, NEW c \in Cmds, NEW owed, Owing(c, owed),
         owed \subseteq Names \X {"tree", "root", "none", "half"}
  PROVE  Typed(c) /\ SameJob(c) /\ cmd'[c].at = cmd[c].at /\ cmd'[c].owed = owed
<1>1. PICK old : old = cmd[c]
  OBVIOUS
<1>2. PICK e : e = [old EXCEPT !.owed = owed]
  OBVIOUS
<1>3. old \in Command /\ Len(old.made) <= 2
  BY <1>1 DEF TypeOK
<1>4. /\ e \in Command /\ e.at = old.at /\ e.ask = old.ask /\ e.job = old.job
      /\ e.made = old.made /\ e.out = old.out /\ e.owed = owed
  BY ONLY <1>2, <1>3, owed \in SUBSET (Names \X {"tree", "root", "none", "half"}) DEF Command
<1>5. cmd' = [cmd EXCEPT ![c] = e]
  BY <1>1, <1>2 DEF Owing
<1> QED
  BY <1>1, <1>3, <1>4, <1>5, Puts DEF SameJob

LEMMA RemoveFacts ==
  ASSUME TypeOK, NEW c \in Cmds, NEW b \in Names, RemoveTree(c, b) \/ RemoveBranch(c, b)
  PROVE  /\ Typed(c) /\ cmd'[c].ask = cmd[c].ask
         /\ \E e \in cmd[c].owed : e[1] = b
         /\ cmd'[c] # cmd[c]
         /\ \/ /\ cmd'[c].at = "remove" /\ cmd'[c].out = cmd[c].out
               /\ \A e \in cmd'[c].owed : \E x \in cmd[c].owed : e[1] = x[1]
            \/ cmd'[c].at = "ended" /\ cmd'[c].out = "done"
<1>1. cmd[c].owed \subseteq Names \X {"tree", "root", "none", "half"}
  BY DEF TypeOK, Command
<1>2. CASE RemoveTree(c, b)
  <2>1. PICK owed : owed = (cmd[c].owed \ {<<b, "tree">>}) \cup {<<b, "half">>}
    OBVIOUS
  <2>2. /\ cmd[c].at = "remove" /\ <<b, "tree">> \in cmd[c].owed /\ <<b, "tree">> \notin owed
        /\ Owing(c, owed) /\ owed \subseteq Names \X {"tree", "root", "none", "half"}
    BY <1>1, <1>2, <2>1 DEF RemoveTree, At, Owing
  <2>3. \A e \in owed : \E x \in cmd[c].owed : e[1] = x[1]
    BY <2>1, <2>2
  <2> QED
    BY <2>2, <2>3, OwingFacts DEF SameJob
<1>3. CASE RemoveBranch(c, b)
  <2>1. PICK how : how = IF Halfway(c) THEN "half" ELSE "none"
    OBVIOUS
  <2>2. PICK left : left = cmd[c].owed \ {<<b, how>>}
    OBVIOUS
  <2>3. /\ cmd[c].at = "remove" /\ <<b, how>> \in cmd[c].owed /\ <<b, how>> \notin left
        /\ left \subseteq cmd[c].owed
        /\ IF left = {} THEN Ended(c, "done") ELSE Owing(c, left)
    BY <1>3, <2>1, <2>2 DEF RemoveBranch, At, Owing
  <2>4. CASE left = {}
    BY <2>3, <2>4, Ending
  <2>5. CASE left # {}
    BY <1>1, <2>3, <2>5, OwingFacts DEF SameJob
  <2> QED
    BY <2>4, <2>5
<1> QED
  BY <1>2, <1>3

(* A step is that of a command that runs, or begins one.                   *)
LEMMA StepFrom ==
  ASSUME NEW c \in Cmds, Step(c)
  PROVE  (cmd[c].at = "idle" /\ \E q \in Requests : Begin(c, q)) \/ Active(c)
BY DEF Step, Begin, Active, At, Check, CheckFail, AddTree, AddFail, Switch, SwitchFail, Apply,
       ApplyFail, UndoTree, UndoBranch, UndoFail, Commit, CommitFail, SweepTree, SweepBranch,
       List, RemoveTree, RemoveBranch, RemoveFail, Kill, Interrupt

LEMMA StepTyped ==
  ASSUME TypeOK, Phases, NEW c \in Cmds, Step(c)
  PROVE  /\ Typed(c) /\ Phase(c)'
         /\ cmd[c].at # "idle" => cmd'[c].ask = cmd[c].ask /\ cmd'[c].at # "idle"
<1> USE DEF Phase, Active, Kind, Working
<1>1. /\ Phase(c) /\ cmd[c].job \in 1 .. 2 /\ cmd[c].at \in Places
      /\ cmd[c].at # "idle" => cmd[c].ask \in Requests /\ cmd[c].at # "ended"
                               /\ cmd[c].out = "none"
  BY StepFrom DEF Phases, TypeOK, Command
<1>2. ASSUME NEW q \in Requests, Begin(c, q)
      PROVE  Typed(c) /\ Phase(c)' /\ cmd[c].at = "idle"
  <2>1. cmd[c].at = "idle"
    BY <1>2 DEF Begin
  <2> QED
    BY <1>2, <2>1, BeginFacts, Asked
<1>3. ASSUME NEW out \in {"done", "refused", "unapplied", "broke", "failed", "killed"},
             Ended(c, out), cmd[c].at # "idle"
      PROVE  Typed(c) /\ Phase(c)' /\ cmd'[c].ask = cmd[c].ask /\ cmd'[c].at # "idle"
  BY <1>1, <1>3, Ending
<1>4. ASSUME NEW n \in 0 .. 2, Sweep(c, n), cmd[c].at # "idle", Kind(c) = "diff"
      PROVE  Typed(c) /\ Phase(c)' /\ cmd'[c].ask = cmd[c].ask /\ cmd'[c].at # "idle"
  BY <1>1, <1>4, Sweeping
<1>5. ASSUME NEW out \in {"unapplied", "broke"}, Fail(c, out), cmd[c].at # "idle"
      PROVE  Typed(c) /\ Phase(c)' /\ cmd'[c].ask = cmd[c].ask /\ cmd'[c].at # "idle"
  BY <1>1, <1>5, Failing DEF SameJob
<1>6. ASSUME NEW p \in Working \cup {"unsweep"}, Goto(c, p),
             cmd[c].at \in Working \cup {"create", "sweep"},
             p = "commit" => Kind(c) = "diff" \/ cmd[c].ask.commit,
             p = "unsweep" <=> cmd[c].at = "sweep"
      PROVE  Typed(c) /\ Phase(c)' /\ cmd'[c].ask = cmd[c].ask /\ cmd'[c].at # "idle"
  BY <1>1, <1>6, Going, Asked DEF SameJob, Places
<1>7. CASE Check(c) \/ Switch(c)
  BY <1>1, <1>7, CheckFacts, SwitchFacts, Asked DEF Check, Switch, At, SameJob
<1>8. CASE CheckFail(c)
  BY <1>1, <1>3, <1>4, <1>8 DEF CheckFail, At
<1>9. CASE Commit(c)
  <2>1. cmd[c].at = "commit"
    BY <1>9 DEF Commit, At
  <2>2. CASE Kind(c) = "diff"
    BY <1>1, <1>9, <2>1, <2>2, CommitFacts
  <2>3. CASE Kind(c) # "diff"
    BY <1>3, <1>9, <2>1, <2>3 DEF Commit
  <2> QED
    BY <2>2, <2>3
<1>10. CASE List(c)
  BY <1>1, <1>10, ListFacts, Asked DEF List, At
<1>11. CASE \E b \in Names : RemoveTree(c, b) \/ RemoveBranch(c, b)
  <2>1. PICK b \in Names : RemoveTree(c, b) \/ RemoveBranch(c, b)
    BY <1>11
  <2>2. cmd[c].at = "remove"
    BY <2>1 DEF RemoveTree, RemoveBranch, At
  <2>3. Kind(c) = "clean"
    BY <1>1, <2>2, Asked
  <2> QED
    BY <1>1, <2>1, <2>2, <2>3, RemoveFacts
<1>12. CASE Interrupt(c)
  BY <1>1, <1>4, <1>12 DEF Interrupt, At
<1>13. CASE SweepBranch(c)
  BY <1>1, <1>4, <1>13, Asked DEF SweepBranch, At
<1>14. CASE SwitchFail(c) \/ RemoveFail(c) \/ Kill(c)
  BY <1>3, <1>14 DEF SwitchFail, RemoveFail, Kill, At
<1>15. CASE AddFail(c) \/ UndoBranch(c) \/ UndoFail(c) \/ CommitFail(c)
  BY <1>5, <1>15 DEF AddFail, UndoBranch, UndoFail, CommitFail, At
<1>16. CASE AddTree(c) \/ ApplyFail(c) \/ UndoTree(c) \/ SweepTree(c)
  BY <1>6, <1>16 DEF AddTree, ApplyFail, UndoTree, SweepTree, At
<1>17. CASE Apply(c)
  BY <1>3, <1>6, <1>17 DEF Apply, At
<1> QED
  BY <1>2, <1>7, <1>8, <1>9, <1>10, <1>11, <1>12, <1>13, <1>14, <1>15, <1>16, <1>17 DEF Step

(* What a step of one command leaves of the others.                        *)
LEMMA OthersStay ==
  ASSUME NEW c \in Cmds, Others(c)
  PROVE  \A d \in Cmds \ {c} :
           /\ cmd'[d] = cmd[d] /\ (Active(d)' <=> Active(d)) /\ Kind(d)' = Kind(d)
           /\ (InPlace(d)' <=> InPlace(d)) /\ BranchOf(d)' = BranchOf(d)
           /\ (Phase(d)' <=> Phase(d)) /\ (Excused(d)' <=> Excused(d))
           /\ \A b : Mine(d, b)' <=> Mine(d, b)
<1> SUFFICES ASSUME NEW d \in Cmds \ {c}
             PROVE  /\ cmd'[d] = cmd[d] /\ (Active(d)' <=> Active(d)) /\ Kind(d)' = Kind(d)
                    /\ (InPlace(d)' <=> InPlace(d)) /\ BranchOf(d)' = BranchOf(d)
                    /\ (Phase(d)' <=> Phase(d)) /\ (Excused(d)' <=> Excused(d))
                    /\ \A b : Mine(d, b)' <=> Mine(d, b)
  OBVIOUS
<1>1. cmd'[d] = cmd[d]
  BY DEF Others
<1>2. (Active(d)' <=> Active(d)) /\ Kind(d)' = Kind(d)
  BY <1>1 DEF Active, Kind
<1>3. (InPlace(d)' <=> InPlace(d)) /\ BranchOf(d)' = BranchOf(d)
  BY <1>1, <1>2 DEF InPlace, BranchOf, RunOf
<1> QED
  BY <1>1, <1>2, <1>3 DEF Phase, Excused, Mine

LEMMA StepPhases ==
  ASSUME TypeOK, Phases, NEW c \in Cmds, Step(c)
  PROVE  Phases'
BY StepTyped, OthersStay DEF Phases, Typed

LEMMA BranchSet ==
  ASSUME TypeOK, NEW b \in Names, NEW e \in Branch \cup {None}, branches' = [branches EXCEPT ![b] = e]
  PROVE  /\ branches' \in [Names -> {None} \cup Branch] /\ branches'[b] = e
         /\ \A d \in Names \ {b} : branches'[d] = branches[d]
BY DEF TypeOK

LEMMA TreeSet ==
  ASSUME TypeOK, NEW b \in Names, NEW e \in Tree \cup {None}, trees' = [trees EXCEPT ![b] = e]
  PROVE  /\ trees' \in [Names -> {None} \cup Tree] /\ trees'[b] = e
         /\ \A d \in Names \ {b} : trees'[d] = trees[d]
BY DEF TypeOK

LEMMA BranchMade ==
  ASSUME TypeOK, NEW c \in Cmds, NEW b \in Names, branches' = Made(c, b)
  PROVE  /\ branches' \in [Names -> {None} \cup Branch] /\ branches'[b] # None
         /\ branches'[b].commit = {} /\ branches'[b].by = c
         /\ \A d \in Names \ {b} : branches'[d] = branches[d]
<1>1. PICK e : e = [commit |-> {}, by |-> c]
  OBVIOUS
<1>2. e \in Branch /\ branches' = [branches EXCEPT ![b] = e]
  BY <1>1 DEF Branch, Made
<1>3. /\ branches' \in [Names -> {None} \cup Branch] /\ branches'[b] = e
      /\ \A d \in Names \ {b} : branches'[d] = branches[d]
  BY <1>2, BranchSet
<1>4. e # None
  BY <1>2, NamesAre
<1>5. e.commit = {} /\ e.by = c
  BY <1>1
<1> QED
  BY <1>3, <1>4, <1>5

LEMMA BranchDeleted ==
  ASSUME TypeOK, NEW b \in Names, branches' = Deleted(b)
  PROVE  /\ branches' \in [Names -> {None} \cup Branch] /\ branches'[b] = None
         /\ \A d \in Names \ {b} : branches'[d] = branches[d]
BY BranchSet DEF Deleted

(* The work in the tree of c is replaced.                                  *)
LEMMA Worked ==
  ASSUME TypeOK, NEW c \in Cmds, BranchOf(c) \in Names, NEW wip \in SUBSET Changes,
         TreeOf(c) # None, WorkIn(c, wip)
  PROVE  /\ trees' \in [Names -> {None} \cup Tree]
         /\ root' \in [on : Stands, home : Stands, wip : SUBSET Changes]
         /\ root'.on = root.on /\ root'.home = root.home
         /\ InPlace(c) => root'.wip = wip /\ trees' = trees
         /\ ~InPlace(c) => /\ root' = root /\ trees[BranchOf(c)] # None
                           /\ trees'[BranchOf(c)] # None /\ trees'[BranchOf(c)].wip = wip
         /\ \A b \in Names \ {BranchOf(c)} : trees'[b] = trees[b]
<1>1. CASE InPlace(c)
  BY <1>1 DEF WorkIn, TypeOK
<1>2. CASE ~InPlace(c)
  <2>1. PICK b \in Names : b = BranchOf(c)
    OBVIOUS
  <2>2. trees[b] \in Tree /\ trees[b] # None
    BY <1>2, <2>1, TreesTyped, NamesAre
  <2>3. PICK e : e = [trees[b] EXCEPT !.wip = wip]
    OBVIOUS
  <2>4. e \in Tree /\ e.wip = wip
    BY <2>2, <2>3 DEF Tree
  <2>5. trees' = [trees EXCEPT ![b] = e] /\ root' = root
    BY <1>2, <2>1, <2>3 DEF WorkIn
  <2> QED
    BY <1>2, <2>1, <2>2, <2>4, <2>5, TreeSet, NamesAre DEF TypeOK
<1> QED
  BY <1>1, <1>2

DataTyped ==
  /\ branches \in [Names -> {None} \cup Branch]
  /\ trees \in [Names -> {None} \cup Tree]
  /\ root \in [on : Stands, home : Stands, wip : SUBSET Changes]
  /\ disturbed \subseteq Names
  /\ \A b \in Names : trees[b] # None => branches[b] # None

(* What the actions do that change the repository, one by one.             *)
Adds(c) ==
  /\ branches' = Made(c, BranchOf(c))
  /\ trees' = [trees EXCEPT ![BranchOf(c)] = [here |-> TRUE, wip |-> {}]]

LEMMA AddTreeDoes ==
  ASSUME TypeOK, Phases, NEW c \in Cmds, AddTree(c) \/ AddFail(c), Adds(c)
  PROVE  /\ Active(c) /\ Kind(c) # "clean" /\ ~InPlace(c) /\ BranchOf(c) \in Names
         /\ trees' \in [Names -> {None} \cup Tree]
         /\ trees'[BranchOf(c)] # None /\ trees'[BranchOf(c)].wip = {}
         /\ \A b \in Names \ {BranchOf(c)} : trees'[b] = trees[b]
<1>1. Active(c) /\ Kind(c) # "clean" /\ ~InPlace(c)
  BY DEF AddTree, AddFail, At, Active, Phases, Phase, Working
<1>2. BranchOf(c) \in Names
  BY <1>1, Branches
<1>3. PICK b \in Names : b = BranchOf(c)
  BY <1>2
<1>4. PICK e : e = [here |-> TRUE, wip |-> {}]
  OBVIOUS
<1>5. e \in Tree /\ e.wip = {} /\ trees' = [trees EXCEPT ![b] = e]
  BY <1>3, <1>4 DEF Tree, Adds
<1> QED
  BY <1>1, <1>3, <1>5, TreeSet, NamesAre

LEMMA AddFailDoes ==
  ASSUME NEW c, AddFail(c)
  PROVE  \/ UNCHANGED <<branches, trees>>
         \/ branches' = Made(c, BranchOf(c)) /\ trees' = trees /\ ~Exists(BranchOf(c))
         \/ Adds(c) /\ ~Exists(BranchOf(c))
BY DEF AddFail, Adds

LEMMA ByForceLeaves ==
  ASSUME TypeOK, NEW wip \in ByForce
  PROVE  /\ wip \in SUBSET Changes /\ wip \subseteq root.wip /\ "edit" \notin wip
         /\ root.wip \cap {"file"} \subseteq wip
BY DEF ByForce, TypeOK

LEMMA SwitchDoes ==
  ASSUME TypeOK, Phases, NEW c \in Cmds, Switch(c)
  PROVE  /\ InPlace(c) /\ Active(c) /\ Kind(c) = "checkout" /\ BranchOf(c) \in Names
         /\ root' \in [on : Stands, home : Stands, wip : SUBSET Changes]
         /\ root'.on = BranchOf(c) /\ root'.home = root.home
         /\ root'.wip \subseteq root.wip /\ root.wip \cap {"file"} \subseteq root'.wip
         /\ IF cmd[c].ask.force THEN "edit" \notin root'.wip ELSE root'.wip = root.wip
<1>1. InPlace(c) /\ Active(c) /\ Kind(c) = "checkout"
  BY DEF Switch, InPlace
<1>2. PICK b \in Names : b = BranchOf(c)
  BY <1>1, Branches
<1>3. PICK wip \in IF cmd[c].ask.force THEN ByForce ELSE {root.wip} :
        root' = [root EXCEPT !.on = b, !.wip = wip]
  BY <1>2 DEF Switch
<1>4. /\ wip \in SUBSET Changes /\ b \in Stands
      /\ wip \subseteq root.wip /\ root.wip \cap {"file"} \subseteq wip
      /\ IF cmd[c].ask.force THEN "edit" \notin wip ELSE wip = root.wip
  BY <1>3, ByForceLeaves DEF TypeOK, Stands
<1> QED
  BY <1>1, <1>2, <1>3, <1>4 DEF TypeOK

LEMMA ApplyDoes ==
  ASSUME TypeOK, Phases, NEW c \in Cmds, Apply(c)
  PROVE  /\ Active(c) /\ Kind(c) # "clean" /\ BranchOf(c) \in Names
         /\ trees' \in [Names -> {None} \cup Tree]
         /\ root' \in [on : Stands, home : Stands, wip : SUBSET Changes]
         /\ root'.on = root.on /\ root'.home = root.home
         /\ \A b \in Names : trees'[b] # None <=> trees[b] # None
         /\ \A b \in Names \ {BranchOf(c)} : trees'[b] = trees[b]
         /\ InPlace(c) => trees' = trees /\ root'.wip = root.wip \cup Recorded(RunOf(c))
         /\ ~InPlace(c) => /\ root' = root
                           /\ trees[BranchOf(c)] # None =>
                                trees'[BranchOf(c)].wip =
                                  trees[BranchOf(c)].wip \cup Recorded(RunOf(c))
<1>1. Active(c) /\ Kind(c) # "clean"
  BY DEF Apply, At, Active, Phases, Phase
<1>2. BranchOf(c) \in Names /\ RunOf(c) \in Runs
  BY <1>1, Branches
<1>3. CASE Recorded(RunOf(c)) = {}
  <2>1. trees' = trees /\ root' = root
    BY <1>3 DEF Apply
  <2> QED
    BY <1>1, <1>2, <1>3, <2>1 DEF TypeOK
<1>4. CASE Recorded(RunOf(c)) # {}
  <2>1. PICK wip : wip = TreeOf(c).wip \cup Recorded(RunOf(c))
    OBVIOUS
  <2>2. TreeOf(c) # None /\ WorkIn(c, wip) /\ wip \in SUBSET Changes
    <3>1. TreeOf(c) # None /\ WorkIn(c, wip)
      BY <1>4, <2>1 DEF Apply
    <3>2. Recorded(RunOf(c)) \subseteq Changes
      BY <1>2 DEF Recorded, Changes
    <3> QED
      BY <1>2, <2>1, <3>1, <3>2, TreesTyped
  <2>3. /\ InPlace(c) => TreeOf(c) = root
        /\ ~InPlace(c) => TreeOf(c) = trees[BranchOf(c)]
    BY <1>2, <2>2, TreesTyped
  <2> QED
    BY <1>1, <1>2, <2>1, <2>2, <2>3, Worked
<1> QED
  BY <1>3, <1>4

LEMMA UndoTreeDoes ==
  ASSUME TypeOK, Phases, NEW c \in Cmds, UndoTree(c)
  PROVE  /\ Active(c) /\ Kind(c) # "clean" /\ BranchOf(c) \in Names
         /\ InPlace(c) => /\ trees' = trees
                          /\ root' \in [on : Stands, home : Stands, wip : SUBSET Changes]
                          /\ cmd[c].prev \in Names => Exists(cmd[c].prev)
                          /\ root'.on = cmd[c].prev /\ root'.home = root.home
                          /\ root'.wip \subseteq root.wip /\ "edit" \notin root'.wip
                          /\ root.wip \cap {"file"} \subseteq root'.wip
         /\ ~InPlace(c) => /\ root' = root /\ trees' \in [Names -> {None} \cup Tree]
                           /\ trees'[BranchOf(c)] = None
                           /\ \A b \in Names \ {BranchOf(c)} : trees'[b] = trees[b]
<1>1. Active(c) /\ Kind(c) # "clean"
  BY DEF UndoTree, At, Active, Phases, Phase
<1>2. PICK b \in Names : b = BranchOf(c)
  BY <1>1, Branches
<1>3. CASE InPlace(c)
  <2>1. PICK wip \in ByForce : root' = [root EXCEPT !.on = cmd[c].prev, !.wip = wip]
    BY <1>3 DEF UndoTree
  <2>2. PICK prev \in Stands : prev = cmd[c].prev
    BY DEF TypeOK, Command
  <2>3. /\ trees' = trees /\ root' = [root EXCEPT !.on = prev, !.wip = wip]
        /\ prev \in Names => Exists(prev)
    BY <1>3, <2>1, <2>2 DEF UndoTree
  <2>4. /\ wip \in SUBSET Changes /\ wip \subseteq root.wip /\ "edit" \notin wip
        /\ root.wip \cap {"file"} \subseteq wip
    BY ByForceLeaves
  <2> QED
    BY <1>1, <1>2, <1>3, <2>2, <2>3, <2>4 DEF TypeOK
<1>4. CASE ~InPlace(c)
  <2>1. root' = root /\ trees' = [trees EXCEPT ![b] = None]
    BY <1>2, <1>4 DEF UndoTree
  <2> QED
    BY <1>1, <1>2, <1>4, <2>1, TreeSet
<1> QED
  BY <1>3, <1>4

LEMMA CommitDoes ==
  ASSUME TypeOK, Phases, Standing, NEW c \in Cmds, Commit(c)
  PROVE  /\ Active(c) /\ Kind(c) # "clean" /\ BranchOf(c) \in Names /\ TreeOf(c) # None
         /\ branches' \in [Names -> {None} \cup Branch]
         /\ branches[BranchOf(c)] # None /\ branches'[BranchOf(c)] # None
         /\ branches'[BranchOf(c)].by = branches[BranchOf(c)].by
         /\ branches'[BranchOf(c)].commit = branches[BranchOf(c)].commit \cup TreeOf(c).wip
         /\ \A b \in Names \ {BranchOf(c)} : branches'[b] = branches[b] /\ trees'[b] = trees[b]
         /\ trees' \in [Names -> {None} \cup Tree]
         /\ root' \in [on : Stands, home : Stands, wip : SUBSET Changes]
         /\ root'.on = root.on /\ root'.home = root.home
         /\ InPlace(c) => trees' = trees /\ root'.wip = {}
         /\ ~InPlace(c) => /\ root' = root /\ trees[BranchOf(c)] # None
                           /\ trees'[BranchOf(c)] # None /\ trees'[BranchOf(c)].wip = {}
<1>1. Active(c) /\ Kind(c) # "clean" /\ cmd[c].at = "commit" /\ TreeOf(c) # None
  BY DEF Commit, At, Active, Phases, Phase
<1>2. PICK b \in Names : b = BranchOf(c)
  BY <1>1, Branches
<1>3. Committed(c) = b /\ Exists(b)
  <2>1. CASE InPlace(c)
    BY <1>1, <1>2, <2>1 DEF Standing, Committed, Working
  <2>2. CASE ~InPlace(c)
    BY <1>1, <1>2, <2>2, TreesTyped DEF Committed, Exists, TypeOK
  <2> QED
    BY <2>1, <2>2
<1>4. PICK wip \in SUBSET Changes : wip = TreeOf(c).wip
  BY <1>1, <1>2, TreesTyped
<1>5. branches[b] # None /\ branches[b] \in Branch
  BY <1>3 DEF Exists, TypeOK
<1>6. PICK e : e = [branches[b] EXCEPT !.commit = @ \cup wip]
  OBVIOUS
<1>7. e \in Branch /\ e.by = branches[b].by /\ e.commit = branches[b].commit \cup wip
  BY <1>5, <1>6 DEF Branch
<1>8. branches' = [branches EXCEPT ![b] = e]
  BY <1>3, <1>4, <1>6 DEF Commit
<1>9. /\ branches' \in [Names -> {None} \cup Branch] /\ branches'[b] = e /\ e # None
      /\ \A d \in Names \ {b} : branches'[d] = branches[d]
  BY <1>7, <1>8, BranchSet, NamesAre
<1>10. WorkIn(c, {}) /\ {} \in SUBSET Changes
  BY DEF Commit
<1>11. /\ trees' \in [Names -> {None} \cup Tree]
       /\ root' \in [on : Stands, home : Stands, wip : SUBSET Changes]
       /\ root'.on = root.on /\ root'.home = root.home
       /\ InPlace(c) => root'.wip = {} /\ trees' = trees
       /\ ~InPlace(c) => /\ root' = root /\ trees[b] # None
                         /\ trees'[b] # None /\ trees'[b].wip = {}
       /\ \A d \in Names \ {b} : trees'[d] = trees[d]
  BY <1>1, <1>2, <1>10, Worked
<1> QED
  BY <1>1, <1>2, <1>4, <1>5, <1>7, <1>9, <1>11

LEMMA SweepsDo ==
  ASSUME TypeOK, Phases, NEW c \in Cmds, SweepTree(c) \/ SweepBranch(c)
  PROVE  Active(c) /\ Kind(c) = "diff" /\ BranchOf(c) \in Names
<1>1. Active(c) /\ Kind(c) = "diff"
  <2>1. Active(c) /\ cmd[c].at \in {"sweep", "unsweep"}
    BY DEF SweepTree, SweepBranch, At, Active
  <2>2. cmd[c].ask \in Requests
    BY <2>1 DEF Phases, Phase, Active
  <2> QED
    BY <2>1, <2>2, Asked DEF Phases, Phase, Kind, Working
<1> QED
  BY <1>1, Branches

LEMMA StepData ==
  ASSUME TypeOK, Phases, Standing, NEW c \in Cmds, Step(c)
  PROVE  DataTyped'
<1>1. DataTyped
  BY DEF DataTyped, TypeOK
<1>2. ASSUME UNCHANGED <<branches, trees, root>>, disturbed' \subseteq Names
      PROVE  DataTyped'
  BY <1>1, <1>2 DEF DataTyped
<1>3. ASSUME NEW b \in Names, branches' = Deleted(b), UNCHANGED <<trees, root>>,
             Deletable(b), disturbed' \subseteq Names
      PROVE  DataTyped'
  <2>1. trees[b] = None
    BY <1>3 DEF Deletable, CheckedOut
  <2> QED
    BY <1>1, <1>3, <2>1, BranchDeleted DEF DataTyped
<1>4. ASSUME NEW b \in Names, trees' = [trees EXCEPT ![b] = None], UNCHANGED <<branches, root>>,
             disturbed' \subseteq Names
      PROVE  DataTyped'
  BY <1>1, <1>4, TreeSet DEF DataTyped
<1>5. CASE \/ \E q \in Requests : Begin(c, q)
           \/ Check(c) \/ CheckFail(c) \/ SwitchFail(c) \/ ApplyFail(c) \/ UndoFail(c)
           \/ CommitFail(c) \/ List(c) \/ RemoveFail(c) \/ Kill(c) \/ Interrupt(c)
  BY <1>1, <1>2, <1>5
  DEF Begin, Check, CheckFail, SwitchFail, ApplyFail, UndoFail, CommitFail, List, RemoveFail,
      Kill, Interrupt, DataTyped
<1>6. CASE AddTree(c)
  <2>1. Adds(c) /\ branches' = Made(c, BranchOf(c)) /\ UNCHANGED <<root, disturbed>>
    BY <1>6 DEF AddTree, Adds
  <2>2. /\ branches' \in [Names -> {None} \cup Branch] /\ branches'[BranchOf(c)] # None
        /\ \A b \in Names \ {BranchOf(c)} : branches'[b] = branches[b]
    BY <1>6, <2>1, AddTreeDoes, BranchMade
  <2> QED
    BY <1>1, <1>6, <2>1, <2>2, AddTreeDoes DEF DataTyped
<1>7. CASE AddFail(c)
  <2>1. UNCHANGED <<root, disturbed>>
    BY <1>7 DEF AddFail
  <2>2. CASE UNCHANGED <<branches, trees>>
    BY <1>2, <2>1, <2>2, <1>1 DEF DataTyped
  <2>3. CASE branches' = Made(c, BranchOf(c))
    <3>1. Active(c) /\ Kind(c) # "clean"
      BY <1>7 DEF AddFail, At, Active, Phases, Phase, Working
    <3>2. BranchOf(c) \in Names
      BY <3>1, Branches
    <3>3. /\ branches' \in [Names -> {None} \cup Branch] /\ branches'[BranchOf(c)] # None
          /\ \A b \in Names \ {BranchOf(c)} : branches'[b] = branches[b]
      BY <2>3, <3>2, BranchMade
    <3>4. (trees' = trees /\ DataTyped) => DataTyped'
      BY <1>1, <2>1, <3>2, <3>3 DEF DataTyped
    <3>5. Adds(c) => DataTyped'
      BY <1>1, <1>7, <2>1, <3>2, <3>3, AddTreeDoes DEF DataTyped
    <3> QED
      BY <1>1, <1>7, <2>3, <3>4, <3>5, AddFailDoes
  <2> QED
    BY <1>7, <2>2, <2>3, AddFailDoes DEF Adds
<1>8. CASE Switch(c)
  <2>1. branches' = Made(c, BranchOf(c)) /\ UNCHANGED <<trees, disturbed>>
    BY <1>8 DEF Switch
  <2>2. /\ BranchOf(c) \in Names
        /\ root' \in [on : Stands, home : Stands, wip : SUBSET Changes]
    BY <1>8, SwitchDoes
  <2>3. /\ branches' \in [Names -> {None} \cup Branch] /\ branches'[BranchOf(c)] # None
        /\ \A b \in Names \ {BranchOf(c)} : branches'[b] = branches[b]
    BY <2>1, <2>2, BranchMade
  <2> QED
    BY <1>1, <2>1, <2>2, <2>3 DEF DataTyped
<1>9. CASE Apply(c)
  <2>1. UNCHANGED <<branches, disturbed>>
    BY <1>9 DEF Apply
  <2> QED
    BY <1>1, <1>9, <2>1, ApplyDoes DEF DataTyped
<1>10. CASE UndoTree(c)
  <2>1. UNCHANGED <<branches, disturbed>>
    BY <1>10 DEF UndoTree
  <2> QED
    BY <1>1, <1>10, <2>1, UndoTreeDoes DEF DataTyped
<1>11. CASE UndoBranch(c)
  <2>1. Active(c) /\ Kind(c) # "clean"
    BY <1>11 DEF UndoBranch, At, Active, Phases, Phase
  <2>2. /\ branches' = Deleted(BranchOf(c)) /\ Deletable(BranchOf(c))
        /\ UNCHANGED <<trees, root, disturbed>>
    BY <1>11 DEF UndoBranch, UndoneBranch
  <2> QED
    BY <1>1, <1>3, <2>1, <2>2, Branches DEF DataTyped
<1>12. CASE Commit(c)
  <2>1. disturbed' = disturbed
    BY <1>12 DEF Commit
  <2> QED
    BY <1>1, <1>12, <2>1, CommitDoes DEF DataTyped
<1>13. CASE SweepTree(c)
  BY <1>1, <1>4, <1>13, SweepsDo DEF SweepTree, DataTyped
<1>14. CASE SweepBranch(c)
  BY <1>1, <1>2, <1>3, <1>14, SweepsDo DEF SweepBranch, DataTyped
<1>15. CASE \E b \in Names : RemoveTree(c, b) \/ RemoveBranch(c, b)
  <2>1. PICK b \in Names : RemoveTree(c, b) \/ RemoveBranch(c, b)
    BY <1>15
  <2>2. disturbed' \subseteq Names
    BY <1>1, <2>1 DEF RemoveTree, RemoveBranch, Disturbs, DataTyped
  <2> QED
    BY <1>3, <1>4, <2>1, <2>2 DEF RemoveTree, RemoveBranch
<1> QED
  BY <1>5, <1>6, <1>7, <1>8, <1>9, <1>10, <1>11, <1>12, <1>13, <1>14, <1>15 DEF Step

(* What a step of c may do to a branch, to a worktree, to the user's tree. *)
Quiet(c) ==
  \/ \E q \in Requests : Begin(c, q)
  \/ Check(c) \/ CheckFail(c) \/ SwitchFail(c) \/ ApplyFail(c) \/ UndoFail(c)
  \/ CommitFail(c) \/ List(c) \/ RemoveFail(c) \/ Kill(c) \/ Interrupt(c)

LEMMA QuietStep ==
  ASSUME NEW c \in Cmds, Quiet(c)
  PROVE  UNCHANGED <<branches, trees, root, disturbed>>
BY DEF Quiet, Begin, Check, CheckFail, SwitchFail, ApplyFail, UndoFail, CommitFail, List,
       RemoveFail, Kill, Interrupt

LEMMA WorkingOn ==
  ASSUME Phases, NEW c \in Cmds, cmd[c].at \in Working \cup {"create"}
  PROVE  Active(c) /\ Kind(c) # "clean"
BY DEF Active, Phases, Phase, Working

LEMMA BranchesMove ==
  ASSUME TypeOK, Phases, Standing, NEW c \in Cmds, Step(c), NEW b \in Names
  PROVE  \/ branches'[b] = branches[b]
         \/ /\ b = BranchOf(c) /\ branches[b] = None /\ branches'[b] # None
            /\ branches'[b].by = c /\ branches'[b].commit = {}
            /\ AddTree(c) \/ AddFail(c) \/ Switch(c)
         \/ /\ b = BranchOf(c) /\ Commit(c) /\ branches[b] # None /\ branches'[b] # None
            /\ branches'[b].by = branches[b].by
         \/ /\ Deletable(b) /\ branches'[b] = None
            /\ \/ b = BranchOf(c) /\ (UndoBranch(c) \/ SweepBranch(c))
               \/ RemoveBranch(c, b)
<1>1. CASE Quiet(c) \/ Apply(c) \/ UndoTree(c) \/ SweepTree(c) \/ \E d \in Names : RemoveTree(c, d)
  BY <1>1, QuietStep DEF Apply, UndoTree, SweepTree, RemoveTree
<1>2. CASE AddTree(c) \/ AddFail(c) \/ Switch(c)
  <2>1. BranchOf(c) \in Names
    BY <1>2, WorkingOn, Branches DEF AddTree, AddFail, Switch, At
  <2>2. branches' = branches \/ (~Exists(BranchOf(c)) /\ branches' = Made(c, BranchOf(c)))
    BY <1>2, AddFailDoes DEF AddTree, Adds, Switch
  <2>3. CASE branches' = branches
    BY <2>3
  <2>4. CASE ~Exists(BranchOf(c)) /\ branches' = Made(c, BranchOf(c))
    <3>1. PICK e \in Names : e = BranchOf(c)
      BY <2>1
    <3>2. branches' = Made(c, e) /\ branches[e] = None
      BY <2>4, <3>1 DEF Exists
    <3>3. /\ branches'[e] # None /\ branches'[e].commit = {} /\ branches'[e].by = c
          /\ \A d \in Names \ {e} : branches'[d] = branches[d]
      BY <3>2, BranchMade
    <3> QED
      BY <1>2, <3>1, <3>2, <3>3
  <2> QED
    BY <2>2, <2>3, <2>4
<1>3. CASE Commit(c)
  <2>1. /\ BranchOf(c) \in Names
        /\ branches[BranchOf(c)] # None /\ branches'[BranchOf(c)] # None
        /\ branches'[BranchOf(c)].by = branches[BranchOf(c)].by
        /\ \A d \in Names \ {BranchOf(c)} : branches'[d] = branches[d]
    BY <1>3, CommitDoes
  <2> QED
    BY <1>3, <2>1
<1>4. ASSUME NEW d \in Names, branches' = Deleted(d), Deletable(d)
      PROVE  (b = d /\ branches'[b] = None /\ Deletable(b)) \/ branches'[b] = branches[b]
  BY <1>4, BranchDeleted
<1>5. CASE UndoBranch(c) \/ SweepBranch(c)
  <2>1. BranchOf(c) \in Names
    BY <1>5, WorkingOn, Branches, SweepsDo DEF UndoBranch, At, Working
  <2>2. \/ branches' = branches
        \/ branches' = Deleted(BranchOf(c)) /\ Deletable(BranchOf(c))
    BY <1>5 DEF UndoBranch, SweepBranch, UndoneBranch
  <2> QED
    BY <1>4, <1>5, <2>1, <2>2
<1>6. CASE \E d \in Names : RemoveBranch(c, d)
  <2>1. PICK d \in Names : RemoveBranch(c, d)
    BY <1>6
  <2> QED
    BY <1>4, <2>1 DEF RemoveBranch
<1> QED
  BY <1>1, <1>2, <1>3, <1>5, <1>6 DEF Step, Quiet

LEMMA TreesMove ==
  ASSUME TypeOK, Phases, Standing, NEW c \in Cmds, Step(c), NEW b \in Names
  PROVE  \/ trees'[b] = trees[b]
         \/ /\ b = BranchOf(c) /\ trees'[b] # None /\ Adds(c) /\ ~Exists(b)
            /\ AddTree(c) \/ AddFail(c)
         \/ /\ b = BranchOf(c) /\ trees'[b] # None /\ trees[b] # None /\ ~InPlace(c)
            /\ Apply(c) \/ Commit(c)
         \/ /\ trees'[b] = None /\ trees[b] # None
            /\ \/ b = BranchOf(c) /\ (UndoTree(c) \/ SweepTree(c)) /\ ~InPlace(c)
               \/ RemoveTree(c, b)
<1>1. CASE \/ Quiet(c) \/ Switch(c) \/ UndoBranch(c) \/ SweepBranch(c)
           \/ \E d \in Names : RemoveBranch(c, d)
  BY <1>1, QuietStep DEF Switch, UndoBranch, SweepBranch, RemoveBranch
<1>2. CASE AddTree(c) \/ AddFail(c)
  <2>1. trees' = trees \/ (Adds(c) /\ ~Exists(BranchOf(c)))
    BY <1>2, AddFailDoes DEF AddTree, Adds
  <2> QED
    BY <1>2, <2>1, AddTreeDoes
<1>3. CASE Apply(c)
  BY <1>3, ApplyDoes
<1>4. CASE Commit(c)
  BY <1>4, CommitDoes
<1>5. CASE UndoTree(c)
  BY <1>5, UndoTreeDoes
<1>6. CASE SweepTree(c)
  <2>1. BranchOf(c) \in Names /\ ~InPlace(c) /\ trees' = [trees EXCEPT ![BranchOf(c)] = None]
    BY <1>6, SweepsDo DEF SweepTree, InPlace
  <2> QED
    BY <1>6, <2>1, TreeSet
<1>7. CASE \E d \in Names : RemoveTree(c, d)
  <2>1. PICK d \in Names : RemoveTree(c, d)
    BY <1>7
  <2> QED
    BY <2>1, TreeSet DEF RemoveTree
<1> QED
  BY <1>1, <1>2, <1>3, <1>4, <1>5, <1>6, <1>7 DEF Step, Quiet

LEMMA RootMoves ==
  ASSUME TypeOK, Phases, Standing, NEW c \in Cmds, Step(c)
  PROVE  \/ root' = root
         \/ /\ InPlace(c) /\ root'.on = root.on /\ root'.home = root.home
            /\ \/ Apply(c) /\ root'.wip = root.wip \cup Recorded(RunOf(c))
               \/ Commit(c) /\ root'.wip = {}
         \/ /\ InPlace(c) /\ Switch(c) /\ root'.on = BranchOf(c) /\ root'.home = root.home
            /\ root.wip \cap {"file"} \subseteq root'.wip
            /\ ~cmd[c].ask.force => root'.wip = root.wip
         \/ /\ InPlace(c) /\ UndoTree(c) /\ root'.on = cmd[c].prev /\ root'.home = root.home
            /\ root.wip \cap {"file"} \subseteq root'.wip
            /\ cmd[c].prev \in Names => Exists(cmd[c].prev)
<1>1. CASE \/ Quiet(c) \/ AddTree(c) \/ AddFail(c) \/ UndoBranch(c) \/ SweepTree(c) \/ SweepBranch(c)
           \/ \E b \in Names : RemoveTree(c, b) \/ RemoveBranch(c, b)
  BY <1>1, QuietStep
  DEF AddTree, AddFail, UndoBranch, SweepTree, SweepBranch, RemoveTree, RemoveBranch
<1>2. CASE Switch(c)
  BY <1>2, SwitchDoes
<1>3. CASE Apply(c)
  BY <1>3, ApplyDoes
<1>4. CASE Commit(c)
  BY <1>4, CommitDoes
<1>5. CASE UndoTree(c)
  BY <1>5, UndoTreeDoes
<1> QED
  BY <1>1, <1>2, <1>3, <1>4, <1>5 DEF Step, Quiet

(* What a step of c leaves it working on.                                  *)
LEMMA StillWorking ==
  ASSUME TypeOK, Phases, NEW c \in Cmds, Step(c), cmd'[c].at \in Working
  PROVE  /\ Active(c) /\ Kind(c) # "clean" /\ SameJob(c)
         /\ BranchOf(c)' = BranchOf(c) /\ Kind(c)' = Kind(c) /\ (InPlace(c)' <=> InPlace(c))
         /\ \/ /\ cmd[c].at \in Working /\ cmd'[c].prev = cmd[c].prev /\ cmd'[c].saw = cmd[c].saw
               /\ cmd'[c].at # "unbranch" => cmd[c].at = "apply"
               /\ cmd[c].at \in {"apply", "untree"}
               /\ Apply(c) \/ ApplyFail(c) \/ UndoTree(c)
            \/ /\ cmd[c].at = "create" /\ cmd'[c].at = "apply"
               /\ (AddTree(c) /\ cmd'[c].saw = cmd[c].saw) \/ Switch(c)
<1> USE DEF Working
<1>1. /\ cmd'[c].at \notin {"ended", "sweep", "unsweep", "check", "create", "list", "remove", "idle"}
      /\ cmd[c].job \in 1 .. 2 /\ cmd[c].job - 1 \in 0 .. 2
  BY DEF TypeOK, Command
<1>2. \A out : ~Ended(c, out)
  <2> SUFFICES ASSUME NEW out, Ended(c, out) PROVE FALSE
    OBVIOUS
  <2>1. cmd'[c] = Fresh(cmd[c].ask, "ended", out)
    BY DEF Ended, TypeOK
  <2> QED
    BY <1>1, <2>1 DEF Fresh
<1>3. \A n \in 0 .. 2 : ~Sweep(c, n)
  BY <1>1, Sweeping
<1>4. \A out : ~Fail(c, out)
  BY <1>1, <1>2, <1>3 DEF Fail
<1>5. /\ ~\E q \in Requests : Begin(c, q)
      /\ ~Check(c) /\ ~CheckFail(c) /\ ~AddFail(c) /\ ~SwitchFail(c) /\ ~UndoBranch(c)
      /\ ~UndoFail(c) /\ ~CommitFail(c) /\ ~SweepTree(c) /\ ~SweepBranch(c) /\ ~RemoveFail(c)
      /\ ~Kill(c) /\ ~Interrupt(c) /\ ~List(c)
  <2>1. ~\E q \in Requests : Begin(c, q)
    BY <1>1, BeginFacts
  <2>2. ~Check(c) /\ ~List(c)
    BY <1>1, CheckFacts, ListFacts
  <2>3. ~SweepTree(c)
    BY <1>1, Going DEF SweepTree, Places
  <2> QED
    BY <1>1, <1>2, <1>3, <1>4, <2>1, <2>2, <2>3
    DEF CheckFail, AddFail, SwitchFail, UndoBranch, UndoFail, CommitFail, SweepBranch,
        RemoveFail, Kill, Interrupt
<1>6. ~Commit(c) /\ ~\E b \in Names : RemoveTree(c, b) \/ RemoveBranch(c, b)
  BY <1>1, <1>2, CommitFacts, RemoveFacts DEF Commit
<1>7. AddTree(c) \/ Switch(c) \/ Apply(c) \/ ApplyFail(c) \/ UndoTree(c)
  BY <1>5, <1>6 DEF Step
<1>8. Active(c) /\ Kind(c) # "clean" /\ Active(c)'
  BY <1>1, <1>7, WorkingOn DEF AddTree, Switch, Apply, ApplyFail, UndoTree, At, Active
<1>9. /\ SameJob(c)
      /\ \/ /\ cmd[c].at \in Working /\ cmd'[c].prev = cmd[c].prev /\ cmd'[c].saw = cmd[c].saw
            /\ cmd'[c].at # "unbranch" => cmd[c].at = "apply"
            /\ cmd[c].at \in {"apply", "untree"}
            /\ Apply(c) \/ ApplyFail(c) \/ UndoTree(c)
         \/ /\ cmd[c].at = "create" /\ cmd'[c].at = "apply"
            /\ (AddTree(c) /\ cmd'[c].saw = cmd[c].saw) \/ Switch(c)
  <2>1. CASE Switch(c)
    BY <2>1, SwitchFacts DEF Switch, At
  <2>2. CASE AddTree(c) \/ ApplyFail(c) \/ UndoTree(c)
    BY <2>2, Going DEF AddTree, ApplyFail, UndoTree, At, Places
  <2>3. CASE Apply(c)
    BY <1>2, <2>3, Going DEF Apply, At, Places
  <2> QED
    BY <1>7, <2>1, <2>2, <2>3
<1> QED
  BY <1>8, <1>9 DEF SameJob, BranchOf, Kind, InPlace, RunOf

LEMMA Reached ==
  ASSUME TypeOK, Phases, NEW c \in Cmds, Step(c)
  PROVE  /\ cmd'[c].at = "create" => Check(c)
         /\ cmd'[c].at = "unsweep" => SweepTree(c)
<1>1. cmd[c].job \in 1 .. 2 /\ cmd[c].job - 1 \in 0 .. 2
  BY DEF TypeOK, Command
<1>2. ASSUME NEW out, Ended(c, out) PROVE cmd'[c].at = "ended"
  <2>1. cmd'[c] = Fresh(cmd[c].ask, "ended", out)
    BY <1>2 DEF Ended, TypeOK
  <2> QED
    BY <2>1 DEF Fresh
<1>3. ASSUME NEW n \in 0 .. 2, Sweep(c, n) PROVE cmd'[c].at \in {"sweep", "ended"}
  BY <1>3, Sweeping
<1>4. ASSUME NEW out, Fail(c, out) PROVE cmd'[c].at \in {"sweep", "ended"}
  BY <1>1, <1>2, <1>3, <1>4 DEF Fail
<1>5. CASE \E q \in Requests : Begin(c, q)
  BY <1>5, BeginFacts
<1>6. CASE CheckFail(c) \/ AddFail(c) \/ SwitchFail(c) \/ UndoBranch(c) \/ UndoFail(c) \/ CommitFail(c)
  BY <1>1, <1>2, <1>3, <1>4, <1>6
  DEF CheckFail, AddFail, SwitchFail, UndoBranch, UndoFail, CommitFail
<1>7. CASE AddTree(c) \/ ApplyFail(c) \/ UndoTree(c)
  BY <1>7, Going DEF AddTree, ApplyFail, UndoTree, Places
<1>8. CASE Apply(c)
  BY <1>2, <1>8, Going DEF Apply, Places
<1>9. CASE Commit(c)
  BY <1>2, <1>9, CommitFacts DEF Commit
<1>10. CASE SweepBranch(c) \/ Interrupt(c) \/ RemoveFail(c) \/ Kill(c)
  BY <1>1, <1>2, <1>3, <1>10 DEF SweepBranch, Interrupt, RemoveFail, Kill
<1>11. CASE List(c) \/ \E b \in Names : RemoveTree(c, b) \/ RemoveBranch(c, b)
  BY <1>11, ListFacts, RemoveFacts
<1>12. CASE Check(c) \/ Switch(c) \/ SweepTree(c)
  BY <1>12, CheckFacts, SwitchFacts, Going DEF SweepTree, Places
<1> QED
  BY <1>5, <1>6, <1>7, <1>8, <1>9, <1>10, <1>11, <1>12 DEF Step

(* Only one checkout works in the user's tree: it was begun alone.         *)
LEMMA StillInPlace ==
  ASSUME TypeOK, Phases, Standing, NEW c \in Cmds, Step(c)
  PROVE  /\ \A d, e \in Cmds : InPlace(d)' /\ InPlace(e)' => d = e
         /\ cmd[c].at # "idle" /\ InPlace(c)' => InPlace(c)
         /\ \A d \in Cmds \ {c} : InPlace(d)' => InPlace(d)
<1>1. Typed(c) /\ (cmd[c].at # "idle" => cmd'[c].ask = cmd[c].ask)
  BY StepTyped
<1>2. \A d \in Cmds \ {c} : InPlace(d)' <=> InPlace(d)
  BY <1>1, OthersStay DEF Typed
<1>3. CASE cmd[c].at # "idle"
  <2>1. InPlace(c)' => InPlace(c)
    BY <1>1, <1>3, StepFrom DEF InPlace, Kind
  <2> QED
    BY <1>2, <1>3, <2>1 DEF Standing
<1>4. CASE cmd[c].at = "idle"
  <2>1. PICK q \in Requests : Begin(c, q)
    BY <1>4, StepFrom DEF Active
  <2>2. cmd'[c].ask = q
    BY <2>1, BeginFacts
  <2>3. InPlace(c)' => ~\E d \in Cmds : InPlace(d)
    BY <2>1, <2>2 DEF InPlace, Kind, Begin
  <2> QED
    BY <1>2, <1>4, <2>3 DEF Standing
<1> QED
  BY <1>3, <1>4

LEMMA StepStanding ==
  ASSUME TypeOK, Phases, Standing, NEW c \in Cmds, Step(c)
  PROVE  Standing'
<1>1. ASSUME NEW b \in Names, root.on = b
      PROVE  branches'[b] # None
  <2>1. branches[b] # None /\ ~Deletable(b)
    BY <1>1 DEF Standing, Deletable, CheckedOut, Exists
  <2> QED
    BY <2>1, BranchesMove
<1>2. /\ \A d, e \in Cmds : InPlace(d)' /\ InPlace(e)' => d = e
      /\ cmd[c].at # "idle" /\ InPlace(c)' => InPlace(c)
      /\ \A d \in Cmds \ {c} : InPlace(d)' => InPlace(d)
  BY StillInPlace
<1>3. Others(c) /\ \A d \in Cmds \ {c} : BranchOf(d)' = BranchOf(d)
  BY StepTyped, OthersStay DEF Typed
<1>4. CASE root'.on = root.on /\ root'.home = root.home /\ ~Switch(c) /\ ~(InPlace(c) /\ UndoTree(c))
  <2>1. ASSUME NEW d \in Cmds, InPlace(d)', cmd'[d].at \in Working
        PROVE  /\ InPlace(d) /\ cmd[d].at \in Working /\ cmd'[d].prev = cmd[d].prev
               /\ BranchOf(d)' = BranchOf(d)
               /\ cmd'[d].at # "unbranch" => cmd[d].at # "unbranch"
    <3>1. CASE d # c
      BY <1>2, <1>3, <2>1, <3>1 DEF Others
    <3>2. CASE d = c
      <4>1. ~AddTree(c)
        <5>1. ASSUME AddTree(c) PROVE FALSE
          <6>1. ~InPlace(c) /\ cmd[c].at # "idle"
            BY <5>1 DEF AddTree, At
          <6> QED
            BY <1>2, <2>1, <3>2, <6>1
        <5> QED
          BY <5>1
      <4> QED
        BY <1>4, <2>1, <3>2, <4>1, StillWorking
    <3> QED
      BY <3>1, <3>2
  <2>2. root'.on \in Names => Exists(root.on)' /\ root'.on.by = None
    BY <1>1, <1>4 DEF Standing, Exists
  <2> QED
    BY <1>2, <1>4, <2>1, <2>2 DEF Standing
<1>5. CASE Switch(c)
  <2>1. /\ InPlace(c) /\ BranchOf(c) \in Names /\ Kind(c) = "checkout" /\ Active(c)
        /\ root'.on = BranchOf(c) /\ root'.home = root.home
    BY <1>5, SwitchDoes
  <2>2. cmd'[c].at = "apply" /\ cmd'[c].prev = root.on
    BY <1>5, SwitchFacts
  <2>3. BranchOf(c)' = BranchOf(c)
    BY <1>5, <2>2, StillWorking DEF Working
  <2>4. branches'[BranchOf(c)] # None /\ BranchOf(c).by = None
    <3>1. branches' = Made(c, BranchOf(c))
      BY <1>5 DEF Switch
    <3>2. branches'[BranchOf(c)] # None
      BY <2>1, <3>1, BranchMade
    <3> QED
      BY <2>1, <3>2, Branches
  <2>5. \A d \in Cmds \ {c} : ~InPlace(d)'
    BY <1>2, <2>1 DEF Standing
  <2> QED
    BY <1>2, <2>1, <2>2, <2>3, <2>4, <2>5 DEF Standing, Exists, Working
<1>6. CASE InPlace(c) /\ UndoTree(c)
  <2>1. /\ root'.on = cmd[c].prev /\ root'.home = root.home
        /\ cmd[c].prev \in Names => Exists(cmd[c].prev)
    BY <1>6, UndoTreeDoes
  <2>2. cmd[c].at = "untree" /\ cmd'[c].at = "unbranch" /\ cmd'[c].prev = cmd[c].prev
    BY <1>6, Going DEF UndoTree, At, Places
  <2>3. \A d \in Cmds \ {c} : ~InPlace(d)'
    BY <1>2, <1>6 DEF Standing
  <2>4. /\ cmd[c].prev \in Names => cmd[c].prev.by = None
        /\ cmd[c].prev # root.home => cmd[c].prev \in Names
    BY <1>6, <2>2 DEF Standing, Working
  <2>5. branches' = branches
    BY <1>6 DEF UndoTree
  <2> QED
    BY <1>2, <2>1, <2>2, <2>3, <2>4, <2>5 DEF Standing, Exists
<1> QED
  BY <1>4, <1>5, <1>6, RootMoves

LEMMA StepLooked ==
  ASSUME TypeOK, Phases, Standing, Looked, NEW c \in Cmds, Step(c)
  PROVE  Looked'
<1> SUFFICES ASSUME NEW d \in Cmds, InPlace(d)'
             PROVE  /\ cmd'[d].at = "create" /\ ~cmd'[d].ask.force =>
                         cmd'[d].saw = {} /\ root'.wip \subseteq {"edit", "file"}
                    /\ cmd'[d].at \in Working => "edit" \notin cmd'[d].saw
  BY DEF Looked
<1>1. CASE d # c
  <2>1. InPlace(d) /\ cmd'[d] = cmd[d]
    BY <1>1, StillInPlace, StepTyped DEF Typed, Others
  <2>2. root' = root
    BY <1>1, <2>1, RootMoves DEF Standing
  <2> QED
    BY <2>1, <2>2 DEF Looked
<1>2. CASE d = c /\ cmd'[c].at = "create"
  <2>1. Check(c)
    BY <1>2, Reached
  <2>2. /\ cmd'[c].saw = root.wip \ Runs /\ cmd'[c].ask = cmd[c].ask /\ root' = root
        /\ Kind(c) = "checkout" /\ ~cmd[c].ask.worktree
    <3>1. cmd[c].at # "idle" /\ root' = root
      BY <2>1 DEF Check, At
    <3> QED
      BY <1>2, <2>1, <3>1, CheckFacts, StillInPlace DEF SameJob, InPlace
  <2>3. ~cmd[c].ask.force => root.wip = {}
    BY <2>1, <2>2 DEF Check, Refused, DirtyRoot
  <2> QED
    BY <1>2, <2>2, <2>3 DEF Working
<1>3. CASE d = c /\ cmd'[c].at \in Working
  <2>1. InPlace(c)
    BY <1>3, StillWorking
  <2>2. CASE Switch(c)
    <3>1. /\ cmd[c].at = "create" /\ cmd'[c].saw = cmd[c].saw \cap root'.wip
          /\ cmd[c].ask.force => "edit" \notin root'.wip
      BY <2>2, SwitchFacts, SwitchDoes DEF Switch, At
    <3> QED
      BY <1>3, <2>1, <3>1 DEF Looked, Working
  <2>3. CASE ~Switch(c)
    <3>1. ~AddTree(c)
      BY <2>1 DEF AddTree
    <3>2. cmd[c].at \in Working /\ cmd'[c].saw = cmd[c].saw
      BY <1>3, <2>3, <3>1, StillWorking
    <3> QED
      BY <1>3, <2>1, <3>2 DEF Looked, Working
  <2> QED
    BY <2>2, <2>3
<1> QED
  BY <1>1, <1>2, <1>3

(* A branch that c made and that is there after its step is still c's.     *)
LEMMA StillMine ==
  ASSUME TypeOK, Phases, Standing, Swept, NEW c \in Cmds, Step(c), Active(c),
         NEW b \in Names, Mine(c, b), branches[b] # None, branches'[b] # None
  PROVE  IF Active(c)' THEN Mine(c, b)' ELSE Excused(c)'
<1>1. /\ cmd[c].job \in 1 .. 2 /\ cmd[c].job - 1 \in 0 .. 2
      /\ cmd[c].ask \in Requests /\ Phase(c) /\ Active(c)
  BY DEF TypeOK, Command, Phases, Phase, Active
<1>2. CASE Kind(c) # "diff"
  <2>1. Kind(c) = "checkout" /\ cmd[c].at \in Working /\ b = BranchOf(c)
    BY <1>2 DEF Mine
  <2>2. CASE cmd'[c].at \in Working
    BY <2>1, <2>2, StillWorking DEF Mine, Active, Working
  <2>3. CASE Kill(c)
    BY <2>3, Ending DEF Kill, Excused, Active
  <2>4. CASE UndoBranch(c)
    BY <2>1, <2>4, BranchDeleted DEF UndoBranch, UndoneBranch
  <2>5. ASSUME NEW out \in {"done", "broke"}, Ended(c, out)
        PROVE  Excused(c)' /\ ~Active(c)'
    BY <2>1, <2>5, Ending DEF Excused, Kind, Active
  <2>6. CASE UndoFail(c) \/ CommitFail(c) \/ Commit(c)
    BY <1>2, <2>5, <2>6 DEF UndoFail, CommitFail, Commit, Fail
  <2>7. CASE Apply(c) \/ ApplyFail(c) \/ UndoTree(c)
    <3>1. cmd'[c].at \in Working \/ Ended(c, "done")
      BY <1>2, <2>7, Going DEF Apply, ApplyFail, UndoTree, Working, Places
    <3> QED
      BY <2>2, <2>5, <3>1
  <2>8. CASE ~(Kill(c) \/ UndoBranch(c) \/ UndoFail(c) \/ CommitFail(c) \/ Commit(c)
               \/ Apply(c) \/ ApplyFail(c) \/ UndoTree(c))
    BY <1>1, <2>1, <2>8
    DEF Step, Begin, Check, CheckFail, AddTree, AddFail, Switch, SwitchFail, SweepTree,
        SweepBranch, List, RemoveTree, RemoveBranch, RemoveFail, Interrupt, At, Working
  <2> QED
    BY <2>3, <2>4, <2>5, <2>6, <2>7, <2>8
<1>3. CASE Kind(c) = "diff"
  <2>1. /\ b.by = c /\ b.side \in 1 .. cmd[c].job /\ b.run = cmd[c].ask.runs[b.side]
        /\ cmd[c].at \in {"check", "create"} => b.side # cmd[c].job
    BY <1>3 DEF Mine
  <2>2. cmd'[c].ask = cmd[c].ask /\ Kind(c)' = "diff"
    BY <1>1, <1>3, StepTyped DEF Active, Kind
  <2>3. ASSUME Active(c)', b.side \in 1 .. cmd'[c].job,
               cmd'[c].at \in {"check", "create"} => b.side # cmd'[c].job
        PROVE  IF Active(c)' THEN Mine(c, b)' ELSE Excused(c)'
    BY <2>1, <2>2, <2>3 DEF Mine
  <2>4. ASSUME Sweep(c, cmd[c].job)
        PROVE  IF Active(c)' THEN Mine(c, b)' ELSE Excused(c)'
    <3>1. cmd'[c].at = "sweep" /\ cmd'[c].job = cmd[c].job
      BY <1>1, <2>4, Sweeping
    <3> QED
      BY <2>1, <2>3, <3>1 DEF Active
  <2>5. ASSUME Sweep(c, cmd[c].job - 1), b.side # cmd[c].job
        PROVE  IF Active(c)' THEN Mine(c, b)' ELSE Excused(c)'
    <3>1. cmd[c].job - 1 # 0 /\ b.side \in 1 .. cmd[c].job - 1
      BY <1>1, <2>1, <2>5
    <3>2. cmd'[c].at = "sweep" /\ cmd'[c].job = cmd[c].job - 1
      BY <1>1, <2>5, <3>1, Sweeping
    <3> QED
      BY <2>3, <3>1, <3>2 DEF Active
  <2>6. CASE Check(c)
    BY <2>1, <2>3, <2>6, CheckFacts DEF Check, At, SameJob, Active
  <2>7. CASE CheckFail(c)
    BY <1>3, <2>1, <2>5, <2>7 DEF CheckFail, At
  <2>8. CASE AddTree(c) \/ ApplyFail(c) \/ UndoTree(c) \/ SweepTree(c)
    <3>1. SameJob(c) /\ cmd'[c].at \in {"apply", "untree", "unbranch", "unsweep"}
      BY <2>8, Going DEF AddTree, ApplyFail, UndoTree, SweepTree, Places
    <3> QED
      BY <2>1, <2>3, <3>1 DEF SameJob, Active
  <2>9. CASE AddFail(c) \/ UndoBranch(c) \/ UndoFail(c) \/ CommitFail(c)
    BY <1>3, <2>4, <2>9 DEF AddFail, UndoBranch, UndoFail, CommitFail, Fail
  <2>10. CASE Apply(c)
    <3>1. SameJob(c) /\ cmd'[c].at = "commit"
      BY <1>3, <2>10, Going DEF Apply, Places
    <3> QED
      BY <2>1, <2>3, <3>1 DEF SameJob, Active
  <2>11. CASE Commit(c)
    <3>1. /\ cmd'[c].at = IF cmd[c].job = 2 THEN "sweep" ELSE "check"
          /\ cmd'[c].job = 2
      BY <1>3, <2>11, CommitFacts
    <3>2. b.side \in 1 .. 2 /\ (cmd[c].job # 2 => b.side # 2)
      BY <1>1, <2>1
    <3> QED
      BY <2>3, <3>1, <3>2 DEF Active
  <2>12. CASE SweepBranch(c)
    <3>1. b.side # cmd[c].job
      <4> SUFFICES ASSUME b.side = cmd[c].job PROVE FALSE
        OBVIOUS
      <4>1. /\ BranchOf(c) \in Names /\ BranchOf(c).by = c /\ BranchOf(c).side = cmd[c].job
            /\ BranchOf(c).run = cmd[c].ask.runs[cmd[c].job]
        BY <1>1, <1>3, Branches
      <4>2. b = BranchOf(c) /\ b.by # None
        BY <2>1, <4>1, NamesAre
      <4>3. trees[b] = None /\ root.on # b
        BY <2>12, <4>2 DEF SweepBranch, At, Swept, Standing
      <4>4. branches' = Deleted(b)
        BY <2>12, <4>2, <4>3 DEF SweepBranch, Deletable, CheckedOut, Exists
      <4> QED
        BY <4>4, BranchDeleted
    <3> QED
      BY <2>5, <2>12, <3>1 DEF SweepBranch
  <2>13. CASE Kill(c)
    BY <2>13, Ending DEF Kill, Excused, Active
  <2>14. CASE Interrupt(c)
    BY <2>1, <2>4, <2>5, <2>14 DEF Interrupt, At
  <2>15. ~\/ \E q \in Requests : Begin(c, q)
          \/ Switch(c) \/ SwitchFail(c) \/ List(c) \/ RemoveFail(c)
          \/ \E d \in Names : RemoveTree(c, d) \/ RemoveBranch(c, d)
    BY <1>1, <1>3
    DEF Phase, Active, Begin, Switch, SwitchFail, InPlace, List, RemoveFail, RemoveTree,
        RemoveBranch, At, Working
  <2> QED
    BY <2>6, <2>7, <2>8, <2>9, <2>10, <2>11, <2>12, <2>13, <2>14, <2>15 DEF Step
<1> QED
  BY <1>2, <1>3

LEMMA DisturbedGrows ==
  ASSUME NEW c \in Cmds, Step(c)
  PROVE  /\ disturbed \subseteq disturbed'
         /\ \A b \in Names :
              /\ RemoveTree(c, b) \/ RemoveBranch(c, b)
              /\ Exists(b) /\ Active(branches[b].by)
              => b \in disturbed'
BY DEF Step, Begin, Check, CheckFail, AddTree, AddFail, Switch, SwitchFail, Apply,
       ApplyFail, UndoTree, UndoBranch, UndoFail, Commit, CommitFail, SweepTree, SweepBranch,
       List, RemoveTree, RemoveBranch, RemoveFail, Kill, Interrupt, Disturbs

LEMMA StepAccounted ==
  ASSUME TypeOK, Phases, Standing, Books, NEW c \in Cmds, Step(c)
  PROVE  Accounted'
<1> SUFFICES ASSUME NEW b \in Names, b \notin disturbed', branches'[b] # None,
                    NEW d, d = branches'[b].by
             PROVE  IF Active(d)' THEN Mine(d, b)' ELSE Excused(d)'
  BY DEF Accounted, Exists
<1>1. d = branches'[b].by
  OBVIOUS
<1>2. b \in Names /\ b \notin disturbed
  BY DisturbedGrows
<1>3. CASE branches[b] # None /\ branches'[b].by = branches[b].by
  <2>1. d \in Cmds /\ (IF Active(d) THEN Mine(d, b) ELSE Excused(d))
    BY <1>1, <1>2, <1>3 DEF Books, Accounted, Exists, TypeOK, Branch
  <2>2. CASE d # c
    BY <1>1, <2>1, <2>2, StepTyped, OthersStay DEF Typed
  <2>3. CASE d = c
    <3>1. Active(c)
      <4>1. CASE ~Active(c)
        <5>1. cmd[c].at = "idle"
          BY <4>1, StepFrom
        <5>2. cmd[c].out = "none" /\ Excused(c)
          BY <2>1, <2>3, <4>1, <5>1 DEF Phases, Phase
        <5> QED
          BY <4>1, <5>2 DEF Excused
      <4> QED
        BY <4>1
    <3> QED
      BY <1>1, <1>2, <1>3, <2>1, <2>3, <3>1, StillMine DEF Books
  <2> QED
    BY <1>1, <2>2, <2>3
<1>4. CASE /\ b = BranchOf(c) /\ branches'[b].by = c
           /\ AddTree(c) \/ AddFail(c) \/ Switch(c)
  <2>1. Active(c) /\ Kind(c) # "clean" /\ cmd[c].at = "create" /\ cmd[c].job \in 1 .. 2
    BY <1>4, WorkingOn DEF AddTree, AddFail, Switch, At, TypeOK, Command
  <2>2. /\ Kind(c) = "checkout" \/ Kind(c) = "diff"
        /\ Kind(c) = "diff" => b.by = c /\ b.side = cmd[c].job /\ b.run = cmd[c].ask.runs[cmd[c].job]
    BY <1>4, <2>1, Branches
  <2>3. CASE AddTree(c) \/ Switch(c)
    <3>1. cmd'[c].at = "apply" /\ SameJob(c)
      BY <2>3, Going, SwitchFacts DEF AddTree, Places
    <3>2. BranchOf(c)' = BranchOf(c) /\ Kind(c)' = Kind(c)
      BY <3>1 DEF SameJob, BranchOf, Kind, RunOf
    <3> QED
      BY <1>4, <2>1, <2>2, <3>1, <3>2 DEF Mine, Working, Active, SameJob
  <2>4. CASE AddFail(c)
    <3>1. Fail(c, "broke")
      BY <2>4 DEF AddFail
    <3>2. CASE Kind(c) = "diff"
      BY <1>4, <2>1, <2>2, <3>1, <3>2, Failing DEF SameJob, Mine, Active, Kind
    <3>3. CASE Kind(c) = "checkout"
      BY <1>4, <2>1, <2>2, <3>1, <3>3, Failing DEF Excused, Active, Kind
    <3> QED
      BY <2>2, <3>2, <3>3
  <2> QED
    BY <1>4, <2>3, <2>4
<1> QED
  BY <1>2, <1>3, <1>4, BranchesMove

LEMMA StepBooks ==
  ASSUME TypeOK, Phases, Standing, Books, NEW c \in Cmds, Step(c)
  PROVE  Books'
<1>1. Temporary'
  <2> SUFFICES ASSUME NEW b \in Names, branches'[b] # None, b.by # None
               PROVE  branches'[b].by = b.by
    BY DEF Temporary, Exists
  <2>1. CASE branches[b] # None /\ branches'[b].by = branches[b].by
    BY <2>1 DEF Books, Temporary, Exists
  <2>2. CASE b = BranchOf(c) /\ branches'[b].by = c /\ (AddTree(c) \/ AddFail(c) \/ Switch(c))
    <3>1. Active(c) /\ Kind(c) # "clean"
      BY <2>2, WorkingOn DEF AddTree, AddFail, Switch, At
    <3> QED
      BY <2>2, <3>1, Branches
  <2> QED
    BY <2>1, <2>2, BranchesMove
<1>2. Holding'
  <2> SUFFICES ASSUME NEW d \in Cmds, cmd'[d].at \in Working, Kind(d)' = "checkout",
                      BranchOf(d)' \notin disturbed'
               PROVE  Holds(d)'
    BY DEF Holding
  <2>1. CASE d # c
    <3>1. /\ cmd[d].at \in Working /\ Kind(d) = "checkout" /\ BranchOf(d)' = BranchOf(d)
          /\ Active(d)
      BY <2>1, StepTyped, OthersStay DEF Typed, Active, Working
    <3>2. PICK b \in Names : b = BranchOf(d)
      BY <3>1, Branches
    <3>3. branches[b] # None /\ branches[b].by = d /\ b.by = None /\ b \notin disturbed
      BY <3>1, <3>2, Branches, DisturbedGrows DEF Books, Holding, Holds, Exists
    <3>4. branches'[b] # None /\ branches'[b].by = d
      <4>1. ~RemoveBranch(c, b)
        BY <3>1, <3>2, <3>3, DisturbedGrows DEF Exists
      <4>2. ~(b = BranchOf(c) /\ SweepBranch(c))
        BY <3>3, SweepsDo, Branches, NamesAre
      <4>3. ~(b = BranchOf(c) /\ UndoBranch(c))
        <5> SUFFICES ASSUME b = BranchOf(c), UndoBranch(c) PROVE FALSE
          OBVIOUS
        <5>1. cmd[c].at = "unbranch" /\ Active(c) /\ Kind(c) # "clean"
          BY WorkingOn DEF UndoBranch, At, Working
        <5>2. Kind(c) = "checkout"
          BY <3>3, <5>1, Branches, NamesAre
        <5>3. branches[b].by = c
          BY <3>3, <5>1, <5>2 DEF Books, Holding, Holds, Working
        <5> QED
          BY <2>1, <3>3, <5>3
      <4> QED
        BY <3>3, <4>1, <4>2, <4>3, BranchesMove
    <3> QED
      BY <3>1, <3>2, <3>4 DEF Holds, Exists
  <2>2. CASE d = c
    <3>1. /\ Active(c) /\ Kind(c) = "checkout" /\ BranchOf(c)' = BranchOf(c)
          /\ \/ cmd[c].at \in {"apply", "untree"} /\ (Apply(c) \/ ApplyFail(c) \/ UndoTree(c))
             \/ AddTree(c) \/ Switch(c)
      BY <2>2, StillWorking
    <3>2. PICK b \in Names : b = BranchOf(c)
      BY <3>1, Branches
    <3>3. CASE AddTree(c) \/ Switch(c)
      <4>1. branches' = Made(c, b)
        BY <3>2, <3>3 DEF AddTree, Switch
      <4>2. branches'[b] # None /\ branches'[b].by = c
        BY <4>1, BranchMade
      <4> QED
        BY <2>2, <3>1, <3>2, <4>2 DEF Holds, Exists
    <3>4. CASE cmd[c].at \in {"apply", "untree"} /\ (Apply(c) \/ ApplyFail(c) \/ UndoTree(c))
      <4>1. branches' = branches
        BY <3>4 DEF Apply, ApplyFail, UndoTree
      <4>2. b \notin disturbed
        BY <2>2, <3>1, <3>2, DisturbedGrows
      <4>3. Holds(c)
        BY <3>1, <3>2, <3>4, <4>2 DEF Books, Holding, Working
      <4> QED
        BY <2>2, <3>1, <3>2, <4>1, <4>3 DEF Holds, Exists
    <3> QED
      BY <3>1, <3>3, <3>4
  <2> QED
    BY <2>1, <2>2
<1>3. Swept'
  <2> SUFFICES ASSUME NEW d \in Cmds, cmd'[d].at = "unsweep"
               PROVE  trees'[BranchOf(d)'] = None
    BY DEF Swept
  <2>1. CASE d = c
    <3>1. SweepTree(c)
      BY <2>1, Reached
    <3>2. BranchOf(c) \in Names /\ SameJob(c) /\ trees' = [trees EXCEPT ![BranchOf(c)] = None]
      BY <3>1, SweepsDo, Going DEF SweepTree, Places
    <3>3. BranchOf(c)' = BranchOf(c)
      BY <3>2 DEF SameJob, BranchOf, RunOf, Kind
    <3> QED
      BY <2>1, <3>2, <3>3, TreeSet
  <2>2. CASE d # c
    <3>1. cmd[d].at = "unsweep" /\ BranchOf(d)' = BranchOf(d) /\ Active(d)
      BY <2>2, StepTyped, OthersStay DEF Typed, Active
    <3>2. Kind(d) = "diff"
      BY <3>1, Asked DEF Phases, Phase, Kind, Active, Working
    <3>3. PICK b \in Names : b = BranchOf(d) /\ b.by = d /\ trees[b] = None
      BY <3>1, <3>2, Branches DEF Books, Swept
    <3>4. ~(b = BranchOf(c) /\ (AddTree(c) \/ AddFail(c)))
      BY <2>2, <3>3, Branches, WorkingOn, NamesAre DEF AddTree, AddFail, At
    <3> QED
      BY <3>1, <3>3, <3>4, TreesMove
  <2> QED
    BY <2>1, <2>2
<1> QED
  BY <1>1, <1>2, <1>3, StepAccounted DEF Books
-----------------------------------------------------------------------------
(* What the user does, and nothing.                                        *)
User ==
  \/ UNCHANGED vars
  \/ \E x \in {"edit", "file"} : Edit(x)
  \/ GoBack
  \/ \E b \in Names : DeleteDir(b)

LEMMA UserDoes ==
  ASSUME TypeOK, User
  PROVE  /\ UNCHANGED <<branches, cmd, disturbed>>
         /\ trees' \in [Names -> {None} \cup Tree]
         /\ root' \in [on : Stands, home : Stands, wip : SUBSET Changes]
         /\ \A b \in Names :
              /\ trees'[b] = None <=> trees[b] = None
              /\ trees[b] # None => trees'[b].wip = trees[b].wip
         /\ root.wip \subseteq root'.wip /\ root'.wip \subseteq root.wip \cup {"edit", "file"}
         /\ \/ root'.on = root.on /\ root'.home = root.home
            \/ root'.on = Main /\ root'.home = Main /\ ~\E c \in Cmds : InPlace(c)
<1>1. CASE \E x \in {"edit", "file"} : Edit(x)
  <2>1. PICK x \in {"edit", "file"} : Edit(x)
    BY <1>1
  <2>2. PICK wip \in SUBSET Changes : wip = root.wip \cup {x}
    BY DEF TypeOK, Changes
  <2>3. root' = [root EXCEPT !.wip = wip] /\ UNCHANGED <<branches, trees, cmd, disturbed>>
    BY <2>1, <2>2 DEF Edit
  <2> QED
    BY <2>2, <2>3 DEF TypeOK
<1>2. CASE GoBack
  <2>1. /\ root' = [root EXCEPT !.on = Main, !.home = Main] /\ Main \in Stands
        /\ UNCHANGED <<branches, trees, cmd, disturbed>> /\ ~\E c \in Cmds : InPlace(c)
    BY <1>2 DEF GoBack, Stands
  <2> QED
    BY <2>1 DEF TypeOK
<1>3. CASE \E b \in Names : DeleteDir(b)
  <2>1. PICK b \in Names : DeleteDir(b)
    BY <1>3
  <2>2. trees[b] # None /\ trees[b] \in Tree
    BY <2>1 DEF DeleteDir, TypeOK
  <2>3. PICK e : e = [trees[b] EXCEPT !.here = FALSE]
    OBVIOUS
  <2>4. e \in Tree /\ e.wip = trees[b].wip
    BY <2>2, <2>3 DEF Tree
  <2>5. trees' = [trees EXCEPT ![b] = e] /\ UNCHANGED <<branches, root, cmd, disturbed>>
    BY <2>1, <2>3 DEF DeleteDir
  <2>6. /\ trees' \in [Names -> {None} \cup Tree] /\ trees'[b] = e /\ e # None
        /\ \A d \in Names \ {b} : trees'[d] = trees[d]
    BY <2>4, <2>5, TreeSet, NamesAre
  <2> QED
    BY <2>2, <2>4, <2>5, <2>6 DEF TypeOK
<1>4. CASE UNCHANGED vars
  BY <1>4 DEF vars, TypeOK
<1> QED
  BY <1>1, <1>2, <1>3, <1>4 DEF User

LEMMA CmdsStay ==
  ASSUME cmd' = cmd
  PROVE  \A c \in Cmds :
           /\ (Active(c)' <=> Active(c)) /\ Kind(c)' = Kind(c)
           /\ (InPlace(c)' <=> InPlace(c)) /\ BranchOf(c)' = BranchOf(c) /\ RunOf(c)' = RunOf(c)
           /\ (Phase(c)' <=> Phase(c)) /\ (Excused(c)' <=> Excused(c))
           /\ \A b : Mine(c, b)' <=> Mine(c, b)
BY DEF Active, Kind, InPlace, BranchOf, RunOf, Phase, Excused, Mine

LEMMA UserKeeps ==
  ASSUME RInv, User
  PROVE  RInv'
<1>1. TypeOK /\ UNCHANGED <<branches, cmd, disturbed>>
  BY UserDoes DEF RInv
<1>2. TypeOK'
  BY <1>1, UserDoes DEF TypeOK
<1>3. Phases'
  BY <1>1, CmdsStay DEF RInv, Phases
<1>4. Books'
  <2>1. Accounted'
    <3> SUFFICES ASSUME NEW b \in Names, b \notin disturbed', branches'[b] # None,
                        NEW d, d = branches'[b].by
                 PROVE  IF Active(d)' THEN Mine(d, b)' ELSE Excused(d)'
      BY DEF Accounted, Exists
    <3>1. d \in Cmds /\ (IF Active(d) THEN Mine(d, b) ELSE Excused(d))
      BY <1>1 DEF RInv, Books, Accounted, Exists, TypeOK, Branch
    <3> QED
      BY <1>1, <3>1, CmdsStay
  <2>2. Temporary'
    BY <1>1 DEF RInv, Books, Temporary, Exists
  <2>3. Holding'
    BY <1>1, CmdsStay DEF RInv, Books, Holding, Holds, Exists
  <2>4. Swept'
    <3> SUFFICES ASSUME NEW d \in Cmds, cmd'[d].at = "unsweep"
                 PROVE  trees'[BranchOf(d)'] = None
      BY DEF Swept
    <3>1. cmd[d].at = "unsweep" /\ BranchOf(d)' = BranchOf(d) /\ Active(d)
      BY <1>1, CmdsStay DEF Active
    <3>2. Kind(d) # "clean"
      BY <3>1 DEF RInv, Phases, Phase
    <3>3. BranchOf(d) \in Names /\ trees[BranchOf(d)] = None
      BY <1>1, <3>1, <3>2, Branches DEF RInv, Books, Swept
    <3> QED
      BY <1>1, <3>1, <3>3, UserDoes
  <2> QED
    BY <2>1, <2>2, <2>3, <2>4 DEF Books
<1>5. Standing'
  <2>1. CASE root'.on = root.on /\ root'.home = root.home
    BY <1>1, <2>1, CmdsStay DEF RInv, Standing, Exists
  <2>2. CASE root'.on = Main /\ root'.home = Main /\ ~\E c \in Cmds : InPlace(c)
    <3>1. Main \notin Names
      BY ReconstructAssumption
    <3> QED
      BY <1>1, <2>2, <3>1, CmdsStay DEF Standing
  <2> QED
    BY <1>1, <2>1, <2>2, UserDoes
<1>6. Looked'
  BY <1>1, UserDoes, CmdsStay DEF RInv, Looked
<1> QED
  BY <1>2, <1>3, <1>4, <1>5, <1>6 DEF RInv

LEMMA StepKeeps ==
  ASSUME RInv, NEW c \in Cmds, Step(c)
  PROVE  RInv'
<1>1. TypeOK /\ Phases /\ Standing /\ Books /\ Looked
  BY DEF RInv
<1>2. TypeOK'
  <2>1. DataTyped' /\ Typed(c)
    BY <1>1, StepData, StepTyped
  <2> QED
    BY <1>1, <2>1 DEF DataTyped, Typed, TypeOK, Others
<1> QED
  BY <1>1, <1>2, StepPhases, StepBooks, StepStanding, StepLooked DEF RInv

LEMMA Starts ==
  ASSUME Init
  PROVE  RInv
<1>1. \A c \in Cmds :
        cmd[c] = Idle /\ Idle.at = "idle" /\ Idle.out = "none" /\ Idle.made = <<>>
  BY DEF Init, Idle, Fresh
<1>2. Idle \in Command
  <2>1. <<>> \in Seq(SUBSET Changes) /\ Main \in Stands /\ "idle" \in Places
    BY DEF Stands, Places
  <2> QED
    BY <2>1 DEF Idle, Fresh, Command
<1>3. /\ root.on \in {Main, Detached} /\ root.home = root.on /\ root.wip = {}
      /\ root \in [on : Stands, home : Stands, wip : SUBSET Changes]
  BY DEF Init, Stands
<1>4. TypeOK
  BY <1>1, <1>2, <1>3 DEF Init, TypeOK
<1>5. \A c \in Cmds : ~Active(c) /\ ~InPlace(c)
  BY <1>1 DEF Active, InPlace
<1>6. Phases /\ Looked
  BY <1>1, <1>5 DEF Phases, Phase, Looked
<1>7. Books
  BY <1>1, <1>5
  DEF Books, Accounted, Temporary, Holding, Swept, Exists, Init, Working
<1>8. Standing
  <2>1. root.on \notin Names
    BY <1>3, ReconstructAssumption
  <2> QED
    BY <1>3, <1>5, <2>1 DEF Standing
<1> QED
  BY <1>4, <1>6, <1>7, <1>8 DEF RInv

LEMMA Inductive == Spec => []RInv
<1>1. RInv /\ [Next]_vars => RInv'
  BY StepKeeps, UserKeeps DEF Next, User
<1> QED
  BY Starts, <1>1, PTL DEF Spec
-----------------------------------------------------------------------------
(* The state is well-typed, and a worktree is never without its branch.    *)
THEOREM TypeCorrect == Spec => []TypeOK
<1>1. RInv => TypeOK
  BY DEF RInv
<1> QED
  BY <1>1, Inductive, PTL

(* Whatever else runs, is killed or fails: every branch and worktree there *)
(* is has a command that accounts for it, and the user's working tree is   *)
(* where the user put it unless such a command has switched it             *)
(* (_reconstruct and its undoing, the finally of _code_diff).              *)
THEOREM NothingLeftCorrect == Spec => []NothingLeft
<1>1. RInv => NothingLeft
  <2> SUFFICES ASSUME RInv PROVE NothingLeft
    OBVIOUS
  <2>1. ASSUME NEW b \in Names, b \notin disturbed, Exists(b)
        PROVE  Excused(branches[b].by)
    <3>1. PICK d : d = branches[b].by
      OBVIOUS
    <3>2. IF Active(d) THEN Mine(d, b) ELSE Excused(d)
      BY <2>1, <3>1 DEF RInv, Books, Accounted
    <3> QED
      BY <3>1, <3>2 DEF Excused
  <2>2. root.on # root.home => root.on \in Names /\ Exists(root.on)
    BY DEF RInv, Standing
  <2> QED
    BY <2>1, <2>2 DEF NothingLeft
<1> QED
  BY <1>1, Inductive, PTL

LEMMA StepOnlyOwn ==
  ASSUME RInv, NEW c \in Cmds, Step(c), NEW b \in Names, b \notin disturbed,
         (Exists(b) /\ branches'[b] = None) \/ (trees[b] # None /\ trees'[b] = None)
  PROVE  /\ Moving(c)
         /\ \/ c = branches[b].by /\ Active(c)
            \/ Kind(c) = "clean" /\ cmd[c].ask.remove /\ ~b.named
<1>1. TypeOK /\ Phases /\ Standing /\ Books /\ Exists(b)
  BY DEF RInv, TypeOK, Exists
<1>2. CASE RemoveTree(c, b) \/ RemoveBranch(c, b)
  <2>1. cmd[c].at = "remove" /\ Active(c)
    BY <1>2 DEF RemoveTree, RemoveBranch, At, Active
  <2>2. PICK e \in cmd[c].owed : e[1] = b
    BY <1>1, <1>2, RemoveFacts
  <2>3. Kind(c) = "clean"
    BY <1>1, <2>1, Asked DEF Phases, Phase, Kind, Active, Working
  <2>4. Moving(c)
    BY <1>1, <1>2, RemoveFacts DEF Moving
  <2> QED
    BY <1>1, <2>1, <2>2, <2>3, <2>4 DEF Phases, Phase
<1>3. CASE b = BranchOf(c) /\ (UndoTree(c) \/ UndoBranch(c))
  <2>1. cmd[c].at \in {"untree", "unbranch"} /\ Active(c) /\ Kind(c) # "clean"
    BY <1>1, <1>3, WorkingOn DEF UndoTree, UndoBranch, At, Working
  <2>2. branches[b].by = c
    <3>1. CASE Kind(c) = "checkout"
      BY <1>1, <1>3, <2>1, <3>1 DEF Books, Holding, Holds, Working
    <3>2. CASE Kind(c) = "diff"
      BY <1>1, <1>3, <2>1, <3>2, Branches, NamesAre DEF Books, Temporary
    <3> QED
      BY <1>1, <2>1, <3>1, <3>2, Branches
  <2>3. cmd'[c].at # cmd[c].at
    <3>1. CASE UndoTree(c)
      BY <1>1, <3>1, Going DEF UndoTree, At, Places
    <3>2. CASE UndoBranch(c)
      BY <1>1, <3>2, Failing DEF UndoBranch, At
    <3> QED
      BY <1>3, <3>1, <3>2
  <2> QED
    BY <2>1, <2>2, <2>3 DEF Moving
<1>4. CASE b = BranchOf(c) /\ (SweepTree(c) \/ SweepBranch(c))
  <2>1. Active(c) /\ Kind(c) = "diff"
    BY <1>1, <1>4, SweepsDo
  <2>2. branches[b].by = c
    BY <1>1, <1>4, <2>1, Branches, NamesAre DEF Books, Temporary
  <2>3. cmd'[c].at # cmd[c].at
    <3>1. CASE SweepTree(c)
      BY <1>1, <3>1, Going DEF SweepTree, At, Places
    <3>2. CASE SweepBranch(c)
      <4>1. cmd[c].job - 1 \in 0 .. 2
        BY <1>1 DEF TypeOK, Command
      <4> QED
        BY <1>1, <3>2, <4>1, Sweeping DEF SweepBranch, At
    <3> QED
      BY <1>4, <3>1, <3>2
  <2> QED
    BY <2>1, <2>2, <2>3 DEF Moving
<1>5. CASE Exists(b) /\ branches'[b] = None
  BY <1>1, <1>2, <1>3, <1>4, <1>5, BranchesMove DEF Exists
<1>6. CASE trees[b] # None /\ trees'[b] = None
  BY <1>1, <1>2, <1>3, <1>4, <1>6, TreesMove
<1> QED
  BY <1>5, <1>6

(* A worktree or a branch goes by a step of the command that made it, or   *)
(* of a clean --remove of one under runsnap/, whatever runs besides.       *)
THEOREM OnlyOwnCorrect == Spec => OnlyOwn
<1>1. ASSUME RInv, [Next]_vars, NEW b \in Names, b \notin disturbed,
             (Exists(b) /\ branches'[b] = None) \/ (trees[b] # None /\ trees'[b] = None)
      PROVE  \E c \in Cmds :
               /\ Moving(c)
               /\ \/ c = branches[b].by /\ Active(c)
                  \/ Kind(c) = "clean" /\ cmd[c].ask.remove /\ ~b.named
  <2>1. ~User
    BY <1>1, UserDoes DEF RInv, Exists
  <2>2. PICK c \in Cmds : Step(c)
    BY <1>1, <2>1 DEF Next, User
  <2> QED
    BY <1>1, <2>2, StepOnlyOwn
<1>2. RInv /\ [Next]_vars =>
        [\A b \in Names \ disturbed :
           \/ Exists(b) /\ branches'[b] = None
           \/ trees[b] # None /\ trees'[b] = None
           => \E c \in Cmds :
                /\ Moving(c)
                /\ \/ c = branches[b].by /\ Active(c)
                   \/ Kind(c) = "clean" /\ cmd[c].ask.remove /\ ~b.named]_vars
  BY <1>1
<1> QED
  BY <1>2, Inductive, PTL DEF Spec, OnlyOwn

(* Uncommitted work of the user goes only by a checkout in place that was  *)
(* told to force or to commit, or came after it had looked                 *)
(* (_run_code_checkout's test of the working tree).                        *)
THEOREM WorkKeptCorrect == Spec => WorkKept
<1>1. ASSUME RInv, [Next]_vars, NEW x \in root.wip \ (Runs \cup root'.wip)
      PROVE  \E c \in Cmds : /\ InPlace(c) /\ Moving(c)
                             /\ cmd[c].ask.force \/ cmd[c].ask.commit \/ x \notin cmd[c].saw
  <2>1. ~User
    BY <1>1, UserDoes DEF RInv
  <2>2. PICK c \in Cmds : Step(c)
    BY <1>1, <2>1 DEF Next, User
  <2>3. TypeOK /\ Phases /\ Standing /\ Looked
    BY <1>1 DEF RInv
  <2>4. x \in {"edit", "file"} /\ root' # root
    BY <1>1, <2>3 DEF TypeOK, Changes
  <2>5. CASE Commit(c) /\ InPlace(c)
    <3>1. cmd[c].at = "commit" /\ cmd[c].ask.commit
      BY <2>3, <2>5 DEF Commit, At, InPlace, Phases, Phase
    <3>2. Moving(c)
      BY <2>3, <2>5, <3>1, Ending DEF Commit, InPlace, Moving
    <3> QED
      BY <2>5, <3>1, <3>2
  <2>6. CASE Switch(c)
    <3>1. InPlace(c) /\ cmd[c].ask.force /\ cmd[c].at = "create"
      BY <1>1, <2>3, <2>6, SwitchDoes DEF Switch, At
    <3>2. Moving(c)
      BY <2>3, <2>6, <3>1, SwitchFacts DEF Moving
    <3> QED
      BY <3>1, <3>2
  <2>7. CASE InPlace(c) /\ UndoTree(c)
    <3>1. root.wip \cap {"file"} \subseteq root'.wip
      BY <2>3, <2>7, UndoTreeDoes
    <3>2. x = "edit"
      BY <1>1, <2>4, <3>1
    <3>3. cmd[c].at = "untree" /\ "edit" \notin cmd[c].saw
      BY <2>3, <2>7 DEF UndoTree, At, Looked, Working
    <3>4. Moving(c)
      BY <2>3, <2>7, <3>3, Going DEF UndoTree, Moving, Places
    <3> QED
      BY <2>7, <3>2, <3>3, <3>4
  <2> QED
    BY <1>1, <2>2, <2>3, <2>4, <2>5, <2>6, <2>7, RootMoves
<1>2. RInv /\ [Next]_vars =>
        [\A x \in root.wip \ (Runs \cup root'.wip) :
           \E c \in Cmds : /\ InPlace(c) /\ Moving(c)
                           /\ cmd[c].ask.force \/ cmd[c].ask.commit \/ x \notin cmd[c].saw]_vars
  BY <1>1
<1> QED
  BY <1>2, Inductive, PTL DEF Spec, WorkKept
-----------------------------------------------------------------------------
(* What c found out grows only by a commit.                                *)
LEMMA MadeStays ==
  ASSUME TypeOK, Phases, NEW c \in Cmds, Step(c), ~(Commit(c) /\ Kind(c) = "diff"), Active(c)'
  PROVE  cmd'[c].made = cmd[c].made \/ cmd'[c].made = <<>>
<1>1. cmd[c].job \in 1 .. 2 /\ cmd[c].job - 1 \in 0 .. 2
  BY DEF TypeOK, Command
<1>2. \A out : ~Ended(c, out)
  <2> SUFFICES ASSUME NEW out, Ended(c, out) PROVE FALSE
    OBVIOUS
  <2>1. cmd'[c] = Fresh(cmd[c].ask, "ended", out)
    BY DEF Ended, TypeOK
  <2> QED
    BY <2>1 DEF Fresh, Active
<1>3. ASSUME NEW n \in 0 .. 2, Sweep(c, n) PROVE cmd'[c].made = cmd[c].made \/ cmd'[c].made = <<>>
  BY <1>3, Sweeping
<1>4. ASSUME NEW out, Fail(c, out) PROVE cmd'[c].made = cmd[c].made \/ cmd'[c].made = <<>>
  BY <1>1, <1>2, <1>3, <1>4 DEF Fail
<1>5. CASE (\E q \in Requests : Begin(c, q)) \/ Check(c) \/ Switch(c) \/ List(c)
  BY <1>2, <1>5, BeginFacts, CheckFacts, SwitchFacts, ListFacts DEF SameJob, Active
<1>6. CASE CheckFail(c) \/ AddFail(c) \/ SwitchFail(c) \/ UndoBranch(c) \/ UndoFail(c) \/ CommitFail(c)
  BY <1>1, <1>2, <1>3, <1>4, <1>6
  DEF CheckFail, AddFail, SwitchFail, UndoBranch, UndoFail, CommitFail
<1>7. CASE AddTree(c) \/ ApplyFail(c) \/ UndoTree(c) \/ SweepTree(c)
  BY <1>7, Going DEF AddTree, ApplyFail, UndoTree, SweepTree, Places, SameJob
<1>8. CASE Apply(c)
  BY <1>2, <1>8, Going DEF Apply, Places, SameJob
<1>9. CASE Commit(c)
  BY <1>2, <1>9 DEF Commit
<1>10. CASE SweepBranch(c) \/ Interrupt(c) \/ RemoveFail(c) \/ Kill(c)
  BY <1>1, <1>2, <1>3, <1>10 DEF SweepBranch, Interrupt, RemoveFail, Kill
<1>11. CASE \E b \in Names : RemoveTree(c, b)
  BY <1>11, OwingFacts DEF RemoveTree, Owing, SameJob, TypeOK, Command
<1>12. CASE \E b \in Names : RemoveBranch(c, b)
  <2>1. PICK b \in Names : RemoveBranch(c, b)
    BY <1>12
  <2>2. PICK owed : Owing(c, owed) /\ owed \subseteq cmd[c].owed
    BY <1>2, <2>1 DEF RemoveBranch, Owing
  <2> QED
    BY <2>2, OwingFacts DEF SameJob, TypeOK, Command
<1> QED
  BY <1>5, <1>6, <1>7, <1>8, <1>9, <1>10, <1>11, <1>12 DEF Step

LEMMA OwnBranch ==
  ASSUME TypeOK, Phases, NEW c \in Cmds, Active(c), Kind(c) # "clean", Undisturbed(c)
  PROVE  BranchOf(c) \in Names /\ BranchOf(c) \notin disturbed
BY Branches DEF Undisturbed

(* Who works on a branch that is there and that no clean took made it.     *)
LEMMA Whose ==
  ASSUME TypeOK, Phases, Books, NEW c \in Cmds, Active(c), Kind(c) # "clean",
         BranchOf(c) \notin disturbed, branches[BranchOf(c)] # None,
         cmd[c].at \in Working \/ Kind(c) = "diff"
  PROVE  branches[BranchOf(c)].by = c
<1>1. CASE Kind(c) = "checkout"
  BY <1>1 DEF Books, Holding, Holds, Active
<1>2. CASE Kind(c) = "diff"
  BY <1>2, Branches, NamesAre DEF Books, Temporary, Exists
<1> QED
  BY <1>1, <1>2, Branches

(* So another command does not touch it.                                   *)
LEMMA Untouched ==
  ASSUME RInv, NEW c \in Cmds, NEW d \in Cmds, d # c, Step(c), Active(d),
         NEW b \in Names, b \notin disturbed', branches[b] # None, branches[b].by = d
  PROVE  branches'[b] = branches[b] /\ trees'[b] = trees[b]
<1>1. TypeOK /\ Phases /\ Standing /\ Books /\ b \notin disturbed
  BY DisturbedGrows DEF RInv
<1>2. ~RemoveBranch(c, b) /\ ~RemoveTree(c, b)
  BY DisturbedGrows DEF Exists
<1>3. ASSUME b = BranchOf(c),
             \/ UndoBranch(c) \/ SweepBranch(c) \/ Commit(c) \/ Apply(c)
             \/ UndoTree(c) \/ SweepTree(c)
      PROVE  FALSE
  <2>1. Active(c) /\ Kind(c) # "clean" /\ (cmd[c].at \in Working \/ Kind(c) = "diff")
    BY <1>1, <1>3, WorkingOn, SweepsDo DEF UndoBranch, Commit, Apply, UndoTree, At, Working
  <2>2. branches[b].by = c
    BY <1>1, <1>3, <2>1, Whose
  <2> QED
    BY <2>2
<1>4. Exists(b)
  BY DEF Exists
<1>5. branches'[b] = branches[b]
  BY <1>1, <1>2, <1>3, BranchesMove
<1>6. trees'[b] = trees[b]
  BY <1>1, <1>2, <1>3, <1>4, TreesMove
<1> QED
  BY <1>5, <1>6

LEMMA WasUndisturbed ==
  ASSUME TypeOK, Phases, TypeOK', Phases', NEW c \in Cmds, Step(c), Active(c), Active(c)',
         Kind(c) # "clean", Undisturbed(c)'
  PROVE  Undisturbed(c)
<1>1. cmd'[c].ask = cmd[c].ask /\ Kind(c)' = Kind(c)
  BY StepTyped DEF Active, Kind
<1>2. disturbed \subseteq disturbed'
  BY DisturbedGrows
<1>3. CASE Kind(c) = "diff"
  BY <1>2, <1>3, Branches, NamesAre DEF Undisturbed
<1>4. CASE Kind(c) = "checkout"
  <2>1. cmd[c].job = 1 /\ cmd'[c].job = 1
    BY <1>1, <1>4 DEF Phases, Phase
  <2>2. BranchOf(c)' = BranchOf(c)
    BY <1>1, <2>1 DEF BranchOf, RunOf, Kind
  <2> QED
    BY <1>2, <2>2 DEF Undisturbed
<1> QED
  BY <1>3, <1>4, Branches

LEMMA StepContents ==
  ASSUME RInv, Contents, NEW c \in Cmds, Step(c)
  PROVE  Contents'
<1> SUFFICES ASSUME NEW d \in Cmds, Active(d)', Kind(d)' # "clean", Undisturbed(d)'
             PROVE  Found(d)' /\ (cmd'[d].at \in {"apply", "commit"} => Laid(d)')
  BY DEF Contents
<1>1. TypeOK /\ Phases /\ Standing /\ Books /\ Looked /\ TypeOK' /\ Phases'
  BY StepKeeps DEF RInv
<1>2. CASE d # c
  <2>1. /\ Active(d) /\ Kind(d) # "clean" /\ cmd'[d] = cmd[d] /\ BranchOf(d)' = BranchOf(d)
        /\ (InPlace(d)' <=> InPlace(d)) /\ RunOf(d)' = RunOf(d)
    BY <1>1, <1>2, StepTyped, OthersStay DEF Typed, RunOf
  <2>2. Undisturbed(d)
    BY <1>2, <2>1, DisturbedGrows DEF Undisturbed
  <2>3. Found(d) /\ (cmd[d].at \in {"apply", "commit"} => Laid(d))
    BY <2>1, <2>2 DEF Contents
  <2>4. Found(d)'
    BY <2>1, <2>3 DEF Found
  <2>5. ASSUME cmd'[d].at \in {"apply", "commit"} PROVE Laid(d)'
    <3>1. PICK b \in Names : b = BranchOf(d)
      BY <1>1, <2>1, Branches
    <3>2. b \notin disturbed /\ b \notin disturbed'
      <4>1. b \notin disturbed
        BY <1>1, <2>1, <2>2, <3>1, OwnBranch
      <4>2. b.by = None \/ b.by = d
        BY <1>1, <2>1, <3>1, Branches
      <4> QED
        BY <2>1, <3>1, <4>1, <4>2 DEF Undisturbed
    <3>3. branches[b] # None /\ branches[b].by = d
      <4>1. CASE Kind(d) = "checkout"
        BY <2>1, <2>5, <3>1, <3>2, <4>1, <1>1 DEF Books, Holding, Holds, Exists, Working
      <4>2. CASE Kind(d) = "diff"
        <5>1. trees[b] # None /\ b.by = d
          BY <1>1, <2>1, <2>3, <2>5, <3>1, <4>2, Branches DEF Laid, InPlace
        <5> QED
          BY <1>1, <5>1, NamesAre DEF TypeOK, Books, Temporary, Exists
      <4> QED
        BY <1>1, <2>1, <4>1, <4>2, Branches
    <3>4. branches'[b] = branches[b] /\ trees'[b] = trees[b]
      BY <1>2, <2>1, <3>2, <3>3, Untouched
    <3>5. InPlace(d) => root' = root
      BY <1>1, <1>2, RootMoves DEF Standing
    <3> QED
      BY <2>1, <2>3, <2>5, <3>1, <3>4, <3>5 DEF Laid, Lying, Strange
  <2> QED
    BY <2>4, <2>5
<1>3. CASE d = c
  <2>1. Found(c)'
    <3>1. CASE ~(Commit(c) /\ Kind(c) = "diff")
      <4>1. CASE cmd'[c].made = <<>>
        BY <1>3, <4>1 DEF Found
      <4>2. CASE cmd'[c].made = cmd[c].made /\ Active(c)
        <5>1. cmd'[c].ask = cmd[c].ask /\ Kind(c) # "clean"
          BY <1>1, <1>3, <4>2, StepTyped DEF Active, Kind
        <5>2. Undisturbed(c)
          BY <1>1, <1>3, <4>2, <5>1, WasUndisturbed
        <5> QED
          BY <4>2, <5>1, <5>2 DEF Contents, Found
      <4>3. CASE ~Active(c)
        <5>1. PICK q \in Requests : Begin(c, q)
          BY <4>3, StepFrom
        <5>2. cmd'[c].made = <<>>
          BY <1>1, <5>1, BeginFacts
        <5> QED
          BY <4>1, <5>2
      <4> QED
        BY <1>1, <1>3, <3>1, <4>1, <4>2, <4>3, MadeStays
    <3>2. CASE Commit(c) /\ Kind(c) = "diff"
      <4>1. /\ cmd'[c].ask = cmd[c].ask /\ cmd'[c].made = Append(cmd[c].made, TreeOf(c).wip)
            /\ cmd[c].job \in 1 .. 2 /\ Len(cmd[c].made) = cmd[c].job - 1
            /\ cmd[c].made \in Seq(SUBSET Changes)
        BY <1>1, <3>2, CommitFacts DEF TypeOK, Command
      <4>2. /\ Active(c) /\ cmd[c].at = "commit" /\ ~InPlace(c) /\ Kind(c) # "clean"
            /\ TreeOf(c) # None /\ BranchOf(c) \in Names
        BY <1>1, <3>2, CommitDoes DEF Commit, At, InPlace
      <4>3. Undisturbed(c)
        BY <1>1, <1>3, <4>2, WasUndisturbed
      <4>4. Found(c) /\ Laid(c)
        BY <4>2, <4>3 DEF Contents
      <4>5. TreeOf(c).wip = trees[BranchOf(c)].wip
        BY <1>1, <4>2, TreesTyped
      <4>6. TreeOf(c).wip = Recorded(cmd[c].ask.runs[cmd[c].job])
        BY <4>2, <4>4, <4>5 DEF Laid, Lying, Strange, RunOf
      <4>7. /\ Len(cmd'[c].made) = cmd[c].job
            /\ cmd'[c].made[cmd[c].job] = TreeOf(c).wip
            /\ \A n \in 1 .. cmd[c].job - 1 : cmd'[c].made[n] = cmd[c].made[n]
        <5>1. PICK made \in Seq(SUBSET Changes) : made = cmd[c].made
          BY <4>1
        <5>2. PICK wip \in SUBSET Changes : wip = TreeOf(c).wip
          BY <1>1, <4>2, TreesTyped
        <5>3. /\ Len(Append(made, wip)) = Len(made) + 1 /\ Append(made, wip)[Len(made) + 1] = wip
              /\ \A n \in 1 .. Len(made) : Append(made, wip)[n] = made[n]
          OBVIOUS
        <5> QED
          BY <4>1, <5>1, <5>2, <5>3
      <4>8. \A n \in 1 .. cmd[c].job : n = cmd[c].job \/ n \in 1 .. cmd[c].job - 1
        BY <4>1
      <4> QED
        BY <1>3, <4>1, <4>4, <4>6, <4>7, <4>8 DEF Found
    <3> QED
      BY <3>1, <3>2
  <2>2. ASSUME cmd'[c].at \in {"apply", "commit"} PROVE Laid(c)'
    <3>1. /\ Active(c) /\ Kind(c) # "clean" /\ SameJob(c) /\ BranchOf(c)' = BranchOf(c)
          /\ (InPlace(c)' <=> InPlace(c)) /\ RunOf(c)' = RunOf(c)
          /\ \/ cmd[c].at = "apply" /\ (Apply(c) \/ ApplyFail(c) \/ UndoTree(c))
             \/ cmd[c].at = "create" /\ cmd'[c].at = "apply" /\ (AddTree(c) \/ Switch(c))
      BY <1>1, <2>2, StillWorking DEF Working, SameJob, RunOf
    <3>2. PICK b \in Names : b = BranchOf(c)
      BY <1>1, <3>1, Branches
    <3>3. Undisturbed(c)
      BY <1>1, <1>3, <3>1, WasUndisturbed
    <3>4. CASE AddTree(c)
      <4>1. /\ ~InPlace(c) /\ trees'[b] # None /\ trees'[b].wip = {}
            /\ branches' = Made(c, b)
        BY <1>1, <3>2, <3>4, AddTreeDoes DEF AddTree, Adds
      <4>2. branches'[b].commit = {} /\ cmd'[c].at = "apply"
        BY <1>1, <3>4, <4>1, BranchMade, Going DEF AddTree, Places
      <4> QED
        BY <3>1, <3>2, <4>1, <4>2 DEF Laid, Lying
    <3>5. CASE Switch(c)
      <4>1. /\ InPlace(c) /\ branches' = Made(c, b) /\ cmd[c].at = "create"
            /\ root'.wip \in SUBSET Changes /\ root'.wip \subseteq root.wip
        BY <1>1, <3>2, <3>5, SwitchDoes DEF Switch, At
      <4>2. root'.wip \subseteq {"edit", "file"} \cup (IF cmd[c].ask.force THEN Runs ELSE {})
        BY <1>1, <4>1 DEF Looked, Changes
      <4>3. branches'[b].commit = {} /\ cmd'[c].at = "apply"
        BY <1>1, <3>5, <4>1, BranchMade, SwitchFacts
      <4> QED
        BY <3>1, <3>2, <4>1, <4>2, <4>3 DEF Laid, Lying, Strange, SameJob
    <3>6. CASE cmd[c].at = "apply" /\ (Apply(c) \/ ApplyFail(c) \/ UndoTree(c))
      <4>1. Apply(c) /\ cmd'[c].at = "commit"
        <5>1. ~ApplyFail(c)
          BY <1>1, <2>2, Going DEF ApplyFail, Places
        <5>2. ~UndoTree(c)
          BY <3>6 DEF UndoTree, At
        <5>3. Apply(c) => cmd'[c].at \in {"commit", "ended"}
          BY <1>1, Going, Ending DEF Apply, Places
        <5> QED
          BY <2>2, <3>6, <5>1, <5>2, <5>3
      <4>2. Laid(c) /\ branches' = branches
        BY <3>1, <3>3, <3>6, <4>1 DEF Contents, Apply
      <4>3. PICK patch : patch = Recorded(RunOf(c))
        OBVIOUS
      <4>4. /\ InPlace(c) => root'.wip = root.wip \cup patch
            /\ ~InPlace(c) => trees'[b] # None /\ trees'[b].wip = trees[b].wip \cup patch
        BY <1>1, <3>2, <4>1, <4>2, <4>3, ApplyDoes DEF Laid
      <4>5. patch \subseteq Lying(c)' /\ Lying(c)' \subseteq Lying(c) \cup patch
        BY <3>1, <3>2, <4>4 DEF Lying
      <4>6. Lying(c) \subseteq Strange(c) /\ Strange(c)' = Strange(c)
        BY <3>1, <3>6, <4>2 DEF Laid, Strange, SameJob
      <4>7. Recorded(RunOf(c))' = patch
        BY <3>1, <4>3 DEF Recorded
      <4> QED
        BY <3>1, <3>2, <4>1, <4>2, <4>4, <4>5, <4>6, <4>7 DEF Laid
    <3> QED
      BY <3>1, <3>4, <3>5, <3>6
  <2> QED
    BY <1>3, <2>1, <2>2
<1> QED
  BY <1>2, <1>3

LEMMA UserContents ==
  ASSUME RInv, Contents, User
  PROVE  Contents'
<1>1. TypeOK /\ Phases /\ UNCHANGED <<branches, cmd, disturbed>>
  BY UserDoes DEF RInv
<1> SUFFICES ASSUME NEW d \in Cmds, Active(d)', Kind(d)' # "clean", Undisturbed(d)'
             PROVE  Found(d)' /\ (cmd'[d].at \in {"apply", "commit"} => Laid(d)')
  BY DEF Contents
<1>2. /\ Active(d) /\ Kind(d) # "clean" /\ cmd'[d] = cmd[d] /\ BranchOf(d)' = BranchOf(d)
      /\ (InPlace(d)' <=> InPlace(d)) /\ RunOf(d)' = RunOf(d)
  BY <1>1, CmdsStay
<1>3. Undisturbed(d)
  BY <1>1, <1>2 DEF Undisturbed
<1>4. Found(d)'
  BY <1>2, <1>3 DEF Contents, Found
<1>5. ASSUME cmd[d].at \in {"apply", "commit"} PROVE Laid(d)'
  <2>1. Laid(d)
    BY <1>2, <1>3, <1>5 DEF Contents
  <2>2. PICK b \in Names : b = BranchOf(d)
    BY <1>1, <1>2, Branches
  <2>3. /\ ~InPlace(d) => trees'[b] # None /\ trees'[b].wip = trees[b].wip
        /\ root.wip \subseteq root'.wip /\ root'.wip \subseteq root.wip \cup {"edit", "file"}
    BY <1>1, <2>1, <2>2, UserDoes DEF Laid
  <2>4. /\ Lying(d) \subseteq Lying(d)' /\ Lying(d)' \subseteq Lying(d) \cup Strange(d)
        /\ Strange(d)' = Strange(d) /\ Recorded(RunOf(d))' = Recorded(RunOf(d))
    BY <1>2, <2>2, <2>3 DEF Lying, Strange, Recorded
  <2> QED
    BY <1>1, <1>2, <2>1, <2>2, <2>3, <2>4 DEF Laid
<1> QED
  BY <1>2, <1>4, <1>5

LEMMA ContentsHold == Spec => [](RInv /\ Contents)
<1>1. Init => RInv /\ Contents
  <2> SUFFICES ASSUME Init PROVE RInv /\ Contents
    OBVIOUS
  <2>1. \A c \in Cmds : ~Active(c)
    BY DEF Init, Idle, Fresh, Active
  <2> QED
    BY <2>1, Starts DEF Contents
<1>2. RInv /\ Contents /\ [Next]_vars => (RInv /\ Contents)'
  BY StepKeeps, StepContents, UserKeeps, UserContents DEF Next, User
<1> QED
  BY <1>1, <1>2, PTL DEF Spec

(* How a checkout or a diff ends well.                                     *)
LEMMA EndsWell ==
  ASSUME TypeOK, Phases, NEW c \in Cmds, Step(c), Active(c), Kind(c) # "clean",
         cmd'[c].out = "done"
  PROVE  /\ Kind(c) = "diff" => Len(cmd[c].made) = 2
         /\ Kind(c) = "checkout" =>
              \/ Apply(c) /\ ~cmd[c].ask.commit
              \/ Commit(c) /\ cmd[c].ask.commit /\ cmd[c].at = "commit"
<1> DEFINE Good == /\ Kind(c) = "diff" => Len(cmd[c].made) = 2
                   /\ Kind(c) = "checkout" =>
                        \/ Apply(c) /\ ~cmd[c].ask.commit
                        \/ Commit(c) /\ cmd[c].ask.commit /\ cmd[c].at = "commit"
<1>1. /\ cmd[c].job \in 1 .. 2 /\ cmd[c].job - 1 \in 0 .. 2 /\ cmd[c].out = "none"
      /\ Kind(c) \in {"checkout", "diff"}
  BY Branches DEF TypeOK, Command, Phases, Phase, Active
<1>2. ASSUME NEW out, Ended(c, out) PROVE out = "done"
  <2>1. cmd'[c] = Fresh(cmd[c].ask, "ended", out)
    BY <1>2 DEF Ended, TypeOK
  <2> QED
    BY <2>1 DEF Fresh
<1>3. ASSUME NEW n \in 0 .. 2, Sweep(c, n) PROVE Len(cmd[c].made) = 2
  BY <1>1, <1>3, Sweeping
<1>4. ASSUME NEW out \in {"unapplied", "broke"}, Fail(c, out) PROVE FALSE
  <2>1. CASE Kind(c) = "diff"
    BY <1>1, <1>4, <2>1, Failing DEF SameJob
  <2>2. CASE Kind(c) # "diff"
    BY <1>4, <2>2, Failing
  <2> QED
    BY <2>1, <2>2
<1>5. CASE (\E q \in Requests : Begin(c, q)) \/ Check(c) \/ Switch(c) \/ List(c)
  <2>1. ~List(c)
    BY <1>1 DEF List, At, Phases, Phase, Working
  <2>2. ~\E q \in Requests : Begin(c, q)
    BY DEF Begin, Active
  <2> QED
    BY <1>1, <1>5, <2>1, <2>2, CheckFacts, SwitchFacts DEF SameJob
<1>6. CASE AddFail(c) \/ UndoBranch(c) \/ UndoFail(c) \/ CommitFail(c)
  BY <1>4, <1>6 DEF AddFail, UndoBranch, UndoFail, CommitFail
<1>7. CASE AddTree(c) \/ ApplyFail(c) \/ UndoTree(c) \/ SweepTree(c)
  BY <1>1, <1>7, Going DEF AddTree, ApplyFail, UndoTree, SweepTree, Places, SameJob
<1>8. CASE SwitchFail(c) \/ RemoveFail(c) \/ Kill(c)
  BY <1>2, <1>8 DEF SwitchFail, RemoveFail, Kill
<1>9. CASE CheckFail(c)
  <2>1. Kind(c) = "diff"
    BY <1>2, <1>9 DEF CheckFail
  <2> QED
    BY <1>1, <1>3, <1>9, <2>1 DEF CheckFail
<1>10. CASE SweepBranch(c) \/ Interrupt(c)
  <2>1. Kind(c) = "diff"
    BY <1>10, SweepsDo DEF Interrupt
  <2> QED
    BY <1>1, <1>3, <1>10, <2>1 DEF SweepBranch, Interrupt
<1>11. CASE Apply(c)
  <2>1. ~Goto(c, "commit")
    BY <1>1, Going DEF Places, SameJob
  <2> QED
    BY <1>11, <2>1 DEF Apply
<1>12. CASE Commit(c)
  <2>1. Kind(c) # "diff"
    BY <1>1, <1>12, CommitFacts
  <2> QED
    BY <1>1, <1>12, <2>1 DEF Commit, At, Phases, Phase
<1>13. CASE \E b \in Names : RemoveTree(c, b) \/ RemoveBranch(c, b)
  <2>1. cmd[c].at = "remove"
    BY <1>13 DEF RemoveTree, RemoveBranch, At
  <2> QED
    BY <1>1, <2>1 DEF Phases, Phase, Working
<1> QED
  BY <1>5, <1>6, <1>7, <1>8, <1>9, <1>10, <1>11, <1>12, <1>13 DEF Step

LEMMA CheckoutExact ==
  ASSUME RInv, Contents, NEW c \in Cmds, Step(c), Active(c), Kind(c) = "checkout",
         cmd'[c].out = "done", Undisturbed(c)
  PROVE  Exact(c)
<1>1. TypeOK /\ Phases /\ Standing /\ Books /\ Looked
  BY DEF RInv
<1>2. PICK b \in Names : b = BranchOf(c) /\ b \notin disturbed
  BY <1>1, OwnBranch
<1>3. PICK patch : patch = Recorded(RunOf(c))
  OBVIOUS
<1>4. \/ cmd[c].at = "apply" /\ Apply(c) /\ ~cmd[c].ask.commit
      \/ cmd[c].at = "commit" /\ Commit(c) /\ cmd[c].ask.commit
  BY <1>1, EndsWell DEF Apply, At
<1>5. /\ Laid(c) /\ branches[b] # None /\ branches[b].by = c
      /\ InPlace(c) => root.on = b /\ "edit" \notin cmd[c].saw
  <2>1. cmd[c].at \in Working
    BY <1>4 DEF Working
  <2>2. branches[b] # None /\ branches[b].by = c
    BY <1>1, <1>2, <2>1 DEF Books, Holding, Holds, Exists
  <2>3. InPlace(c) => root.on = b /\ "edit" \notin cmd[c].saw
    BY <1>1, <1>2, <1>4, <2>1 DEF Standing, Looked
  <2> QED
    BY <1>4, <2>2, <2>3 DEF Contents
<1>6. PICK more :
        more = (IF InPlace(c) THEN {"file"} \cup {x \in {"edit"} : x \notin cmd[c].saw} ELSE {})
                 \cup (IF InPlace(c) /\ cmd[c].ask.force THEN Runs ELSE {})
  OBVIOUS
<1>7. Strange(c) \subseteq more
  BY <1>5, <1>6 DEF Strange
<1>8. PICK work : work = IF InPlace(c) THEN root'.wip ELSE trees'[b].wip
  OBVIOUS
<1>9. CASE cmd[c].at = "apply" /\ Apply(c) /\ ~cmd[c].ask.commit
  <2>1. branches' = branches /\ root'.on = root.on
    BY <1>1, <1>9, ApplyDoes DEF Apply
  <2>2. work = Lying(c) \cup patch
    BY <1>1, <1>2, <1>3, <1>5, <1>8, <1>9, ApplyDoes DEF Lying, Laid
  <2>3. branches[b].commit = {} /\ Lying(c) \subseteq Strange(c)
    BY <1>2, <1>5, <1>9 DEF Laid
  <2> QED
    BY <1>2, <1>3, <1>5, <1>6, <1>7, <1>8, <1>9, <2>1, <2>2, <2>3 DEF Exact
<1>10. CASE cmd[c].at = "commit" /\ Commit(c) /\ cmd[c].ask.commit
  <2>1. /\ branches'[b].by = c /\ branches'[b].commit = branches[b].commit \cup TreeOf(c).wip
        /\ root'.on = root.on /\ work = {} /\ TreeOf(c) # None
    BY <1>1, <1>2, <1>5, <1>8, <1>10, CommitDoes
  <2>2. TreeOf(c).wip = Lying(c)
    BY <1>1, <1>2, <2>1, TreesTyped DEF Lying
  <2>3. branches[b].commit = {} /\ patch \subseteq Lying(c) /\ Lying(c) \ patch \subseteq Strange(c)
    BY <1>2, <1>3, <1>5, <1>10 DEF Laid
  <2> QED
    BY <1>2, <1>3, <1>5, <1>6, <1>7, <1>8, <1>10, <2>1, <2>2, <2>3 DEF Exact
<1> QED
  BY <1>4, <1>9, <1>10

(* What a checkout leaves when it ends well is the tree the run was        *)
(* started from, and a diff compares these trees, whatever the other       *)
(* commands and the user do meanwhile (_reconstruct, _code_diff).          *)
THEOREM RestoredCorrect == Spec => Restored
<1>1. ASSUME RInv, Contents, [Next]_vars, NEW c \in Cmds, Active(c), Kind(c) # "clean",
             cmd'[c].out = "done", Undisturbed(c)
      PROVE  Exact(c)
  <2>1. TypeOK /\ Phases /\ cmd[c].out = "none" /\ Kind(c) \in {"checkout", "diff"}
    BY <1>1, Branches DEF RInv, Phases, Phase, Active
  <2>2. ~User
    BY <1>1, <2>1, UserDoes
  <2>3. PICK d \in Cmds : Step(d)
    BY <1>1, <2>2 DEF Next, User
  <2>4. d = c
    BY <1>1, <2>1, <2>3, StepTyped DEF Typed, Others
  <2>5. CASE Kind(c) = "checkout"
    BY <1>1, <2>3, <2>4, <2>5, CheckoutExact
  <2>6. CASE Kind(c) = "diff"
    <3>1. Found(c) /\ Len(cmd[c].made) = 2
      BY <1>1, <2>1, <2>3, <2>4, <2>6, EndsWell DEF Contents
    <3> QED
      BY <2>6, <3>1 DEF Found, Exact
  <2> QED
    BY <2>1, <2>5, <2>6
<1>2. RInv /\ Contents /\ [Next]_vars =>
        [\A c \in Cmds :
           Active(c) /\ Kind(c) # "clean" /\ cmd'[c].out = "done" /\ Undisturbed(c)
             => Exact(c)]_vars
  BY <1>1
<1> QED
  BY <1>2, ContentsHold, PTL DEF Spec, Restored
=============================================================================
