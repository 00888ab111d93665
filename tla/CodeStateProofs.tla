-------------------------- MODULE CodeStateProofs --------------------------
(***************************************************************************)
(* What may be relied on in the record of a run's code, for any runs, any  *)
(* nesting of them, any history of edits and commits, and any failure or   *)
(* kill between two requests of a capture.                                 *)
(*                                                                         *)
(* None of it is inductive by itself: what the tags of a run say depends   *)
(* on which requests of the capture were made before it was cut short.     *)
(* The requests are made in one order (Ordered), each for the state that   *)
(* was read (Planned, Pending); a run captured once carries tags that fit  *)
(* each other (Once), a reference is made only to a patch that is there    *)
(* (Referred), and a capture that nothing disturbed leaves all that is     *)
(* needed (Undisturbed, Complete).                                         *)
(***************************************************************************)
EXTENDS CodeState, SequenceTheorems, TLAPS

Kinds == {"commit", "dirty", "sha", "holder", "artifact", "error", "rest"}

(* Whether a request is still to be made, and the order they are made in.  *)
Has(s, k) == \E i \in 1 .. Len(s) : s[i] = k
Left(k) == Has(todo, k)
Rank(k) ==
  IF k = "commit" THEN 1 ELSE IF k = "dirty" THEN 2 ELSE IF k = "sha" THEN 3
  ELSE IF k \in {"holder", "artifact"} THEN 4 ELSE IF k = "error" THEN 5 ELSE 6
Sorted(s) == \A i, j \in 1 .. Len(s) : i < j => Rank(s[i]) < Rank(s[j])
Ordered == Sorted(todo)

(* What capture() has in hand.                                             *)
Planned ==
  /\ cur # None => cur \in started
  /\ cur = None => step = "read"
  /\ step = "read" => state = NoState
  /\ step # "record" => todo = <<>> /\ state.patch = None /\ state.holder = None
  /\ state.commit <= Len(commits)
  /\ state.patch # None => state.dirty = "true"
  /\ step = "diff" => state.commit # 0
  /\ Left("commit") => state.commit # 0
  /\ \A k \in {"sha", "holder", "artifact"} : Left(k) => state.patch # None
  /\ Left("holder") => state.holder # None
  /\ Left("artifact") => state.holder = None

(* Requests not yet made have not been carried out, and no request is made *)
(* before the ones it relies on have been carried out.                     *)
Pending ==
  /\ cur # None /\ cur \notin again =>
       /\ step # "record" => tags[cur] = NoTags /\ artifact[cur] = None
       /\ Left("dirty") => tags[cur].sha = None
       /\ Left("sha") => tags[cur].sha = None /\ tags[cur].holder = None /\ artifact[cur] = None
       /\ Left("holder") \/ Left("artifact") =>
            tags[cur].holder = None /\ artifact[cur] = None
  /\ Left("sha") => Left("dirty") \/ tags[cur].dirty = state.dirty
  /\ Left("holder") \/ Left("artifact") => Left("sha") \/ tags[cur].sha = state.patch

(* A run captured once carries tags that fit each other.                   *)
Once ==
  /\ again \subseteq started
  /\ \A r \in Runs \ started : tags[r] = NoTags /\ artifact[r] = None
  /\ \A r \in Runs \ again : tags[r].sha # None => tags[r].dirty = "true"
  /\ \A r \in Runs \ again : artifact[r] # None => artifact[r] = tags[r].sha
  /\ \A r \in Runs : tags[r].commit <= Len(commits)

(* What _patch_holders, the state being recorded and the tags refer to.    *)
Points(h, patch) ==
  h \in started /\ patch # None /\ (h \notin again => artifact[h] = patch)
Referred ==
  /\ \A p \in Runs : holders[p] # None => Points(holders[p][1], holders[p][2])
  /\ Left("holder") => Points(state.holder, state.patch)
  /\ \A r \in Runs : Refers(r) => tags[r].holder \in started
  /\ \A r \in Runs \ again : Refers(r) => Points(tags[r].holder, tags[r].sha)
  /\ cur # None /\ cur \notin again /\ (step # "record" \/ Left("artifact")) =>
       /\ \A p \in Runs : holders[p] # None => holders[p][1] # cur
       /\ \A r \in Runs : tags[r].holder # cur

(* Nothing disturbed the capture under way: it records a commit, HEAD when *)
(* the diff is made, and a tree there was; what is not left to do is done. *)
Base == commits[state.commit]
Undisturbed ==
  cur # None /\ seen[cur] # {} =>
    /\ tree \in seen[cur]
    /\ step = "diff" => state.commit = Len(commits)
    /\ step = "record" =>
         /\ state.commit \in 1 .. Len(commits)
         /\ IF state.patch = None THEN state.dirty = "false" /\ Base \in seen[cur]
            ELSE state.patch[1] = Base /\ state.patch[2] \in seen[cur]
         /\ Left("commit") \/ tags[cur].commit = state.commit
         /\ Left("dirty") \/ tags[cur].dirty = state.dirty
         /\ state.patch # None =>
              /\ Left("sha") \/ tags[cur].sha = state.patch
              /\ Left("artifact") \/ Left("holder") \/ Refers(cur) \/ artifact[cur] = state.patch

(* ... and afterwards the run has all that is needed.                      *)
Complete ==
  \A r \in Runs \ {cur} :
    seen[r] # {} =>
      /\ tags[r].commit \in 1 .. Len(commits)
      /\ IF tags[r].dirty = "true"
         THEN /\ tags[r].sha # None
              /\ tags[r].sha[1] = commits[tags[r].commit] /\ tags[r].sha[2] \in seen[r]
              /\ Refers(r) \/ artifact[r] = tags[r].sha
         ELSE commits[tags[r].commit] \in seen[r]

Coherent ==
  /\ TypeOK
  /\ Ordered
  /\ Planned
  /\ Pending
  /\ Once
  /\ Referred
-----------------------------------------------------------------------------
(* Requests.                                                               *)

(* Once the next request is made, those left are the others, all of which  *)
(* come after it.                                                          *)
LEMMA NextLeft ==
  ASSUME todo \in Seq(Kinds), todo # <<>>, Ordered, todo' = Tail(todo)
  PROVE  /\ todo' \in Seq(Kinds) /\ Ordered' /\ todo[1] \in Kinds
         /\ Left(todo[1])
         /\ \A k : Left(k)' <=> Left(k) /\ k # todo[1]
         /\ \A k : Left(k)' => Rank(todo[1]) < Rank(k)
<1>1. /\ Len(todo) \in Nat /\ Len(todo) > 0 /\ todo' \in Seq(Kinds)
      /\ Len(todo') = Len(todo) - 1 /\ \A i \in 1 .. Len(todo') : todo'[i] = todo[i + 1]
  BY HeadTailProperties, EmptySeq
<1>2. todo[1] \in Kinds /\ Left(todo[1])
  BY <1>1, ElementOfSeq DEF Left, Has
<1>3. Ordered'
  <2> SUFFICES ASSUME NEW i \in 1 .. Len(todo'), NEW j \in 1 .. Len(todo'), i < j
               PROVE  Rank(todo'[i]) < Rank(todo'[j])
    BY DEF Ordered, Sorted, Rank
  <2> QED
    BY <1>1 DEF Ordered, Sorted
<1>4. \A k : Left(k)' => Left(k) /\ Rank(todo[1]) < Rank(k)
  <2> TAKE k
  <2> SUFFICES ASSUME Left(k)' PROVE Left(k) /\ Rank(todo[1]) < Rank(k)
    OBVIOUS
  <2>1. PICK i \in 1 .. Len(todo') : todo'[i] = k
    BY DEF Left, Has
  <2>2. i + 1 \in 1 .. Len(todo) /\ todo[i + 1] = k /\ 1 \in 1 .. Len(todo) /\ 1 < i + 1
    BY <1>1, <2>1
  <2> QED
    BY <2>2 DEF Left, Has, Ordered, Sorted
<1>5. \A k : k # todo[1] /\ Left(k) => Left(k)'
  <2> TAKE k
  <2> SUFFICES ASSUME k # todo[1], Left(k) PROVE Left(k)'
    OBVIOUS
  <2>1. PICK i \in 1 .. Len(todo) : todo[i] = k
    BY DEF Left, Has
  <2>2. i # 1
    BY <2>1
  <2>3. i - 1 \in 1 .. Len(todo') /\ todo'[i - 1] = k
    BY <1>1, <2>1, <2>2
  <2> QED
    BY <2>3 DEF Left, Has
<1>6. \A k : Left(k)' => k # todo[1]
  <2>1. \A k : Rank(k) \in Nat
    BY DEF Rank
  <2>2. \A k : ~(Rank(k) < Rank(k))
    BY <2>1
  <2> QED
    BY <1>4, <2>2
<1> QED
  BY <1>1, <1>2, <1>3, <1>4, <1>5, <1>6

LEMMA NothingLeft == ASSUME todo = <<>> PROVE Ordered /\ \A k : ~Left(k)
BY DEF Ordered, Sorted, Left, Has

LEMMA ErrorLeft ==
  ASSUME todo' = <<"error">>
  PROVE  todo' \in Seq(Kinds) /\ Ordered' /\ \A k : Left(k)' <=> k = "error"
BY DEF Ordered, Sorted, Left, Has, Kinds

LEMMA Literals ==
  /\ <<>> \in Seq(Kinds) /\ Sorted(<<>>) /\ \A k : ~Has(<<>>, k)
  /\ \A a \in Kinds :
       <<a>> \in Seq(Kinds) /\ Sorted(<<a>>) /\ \A k : Has(<<a>>, k) <=> k = a
  /\ \A a, b \in Kinds :
       /\ <<a, b>> \in Seq(Kinds) /\ \A k : Has(<<a, b>>, k) <=> k \in {a, b}
       /\ Rank(a) < Rank(b) => Sorted(<<a, b>>)
<1>1. <<>> \in Seq(Kinds) /\ Sorted(<<>>) /\ \A k : ~Has(<<>>, k)
  BY DEF Has, Sorted
<1>2. ASSUME NEW a \in Kinds
      PROVE  <<a>> \in Seq(Kinds) /\ Sorted(<<a>>) /\ \A k : Has(<<a>>, k) <=> k = a
  BY DEF Has, Sorted
<1>3. ASSUME NEW a \in Kinds, NEW b \in Kinds
      PROVE  /\ <<a, b>> \in Seq(Kinds) /\ \A k : Has(<<a, b>>, k) <=> k \in {a, b}
             /\ Rank(a) < Rank(b) => Sorted(<<a, b>>)
  <2>1. Len(<<a, b>>) = 2 /\ <<a, b>>[1] = a /\ <<a, b>>[2] = b /\ <<a, b>> \in Seq(Kinds)
    OBVIOUS
  <2>2. \A k : Has(<<a, b>>, k) <=> k \in {a, b}
    BY <2>1 DEF Has
  <2>3. \A i, j \in 1 .. 2 : i < j => i = 1 /\ j = 2
    OBVIOUS
  <2>4. Rank(a) < Rank(b) => Sorted(<<a, b>>)
    BY <2>1, <2>3 DEF Sorted
  <2> QED
    BY <2>1, <2>2, <2>4
<1> QED
  BY <1>1, <1>2, <1>3

LEMMA Concatenation ==
  ASSUME NEW s \in Seq(Kinds), NEW t \in Seq(Kinds)
  PROVE  /\ s \o t \in Seq(Kinds)
         /\ \A k : Has(s \o t, k) <=> Has(s, k) \/ Has(t, k)
         /\ /\ Sorted(s) /\ Sorted(t)
            /\ \A a, b \in Kinds : Has(s, a) /\ Has(t, b) => Rank(a) < Rank(b)
            => Sorted(s \o t)
<1>1. /\ Len(s) \in Nat /\ Len(t) \in Nat /\ s \o t \in Seq(Kinds)
      /\ Len(s \o t) = Len(s) + Len(t)
      /\ \A i \in 1 .. Len(s) + Len(t) :
           (s \o t)[i] = IF i <= Len(s) THEN s[i] ELSE t[i - Len(s)]
  BY ConcatProperties, LenProperties
<1>2. \A k : Has(s \o t, k) => Has(s, k) \/ Has(t, k)
  BY <1>1 DEF Has
<1>3. \A k : Has(s, k) => Has(s \o t, k)
  BY <1>1 DEF Has
<1>4. \A k : Has(t, k) => Has(s \o t, k)
  <2> TAKE k
  <2> SUFFICES ASSUME NEW i \in 1 .. Len(t), t[i] = k PROVE Has(s \o t, k)
    BY DEF Has
  <2>1. Len(s) + i \in 1 .. Len(s \o t) /\ (s \o t)[Len(s) + i] = k
    BY <1>1
  <2> QED
    BY <2>1 DEF Has
<1>5. ASSUME Sorted(s), Sorted(t),
             \A a, b \in Kinds : Has(s, a) /\ Has(t, b) => Rank(a) < Rank(b)
      PROVE  Sorted(s \o t)
  <2> SUFFICES ASSUME NEW i \in 1 .. Len(s \o t), NEW j \in 1 .. Len(s \o t), i < j
               PROVE  Rank((s \o t)[i]) < Rank((s \o t)[j])
    BY DEF Sorted
  <2>1. CASE j <= Len(s)
    BY <1>1, <1>5, <2>1 DEF Sorted
  <2>2. CASE i > Len(s)
    <3>1. i - Len(s) \in 1 .. Len(t) /\ j - Len(s) \in 1 .. Len(t) /\ i - Len(s) < j - Len(s)
      BY <1>1, <2>2
    <3>2. (s \o t)[i] = t[i - Len(s)] /\ (s \o t)[j] = t[j - Len(s)]
      BY <1>1, <2>2
    <3> QED
      BY <1>5, <3>1, <3>2 DEF Sorted
  <2>3. CASE i <= Len(s) /\ j > Len(s)
    <3>1. i \in 1 .. Len(s) /\ j - Len(s) \in 1 .. Len(t)
      BY <1>1, <2>3
    <3>2. (s \o t)[i] = s[i] /\ (s \o t)[j] = t[j - Len(s)]
      BY <1>1, <2>3
    <3>3. s[i] \in Kinds /\ t[j - Len(s)] \in Kinds
      BY <3>1, ElementOfSeq
    <3> QED
      BY <1>5, <3>1, <3>2, <3>3 DEF Has
  <2> QED
    BY <1>1, <2>1, <2>2, <2>3
<1> QED
  BY <1>1, <1>2, <1>3, <1>4, <1>5

(* What is to be done once the state is read.                              *)
LEMMA RequestsLeft ==
  ASSUME NEW patch, NEW holder, todo' = Requests(patch, holder)
  PROVE  /\ todo' \in Seq(Kinds) /\ Ordered'
         /\ \A k : Left(k)' <=>
              \/ k \in {"commit", "dirty", "rest"}
              \/ patch # None /\ k \in {"sha", IF holder = None THEN "artifact" ELSE "holder"}
              \/ TooLarge /\ k = "error"
<1> DEFINE A == <<"commit", "dirty">>
           where == IF holder = None THEN "artifact" ELSE "holder"
           B == IF patch = None THEN <<>> ELSE <<"sha", where>>
           C == IF TooLarge THEN <<"error">> ELSE <<>>
           D == <<"rest">>
<1>0. /\ \A k \in {"commit", "dirty", "sha", "holder", "artifact", "error", "rest"} : k \in Kinds
      /\ where \in Kinds
  BY DEF Kinds
<1>1. A \in Seq(Kinds) /\ Sorted(A) /\ \A k : Has(A, k) <=> k \in {"commit", "dirty"}
  <2>1. Rank("commit") < Rank("dirty")
    BY DEF Rank
  <2> QED
    BY <1>0, <2>1, Literals
<1>2. B \in Seq(Kinds) /\ Sorted(B) /\ \A k : Has(B, k) <=> patch # None /\ k \in {"sha", where}
  <2>1. Rank("sha") < Rank(where)
    BY DEF Rank
  <2> QED
    BY <1>0, <2>1, Literals
<1>3. C \in Seq(Kinds) /\ Sorted(C) /\ \A k : Has(C, k) <=> TooLarge /\ k = "error"
  BY <1>0, Literals
<1>4. D \in Seq(Kinds) /\ Sorted(D) /\ \A k : Has(D, k) <=> k = "rest"
  BY <1>0, Literals
<1> HIDE DEF A, B, C, D
<1>5. /\ A \o B \in Seq(Kinds)
      /\ \A k : Has(A \o B, k) <=> Has(A, k) \/ Has(B, k)
      /\ Sorted(A \o B)
  <2>1. \A a, b \in Kinds : Has(A, a) /\ Has(B, b) => Rank(a) < Rank(b)
    BY <1>1, <1>2 DEF Rank
  <2> QED
    BY <1>1, <1>2, <2>1, Concatenation
<1>6. /\ (A \o B) \o C \in Seq(Kinds)
      /\ \A k : Has((A \o B) \o C, k) <=> Has(A \o B, k) \/ Has(C, k)
      /\ Sorted((A \o B) \o C)
  <2>1. \A a, b \in Kinds : Has(A \o B, a) /\ Has(C, b) => Rank(a) < Rank(b)
    BY <1>1, <1>2, <1>3, <1>5 DEF Rank
  <2> QED
    BY <1>3, <1>5, <2>1, Concatenation
<1>7. /\ ((A \o B) \o C) \o D \in Seq(Kinds)
      /\ \A k : Has(((A \o B) \o C) \o D, k) <=> Has((A \o B) \o C, k) \/ Has(D, k)
      /\ Sorted(((A \o B) \o C) \o D)
  <2>1. \A a, b \in Kinds : Has((A \o B) \o C, a) /\ Has(D, b) => Rank(a) < Rank(b)
    BY <1>1, <1>2, <1>3, <1>4, <1>5, <1>6 DEF Rank
  <2> QED
    BY <1>4, <1>6, <2>1, Concatenation
<1>8. todo' = ((A \o B) \o C) \o D
  BY DEF Requests, A, B, C, D
<1> QED
  BY <1>1, <1>2, <1>3, <1>4, <1>5, <1>6, <1>7, <1>8 DEF Left, Ordered
-----------------------------------------------------------------------------
(* The tags and the patches of the runs.                                   *)

(* One request changes one thing of the run being captured.                *)
LEMMA RequestEffect ==
  ASSUME TypeOK, Planned, cur # None, step = "record", todo # <<>>, Ordered
  PROVE  /\ Tagged \in [Runs -> [commit : 0 .. MaxCommits, dirty : {"unset", "true", "false"},
                                 sha : Patches \union {None}, holder : Runs \union {None}]]
         /\ \A r \in Runs : r # cur => Tagged[r] = tags[r]
         /\ Tagged[cur].commit = IF todo[1] = "commit" THEN state.commit ELSE tags[cur].commit
         /\ Tagged[cur].dirty = IF todo[1] = "dirty" THEN state.dirty ELSE tags[cur].dirty
         /\ Tagged[cur].sha = IF todo[1] = "sha" THEN state.patch ELSE tags[cur].sha
         /\ Tagged[cur].holder = IF todo[1] = "holder" THEN state.holder ELSE tags[cur].holder
         /\ Uploaded \in [Runs -> Patches \union {None}]
         /\ \A r \in Runs : r # cur => Uploaded[r] = artifact[r]
         /\ Uploaded[cur] = IF todo[1] = "artifact" THEN state.patch ELSE artifact[cur]
<1> USE DEF TypeOK
<1>1. cur \in Runs
  OBVIOUS
<1> DEFINE new == [commit |-> IF todo[1] = "commit" THEN state.commit ELSE tags[cur].commit,
                   dirty  |-> IF todo[1] = "dirty" THEN state.dirty ELSE tags[cur].dirty,
                   sha    |-> IF todo[1] = "sha" THEN state.patch ELSE tags[cur].sha,
                   holder |-> IF todo[1] = "holder" THEN state.holder ELSE tags[cur].holder]
<1>2. Tagged = [tags EXCEPT ![cur] = new]
  BY DEF Tagged
<1>3. /\ new \in [commit : 0 .. MaxCommits, dirty : {"unset", "true", "false"},
                  sha : Patches \union {None}, holder : Runs \union {None}]
      /\ new.commit = IF todo[1] = "commit" THEN state.commit ELSE tags[cur].commit
      /\ new.dirty = IF todo[1] = "dirty" THEN state.dirty ELSE tags[cur].dirty
      /\ new.sha = IF todo[1] = "sha" THEN state.patch ELSE tags[cur].sha
      /\ new.holder = IF todo[1] = "holder" THEN state.holder ELSE tags[cur].holder
  BY <1>1
<1> HIDE DEF new
<1> QED
  BY <1>1, <1>2, <1>3 DEF Uploaded

(* What a request remembers.                                               *)
LEMMA RememberedEffect ==
  ASSUME TypeOK, Planned, cur # None, step = "record", todo # <<>>, Ordered
  PROVE  /\ Remembered \in [Runs -> (Runs \X Patches) \union {None}]
         /\ \A r \in Runs : r # cur => Remembered[r] = holders[r]
         /\ Remembered[cur] = IF todo[1] = "artifact" THEN <<cur, state.patch>>
                              ELSE IF todo[1] = "holder" THEN <<state.holder, state.patch>>
                              ELSE holders[cur]
<1> USE DEF TypeOK
<1>1. cur \in Runs
  OBVIOUS
<1>2. Left(todo[1])
  <2>1. todo \in Seq(Kinds)
    BY DEF Kinds
  <2>2. Len(todo) \in Nat /\ Len(todo) > 0
    BY <2>1, EmptySeq
  <2> QED
    BY <2>2 DEF Left, Has
<1>3. CASE todo[1] = "artifact"
  BY <1>1, <1>2, <1>3 DEF Remembered, Planned
<1>4. CASE todo[1] = "holder"
  <2>1. Remembered = [holders EXCEPT ![cur] = <<state.holder, state.patch>>]
    BY <1>4 DEF Remembered
  <2> QED
    BY <1>1, <1>2, <1>4, <2>1 DEF Planned
<1>5. CASE todo[1] \notin {"artifact", "holder"}
  BY <1>5 DEF Remembered
<1> QED
  BY <1>3, <1>4, <1>5

LEMMA StepTypes == Coherent /\ Next => TypeOK'
<1> SUFFICES ASSUME Coherent, Next PROVE TypeOK'
  OBVIOUS
<1> USE RunsAssumption DEF Coherent, TypeOK, repo, mlflow, capture, past
<1>1. ASSUME NEW t \in Trees, Edit(t) PROVE TypeOK'
  BY <1>1 DEF Edit
<1>2. CASE Commit
  <2>1. commits' \in Seq(Trees) /\ Len(commits') = Len(commits) + 1
    BY <1>2 DEF Commit
  <2>2. seen' \in [Runs -> SUBSET Trees]
    BY <1>2 DEF Commit, Flawed
  <2> QED
    BY <1>2, <2>1, <2>2 DEF Commit
<1>3. ASSUME NEW r \in Runs, StartRun(r) PROVE TypeOK'
  BY <1>3 DEF StartRun
<1>4. ASSUME NEW r \in Runs, StartPlain(r) PROVE TypeOK'
  BY <1>4 DEF StartPlain
<1>5. CASE EndRun
  <2>1. stack' \in Seq(Runs)
    BY <1>5 DEF EndRun
  <2> QED
    BY <1>5, <2>1 DEF EndRun
<1>6. CASE Exit
  <2>1. NoState \in [commit : 0 .. MaxCommits, patch : Patches \union {None},
                     dirty : {"unset", "true", "false"}, holder : Runs \union {None}]
    BY DEF NoState
  <2>2. seen' \in [Runs -> SUBSET Trees]
    BY <1>6 DEF Exit, Flawed
  <2> QED
    BY <1>6, <2>1, <2>2 DEF Exit
<1>7. CASE ReadState
  <2>1. Len(commits) \in 0 .. MaxCommits
    OBVIOUS
  <2>2. state' = [commit |-> Len(commits), patch |-> state.patch, dirty |-> state.dirty,
                  holder |-> state.holder]
    BY <1>7 DEF ReadState
  <2> QED
    BY <1>7, <2>1, <2>2 DEF ReadState
<1>8. CASE BuildPatch
  <2>1. Built \in Patches \union {None} /\ Dirty(Built) \in {"unset", "true", "false"}
    <3>1. AtHead \in Trees
      BY DEF AtHead
    <3> QED
      BY <3>1 DEF Built, Dirty, Patches
  <2>2. Inherited(Built) \in Runs \union {None}
    BY <1>8 DEF Inherited, BuildPatch
  <2>3. seen' \in [Runs -> SUBSET Trees]
    BY <1>8 DEF BuildPatch, Flawed
  <2>4. todo' \in Seq(Kinds)
    BY <1>8, RequestsLeft DEF BuildPatch
  <2>5. state' \in [commit : 0 .. MaxCommits, patch : Patches \union {None},
                    dirty : {"unset", "true", "false"}, holder : Runs \union {None}]
    BY <1>8, <2>1, <2>2 DEF BuildPatch
  <2> QED
    BY <1>8, <2>3, <2>4, <2>5 DEF BuildPatch, Kinds
<1>9. CASE GitFail
  <2>1. seen' \in [Runs -> SUBSET Trees]
    BY <1>9 DEF GitFail, Flawed
  <2> QED
    BY <1>9, <2>1 DEF GitFail
<1>10. CASE Record
  <2>1. todo' \in Seq(Kinds)
    BY <1>10, NextLeft DEF Record, Kinds
  <2> QED
    BY <1>10, <2>1, RequestEffect, RememberedEffect DEF Record, Kinds
<1>11. CASE RecordFail
  <2>1. todo' \in Seq(Kinds)
    BY <1>11, NextLeft, ErrorLeft DEF RecordFail, Kinds
  <2>2. seen' \in [Runs -> SUBSET Trees]
    BY <1>11 DEF RecordFail, Flawed
  <2> QED
    BY <1>11, <2>1, <2>2, RequestEffect DEF RecordFail, RememberedFailed, Kinds
<1>12. CASE Captured
  <2>1. NoState \in [commit : 0 .. MaxCommits, patch : Patches \union {None},
                     dirty : {"unset", "true", "false"}, holder : Runs \union {None}]
    BY DEF NoState
  <2> QED
    BY <1>12, <2>1 DEF Captured
<1> QED
  BY <1>1, <1>2, <1>3, <1>4, <1>5, <1>6, <1>7, <1>8, <1>9, <1>10, <1>11, <1>12
  DEF Next, Capture
-----------------------------------------------------------------------------
(* The course of a capture.                                                *)

LEMMA SameLeft == ASSUME UNCHANGED todo PROVE \A k : Left(k)' <=> Left(k)
BY DEF Left, Has

(* The requests left after a step that makes one, or gives the rest up.    *)
LEMMA RequestLeft ==
  ASSUME TypeOK, Ordered, todo # <<>>,
         todo' = Tail(todo) \/ todo' = <<"error">>
  PROVE  /\ Ordered' /\ todo[1] \in Kinds /\ Left(todo[1])
         /\ \A k : k # "error" =>
              (Left(k)' => Left(k) /\ k # todo[1] /\ Rank(todo[1]) < Rank(k))
         /\ todo' = Tail(todo) => \A k : Left(k)' <=> Left(k) /\ k # todo[1]
<1>1. todo \in Seq(Kinds)
  BY DEF TypeOK, Kinds
<1>2. todo[1] \in Kinds /\ Left(todo[1])
  <2>1. Len(todo) \in Nat /\ Len(todo) > 0
    BY <1>1, EmptySeq
  <2> QED
    BY <1>1, <2>1, ElementOfSeq DEF Left, Has
<1>3. CASE todo' = Tail(todo)
  BY <1>1, <1>2, <1>3, NextLeft
<1>4. CASE todo' = <<"error">> /\ todo' # Tail(todo)
  BY <1>2, <1>4, ErrorLeft
<1> QED
  BY <1>3, <1>4

LEMMA StepOrdered == Coherent /\ Next => Ordered'
<1> SUFFICES ASSUME Coherent, Next PROVE Ordered'
  OBVIOUS
<1> USE DEF Coherent
<1>1. CASE UNCHANGED todo
  BY <1>1 DEF Ordered, Sorted, Rank
<1>2. CASE todo' = <<>>
  BY <1>2 DEF Ordered, Sorted
<1>3. CASE BuildPatch
  BY <1>3, RequestsLeft DEF BuildPatch
<1>4. CASE GitFail
  BY <1>4, ErrorLeft DEF GitFail
<1>5. CASE Record \/ RecordFail
  BY <1>5, RequestLeft DEF Record, RecordFail
<1> QED
  BY <1>1, <1>2, <1>3, <1>4, <1>5
  DEF Next, Capture, Edit, Commit, StartRun, StartPlain, EndRun, Exit, ReadState, Captured,
      capture

LEMMA CommitsGrow ==
  ASSUME TypeOK, Next
  PROVE  /\ Len(commits') \in Nat /\ Len(commits) \in Nat /\ Len(commits) <= Len(commits')
         /\ \A c \in 1 .. Len(commits) : commits'[c] = commits[c]
<1>1. CASE Commit
  BY <1>1 DEF Commit, TypeOK
<1>2. CASE UNCHANGED commits
  BY <1>2 DEF TypeOK
<1> QED
  BY <1>1, <1>2
  DEF Next, Capture, Edit, StartRun, StartPlain, EndRun, Exit, ReadState, BuildPatch, GitFail,
      Record, RecordFail, Captured, repo

LEMMA StepPlanned == Coherent /\ Next => Planned'
<1> SUFFICES ASSUME Coherent, Next PROVE Planned'
  OBVIOUS
<1>0. /\ Len(commits') \in Nat /\ Len(commits) \in Nat /\ Len(commits) <= Len(commits')
      /\ 1 <= Len(commits) /\ state.commit \in Nat
  BY CommitsGrow DEF Coherent, TypeOK
<1> USE <1>0, RunsAssumption DEF Coherent, Planned, repo, mlflow, capture, past
<1>1. ASSUME NEW t \in Trees, Edit(t) PROVE Planned'
  BY <1>1, SameLeft DEF Edit
<1>2. CASE Commit
  BY <1>2, SameLeft DEF Commit
<1>3. ASSUME NEW r \in Runs, StartRun(r) PROVE Planned'
  BY <1>3, SameLeft DEF StartRun, Startable
<1>4. ASSUME NEW r \in Runs, StartPlain(r) PROVE Planned'
  BY <1>4, SameLeft DEF StartPlain
<1>5. CASE EndRun
  BY <1>5, SameLeft DEF EndRun
<1>6. CASE Exit
  <2>1. \A k : ~Left(k)'
    BY <1>6 DEF Exit, Left, Has
  <2> QED
    BY <1>6, <2>1 DEF Exit, NoState
<1>7. CASE ReadState
  <2>1. state = NoState /\ state' = [NoState EXCEPT !.commit = Len(commits)]
    BY <1>7 DEF ReadState
  <2>2. state'.patch = None /\ state'.holder = None /\ state'.commit = Len(commits)
    BY <2>1 DEF NoState
  <2> QED
    BY <1>7, <2>1, <2>2, SameLeft, NothingLeft DEF ReadState
<1>8. CASE BuildPatch
  <2> DEFINE holder == IF Built = None THEN None ELSE Inherited(Built)
  <2>1. /\ todo' = Requests(Built, holder) /\ step' = "record" /\ step = "diff"
        /\ state'.commit = state.commit /\ state'.patch = Built
        /\ state'.dirty = Dirty(Built) /\ state'.holder = holder
    BY <1>8 DEF BuildPatch, TypeOK
  <2>2. \A k : Left(k)' <=>
          \/ k \in {"commit", "dirty", "rest"}
          \/ Built # None /\ k \in {"sha", IF holder = None THEN "artifact" ELSE "holder"}
          \/ TooLarge /\ k = "error"
    BY <2>1, RequestsLeft
  <2> QED
    BY <1>8, <2>1, <2>2 DEF BuildPatch, Dirty
<1>9. CASE GitFail
  BY <1>9, ErrorLeft DEF GitFail
<1>10. CASE Record
  BY <1>10, RequestLeft DEF Record
<1>11. CASE RecordFail
  BY <1>11, RequestLeft, ErrorLeft DEF RecordFail
<1>12. CASE Captured
  BY <1>12, SameLeft, NothingLeft DEF Captured, NoState
<1> QED
  BY <1>1, <1>2, <1>3, <1>4, <1>5, <1>6, <1>7, <1>8, <1>9, <1>10, <1>11, <1>12
  DEF Next, Capture

(* The next request is the first of those left.                            *)
LEMMA HeadFirst ==
  ASSUME TypeOK, Ordered, todo # <<>>
  PROVE  /\ todo[1] \in Kinds /\ Left(todo[1])
         /\ Left("commit") => todo[1] = "commit"
         /\ Left("dirty") => todo[1] \in {"commit", "dirty"}
         /\ Left("sha") => todo[1] \in {"commit", "dirty", "sha"}
         /\ Left("holder") => todo[1] \in {"commit", "dirty", "sha", "holder"}
         /\ Left("artifact") => todo[1] \in {"commit", "dirty", "sha", "artifact"}
<1>1. todo \in Seq(Kinds)
  BY DEF TypeOK, Kinds
<1>2. Len(todo) \in Nat /\ Len(todo) > 0
  BY <1>1, EmptySeq
<1>3. todo[1] \in Kinds /\ Left(todo[1])
  BY <1>1, <1>2, ElementOfSeq DEF Left, Has
<1>4. \A k : Left(k) => k = todo[1] \/ Rank(todo[1]) < Rank(k)
  <2> TAKE k
  <2> SUFFICES ASSUME NEW i \in 1 .. Len(todo), todo[i] = k
               PROVE  k = todo[1] \/ Rank(todo[1]) < Rank(k)
    BY DEF Left, Has
  <2> QED
    BY <1>2 DEF Ordered, Sorted
<1>5. ASSUME NEW k, Left(k), k # todo[1] PROVE Rank(todo[1]) < Rank(k)
  BY <1>4, <1>5
<1> QED
  BY <1>3, <1>4 DEF Rank, Kinds

(* What is left, and what became of the run, after a request that          *)
(* succeeded.                                                              *)
LEMMA Requested ==
  ASSUME Coherent, Record
  PROVE  /\ cur \in Runs /\ cur' = cur /\ step = "record" /\ step' = "record"
         /\ state' = state /\ again' = again /\ started' = started /\ commits' = commits
         /\ \A k : Left(k)' <=> Left(k) /\ k # todo[1]
         /\ \A r \in Runs : r # cur => tags'[r] = tags[r] /\ artifact'[r] = artifact[r]
         /\ tags'[cur].commit = IF todo[1] = "commit" THEN state.commit ELSE tags[cur].commit
         /\ tags'[cur].dirty = IF todo[1] = "dirty" THEN state.dirty ELSE tags[cur].dirty
         /\ tags'[cur].sha = IF todo[1] = "sha" THEN state.patch ELSE tags[cur].sha
         /\ tags'[cur].holder = IF todo[1] = "holder" THEN state.holder ELSE tags[cur].holder
         /\ artifact'[cur] = IF todo[1] = "artifact" THEN state.patch ELSE artifact[cur]
<1>1. \A k : Left(k)' <=> Left(k) /\ k # todo[1]
  BY RequestLeft DEF Coherent, Record
<1> QED
  BY <1>1, RequestEffect DEF Coherent, Record, TypeOK, repo, past

(* The same after a request that failed, which ends the record.            *)
LEMMA RequestFailed ==
  ASSUME Coherent, RecordFail
  PROVE  /\ cur \in Runs /\ cur' = cur /\ step = "record" /\ step' = "record"
         /\ state' = state /\ again' = again /\ started' = started /\ commits' = commits
         /\ \A k \in {"commit", "dirty", "sha", "holder", "artifact"} : ~Left(k)'
         /\ \A r \in Runs : r # cur => tags'[r] = tags[r] /\ artifact'[r] = artifact[r]
         /\ \/ /\ tags'[cur].commit = IF todo[1] = "commit" THEN state.commit ELSE tags[cur].commit
               /\ tags'[cur].dirty = IF todo[1] = "dirty" THEN state.dirty ELSE tags[cur].dirty
               /\ tags'[cur].sha = IF todo[1] = "sha" THEN state.patch ELSE tags[cur].sha
               /\ tags'[cur].holder = IF todo[1] = "holder" THEN state.holder ELSE tags[cur].holder
               /\ artifact'[cur] = IF todo[1] = "artifact" THEN state.patch ELSE artifact[cur]
            \/ tags'[cur] = tags[cur] /\ artifact'[cur] = artifact[cur]
<1>1. \A k \in {"commit", "dirty", "sha", "holder", "artifact"} : ~Left(k)'
  <2>1. CASE todo[1] = "error"
    <3>1. \A k : Left(k)' <=> Left(k) /\ k # todo[1]
      BY <2>1, RequestLeft DEF Coherent, RecordFail
    <3> QED
      BY <2>1, <3>1, HeadFirst DEF Coherent, RecordFail
  <2>2. CASE todo[1] # "error"
    BY <2>2, ErrorLeft DEF RecordFail
  <2> QED
    BY <2>1, <2>2
<1>2. CASE tags' = Tagged /\ artifact' = Uploaded
  BY <1>1, <1>2, RequestEffect DEF Coherent, RecordFail, TypeOK, repo, past
<1>3. CASE UNCHANGED <<tags, artifact>>
  BY <1>1, <1>3 DEF Coherent, RecordFail, TypeOK, repo, past
<1> QED
  BY <1>2, <1>3 DEF RecordFail

LEMMA OneTouched ==
  ASSUME Coherent, Record \/ RecordFail
  PROVE  /\ cur \in Runs \cap started /\ cur # None /\ step = "record" /\ todo # <<>>
         /\ again' = again /\ started' = started /\ commits' = commits
         /\ \A r \in Runs : r # cur => tags'[r] = tags[r] /\ artifact'[r] = artifact[r]
<1>1. cur # None /\ step = "record" /\ todo # <<>> /\ cur \in started
  BY DEF Record, RecordFail, Coherent, Planned
<1>2. ASSUME Record
      PROVE  /\ cur \in Runs /\ again' = again /\ started' = started /\ commits' = commits
             /\ \A r \in Runs : r # cur => tags'[r] = tags[r] /\ artifact'[r] = artifact[r]
  BY <1>2, Requested
<1>3. ASSUME RecordFail
      PROVE  /\ cur \in Runs /\ again' = again /\ started' = started /\ commits' = commits
             /\ \A r \in Runs : r # cur => tags'[r] = tags[r] /\ artifact'[r] = artifact[r]
  BY <1>3, RequestFailed
<1> QED
  BY <1>1, <1>2, <1>3

LEMMA StepPending == Coherent /\ Next => Pending'
<1> SUFFICES ASSUME Coherent, Next PROVE Pending'
  OBVIOUS
<1> USE RunsAssumption
    DEF Coherent, TypeOK, Planned, Once, Pending,
        repo, mlflow, capture, past
<1>1. ASSUME NEW t \in Trees, Edit(t) PROVE Pending'
  BY <1>1, SameLeft DEF Edit
<1>2. CASE Commit
  BY <1>2, SameLeft DEF Commit
<1>3. ASSUME NEW r \in Runs, StartRun(r) PROVE Pending'
  <2>1. \A k : ~Left(k)'
    BY <1>3, SameLeft, NothingLeft DEF StartRun, Startable
  <2> QED
    BY <1>3, <2>1 DEF StartRun, Startable
<1>4. ASSUME NEW r \in Runs, StartPlain(r) PROVE Pending'
  BY <1>4, SameLeft DEF StartPlain, Startable
<1>5. CASE EndRun
  BY <1>5, SameLeft DEF EndRun
<1>6. CASE Exit
  <2>1. \A k : ~Left(k)'
    BY <1>6 DEF Exit, Left, Has
  <2> QED
    BY <1>6, <2>1 DEF Exit, NoState
<1>7. CASE ReadState
  BY <1>7, SameLeft, NothingLeft DEF ReadState
<1>8. CASE BuildPatch
  <2> DEFINE holder == IF Built = None THEN None ELSE Inherited(Built)
  <2>1. /\ todo' = Requests(Built, holder) /\ step' = "record" /\ step = "diff"
        /\ state'.commit = state.commit /\ state'.patch = Built
        /\ state'.dirty = Dirty(Built) /\ state'.holder = holder
    BY <1>8 DEF BuildPatch
  <2>2. \A k : Left(k)' <=>
          \/ k \in {"commit", "dirty", "rest"}
          \/ Built # None /\ k \in {"sha", IF holder = None THEN "artifact" ELSE "holder"}
          \/ TooLarge /\ k = "error"
    BY <2>1, RequestsLeft
  <2>3. NoTags.sha = None /\ NoTags.holder = None
    BY DEF NoTags
  <2>4. cur' = cur /\ again' = again /\ tags' = tags /\ artifact' = artifact
    BY <1>8 DEF BuildPatch
  <2>5. Left("commit")' /\ Left("dirty")'
    BY <2>2
  <2>6. cur # None /\ cur \notin again => tags[cur] = NoTags /\ artifact[cur] = None
    BY <2>1
  <2>7. Left("holder")' \/ Left("artifact")' => Left("sha")'
    BY <2>2
  <2> QED
    BY <2>1, <2>3, <2>4, <2>5, <2>6, <2>7
<1>9. CASE GitFail
  BY <1>9, ErrorLeft DEF GitFail
<1>10. CASE Record
  <2>1. CASE todo[1] \in {"commit", "dirty"}
    BY <1>10, <2>1, Requested, HeadFirst DEF Record
  <2>2. CASE todo[1] \in {"sha", "holder", "artifact"}
    BY <1>10, <2>2, Requested, HeadFirst DEF Record
  <2>3. CASE todo[1] \in {"error", "rest"}
    BY <1>10, <2>3, Requested, HeadFirst DEF Record
  <2> QED
    BY <1>10, <2>1, <2>2, <2>3, HeadFirst DEF Record, Kinds
<1>11. CASE RecordFail
  BY <1>11, RequestFailed
<1>12. CASE Captured
  BY <1>12, SameLeft, NothingLeft DEF Captured
<1> QED
  BY <1>1, <1>2, <1>3, <1>4, <1>5, <1>6, <1>7, <1>8, <1>9, <1>10, <1>11, <1>12
  DEF Next, Capture

LEMMA OnceRecorded ==
  ASSUME Coherent, Record \/ RecordFail
  PROVE  Once'
<1>1. /\ cur \in Runs \cap started /\ cur # None /\ step = "record" /\ todo # <<>>
      /\ again' = again /\ started' = started /\ commits' = commits
      /\ \A r \in Runs : r # cur => tags'[r] = tags[r] /\ artifact'[r] = artifact[r]
  BY OneTouched
<1>2. CASE tags'[cur] = tags[cur] /\ artifact'[cur] = artifact[cur]
  <2>1. \A r \in Runs : tags'[r] = tags[r] /\ artifact'[r] = artifact[r]
    BY <1>1, <1>2
  <2> QED
    BY <1>1, <2>1 DEF Coherent, Once
<1>3. ASSUME tags'[cur].commit = IF todo[1] = "commit" THEN state.commit ELSE tags[cur].commit,
             tags'[cur].dirty = IF todo[1] = "dirty" THEN state.dirty ELSE tags[cur].dirty,
             tags'[cur].sha = IF todo[1] = "sha" THEN state.patch ELSE tags[cur].sha,
             artifact'[cur] = IF todo[1] = "artifact" THEN state.patch ELSE artifact[cur]
      PROVE  Once'
  <2> USE DEF Coherent
  <2>1. tags'[cur].commit <= Len(commits)
    BY <1>1, <1>3 DEF Once, Planned
  <2>2. cur \notin again /\ tags'[cur].sha # None => tags'[cur].dirty = "true"
    BY <1>1, <1>3, HeadFirst DEF Once, Planned, Pending
  <2>3. cur \notin again /\ artifact'[cur] # None => artifact'[cur] = tags'[cur].sha
    BY <1>1, <1>3, HeadFirst DEF Once, Planned, Pending
  <2>4. \A r \in Runs : tags'[r].commit <= Len(commits)
    BY <1>1, <2>1 DEF Once
  <2>5. \A r \in Runs \ again : tags'[r].sha # None => tags'[r].dirty = "true"
    BY <1>1, <2>2 DEF Once
  <2>6. \A r \in Runs \ again : artifact'[r] # None => artifact'[r] = tags'[r].sha
    BY <1>1, <2>3 DEF Once
  <2>7. \A r \in Runs \ started : tags'[r] = NoTags /\ artifact'[r] = None
    BY <1>1 DEF Once
  <2> QED
    BY <1>1, <2>4, <2>5, <2>6, <2>7 DEF Once
<1>4. CASE Record
  BY <1>3, <1>4, Requested
<1>5. CASE RecordFail
  BY <1>2, <1>3, <1>5, RequestFailed
<1> QED
  BY <1>4, <1>5

LEMMA StepOnce == Coherent /\ Next => Once'
<1> SUFFICES ASSUME Coherent, Next PROVE Once'
  OBVIOUS
<1> USE RunsAssumption
    DEF Coherent, TypeOK, Planned, Once, Pending,
        repo, mlflow, capture, past
<1>1. ASSUME NEW t \in Trees, Edit(t) PROVE Once'
  BY <1>1, SameLeft DEF Edit
<1>2. CASE Commit
  BY <1>2, CommitsGrow DEF Commit
<1>3. ASSUME NEW r \in Runs, StartRun(r) PROVE Once'
  BY <1>3, SameLeft DEF StartRun, Startable
<1>4. ASSUME NEW r \in Runs, StartPlain(r) PROVE Once'
  BY <1>4, SameLeft DEF StartPlain, Startable
<1>5. CASE EndRun
  BY <1>5, SameLeft DEF EndRun
<1>6. CASE Exit
  BY <1>6 DEF Exit, NoState
<1>7. CASE ReadState
  BY <1>7 DEF ReadState
<1>8. CASE BuildPatch
  BY <1>8 DEF BuildPatch
<1>9. CASE GitFail
  BY <1>9 DEF GitFail
<1>10. CASE Record \/ RecordFail
  BY <1>10, OnceRecorded
<1>12. CASE Captured
  BY <1>12, SameLeft DEF Captured
<1> QED
  BY <1>1, <1>2, <1>3, <1>4, <1>5, <1>6, <1>7, <1>8, <1>9, <1>10, <1>12
  DEF Next, Capture

(* A patch may be uploaded only while nothing refers to the run.           *)
LEMMA ReferredRecorded ==
  ASSUME Coherent, Record \/ RecordFail
  PROVE  Referred'
<1>1. /\ cur \in Runs \cap started /\ cur # None /\ step = "record" /\ todo # <<>>
      /\ again' = again /\ started' = started /\ commits' = commits
      /\ \A r \in Runs : r # cur => tags'[r] = tags[r] /\ artifact'[r] = artifact[r]
  BY OneTouched
<1>2. state' = state /\ cur' = cur /\ step' = step
  BY Requested, RequestFailed DEF Record, RecordFail
<1>3. \A k \in {"commit", "dirty", "sha", "holder", "artifact"} :
        Left(k)' => Left(k) /\ k # todo[1]
  <2>1. CASE Record
    BY <2>1, Requested
  <2>2. CASE RecordFail
    BY <2>2, RequestFailed
  <2> QED
    BY <2>1, <2>2
<1>4. \/ /\ tags'[cur].sha = IF todo[1] = "sha" THEN state.patch ELSE tags[cur].sha
         /\ tags'[cur].holder = IF todo[1] = "holder" THEN state.holder ELSE tags[cur].holder
         /\ artifact'[cur] = IF todo[1] = "artifact" THEN state.patch ELSE artifact[cur]
      \/ tags'[cur] = tags[cur] /\ artifact'[cur] = artifact[cur]
  <2>1. CASE Record
    BY <2>1, Requested
  <2>2. CASE RecordFail
    BY <2>2, RequestFailed
  <2> QED
    BY <2>1, <2>2
<1>5. /\ \A p \in Runs : p # cur => holders'[p] = holders[p]
      /\ \/ holders'[cur] = holders[cur]
         \/ /\ todo[1] = "artifact" /\ artifact'[cur] = state.patch
            /\ holders'[cur] = <<cur, state.patch>>
         \/ todo[1] = "holder" /\ holders'[cur] = <<state.holder, state.patch>>
  <2>1. CASE Record
    BY <1>1, <2>1, Requested, RememberedEffect DEF Record, Coherent
  <2>2. CASE RecordFail
    BY <2>2 DEF RecordFail, RememberedFailed
  <2> QED
    BY <2>1, <2>2
<1>6. todo[1] = "holder" => Left("holder") /\ ~Left("sha") /\ ~Left("artifact")
  BY <1>1, HeadFirst DEF Coherent
<1>7. todo[1] = "artifact" => Left("artifact") /\ ~Left("sha") /\ ~Left("holder")
  BY <1>1, HeadFirst DEF Coherent
<1>8. \A r \in Runs \ again : artifact'[r] # artifact[r] => r = cur /\ todo[1] = "artifact"
  BY <1>1, <1>4
<1>9. cur \notin again /\ Left("artifact") =>
        /\ \A p \in Runs : holders[p] # None => holders[p][1] # cur
        /\ \A r \in Runs : tags[r].holder # cur
        /\ state.holder = None
  BY <1>1 DEF Coherent, Referred, Planned
<1>10. ASSUME NEW h \in Runs, NEW patch, Points(h, patch),
              todo[1] = "artifact" /\ cur \notin again => h # cur
       PROVE  h \in started /\ patch # None /\ (h \notin again => artifact'[h] = patch)
  BY <1>8, <1>10 DEF Points
<1>11. started \subseteq Runs
  BY DEF Coherent, TypeOK
<1>12. ASSUME NEW p \in Runs, holders'[p] # None
       PROVE  /\ holders'[p][1] \in started /\ holders'[p][2] # None
              /\ holders'[p][1] \notin again => artifact'[holders'[p][1]] = holders'[p][2]
  <2>1. CASE holders'[p] = holders[p]
    <3>1. Points(holders[p][1], holders[p][2])
      BY <1>12, <2>1 DEF Coherent, Referred
    <3> QED
      BY <1>7, <1>9, <1>10, <1>11, <1>12, <2>1, <3>1 DEF Points
  <2>2. CASE todo[1] = "artifact" /\ holders'[p] = <<cur, state.patch>> /\ artifact'[cur] = state.patch
    BY <1>1, <1>7, <2>2 DEF Coherent, Planned
  <2>3. CASE todo[1] = "holder" /\ holders'[p] = <<state.holder, state.patch>>
    <3>1. Points(state.holder, state.patch)
      BY <1>6, <2>3 DEF Coherent, Referred
    <3>2. state.holder \in Runs
      BY <1>11, <3>1 DEF Points
    <3> QED
      BY <1>10, <2>3, <3>1, <3>2
  <2> QED
    BY <1>5, <2>1, <2>2, <2>3
<1>13. Left("holder")' => Points(state.holder, state.patch)'
  <2> SUFFICES ASSUME Left("holder")' PROVE Points(state.holder, state.patch)'
    OBVIOUS
  <2>1. Points(state.holder, state.patch) /\ todo[1] # "artifact"
    BY <1>3, <1>7 DEF Coherent, Referred
  <2> QED
    BY <1>1, <1>2, <1>10, <1>11, <2>1 DEF Points
<1>14. ASSUME NEW r \in Runs, tags'[r].holder # None
       PROVE  /\ tags'[r].holder \in started
              /\ r \notin again =>
                   /\ tags'[r].sha # None
                   /\ tags'[r].holder \notin again => artifact'[tags'[r].holder] = tags'[r].sha
  <2>1. CASE tags'[r].holder = tags[r].holder /\ tags'[r].sha = tags[r].sha
    <3>1. tags[r].holder \in started
      BY <1>14, <2>1 DEF Coherent, Referred, Refers
    <3>2. ASSUME r \notin again PROVE Points(tags[r].holder, tags[r].sha)
      BY <1>14, <2>1, <3>2 DEF Coherent, Referred, Refers
    <3>3. todo[1] = "artifact" /\ cur \notin again => tags[r].holder # cur
      BY <1>7, <1>9
    <3> QED
      BY <1>10, <1>11, <2>1, <3>1, <3>2, <3>3
  <2>2. CASE r = cur /\ todo[1] = "sha" /\ tags'[cur].holder = tags[cur].holder
    <3>1. Left("sha") /\ tags[cur].holder \in started
      BY <1>1, <1>14, <2>2, HeadFirst DEF Coherent, Referred, Refers
    <3>2. cur \in again
      BY <1>1, <1>14, <2>2, <3>1 DEF Coherent, Pending
    <3> QED
      BY <2>2, <3>1, <3>2
  <2>3. CASE /\ r = cur /\ todo[1] = "holder" /\ tags'[cur].sha = tags[cur].sha
             /\ tags'[cur].holder = state.holder
    <3>1. Points(state.holder, state.patch) /\ tags[cur].sha = state.patch
      BY <1>6, <2>3 DEF Coherent, Referred, Pending
    <3>2. state.holder \in Runs
      BY <1>11, <3>1 DEF Points
    <3> QED
      BY <1>10, <2>3, <3>1, <3>2
  <2> QED
    BY <1>1, <1>4, <2>1, <2>2, <2>3
<1>15. ASSUME cur \notin again, Left("artifact")'
       PROVE  /\ \A p \in Runs : holders'[p] # None => holders'[p][1] # cur
              /\ \A r \in Runs : tags'[r].holder # cur
  <2>1. Left("artifact") /\ todo[1] \notin {"artifact", "holder"}
    BY <1>3, <1>6, <1>15
  <2>2. \A p \in Runs : holders'[p] = holders[p]
    BY <1>5, <2>1
  <2>3. \A r \in Runs : tags'[r].holder = tags[r].holder
    BY <1>1, <1>4, <2>1
  <2> QED
    BY <1>9, <1>15, <2>1, <2>2, <2>3
<1> QED
  BY <1>1, <1>2, <1>12, <1>13, <1>14, <1>15 DEF Referred, Points, Refers

LEMMA StepReferred == Coherent /\ Next => Referred'
<1> SUFFICES ASSUME Coherent, Next PROVE Referred'
  OBVIOUS
<1>0. CASE Record \/ RecordFail
  BY <1>0, ReferredRecorded
<1> USE RunsAssumption
    DEF Coherent, TypeOK, Planned, Referred, Points, Refers, repo, mlflow, capture, past
<1>1. ASSUME NEW t \in Trees, Edit(t) PROVE Referred'
  BY <1>1, SameLeft DEF Edit
<1>2. CASE Commit
  BY <1>2, SameLeft DEF Commit
<1>3. ASSUME NEW r \in Runs, StartRun(r) PROVE Referred'
  BY <1>3, SameLeft, NothingLeft DEF StartRun, Startable
<1>4. ASSUME NEW r \in Runs, StartPlain(r) PROVE Referred'
  BY <1>4, SameLeft, NothingLeft DEF StartPlain, Startable
<1>5. CASE EndRun
  BY <1>5, SameLeft DEF EndRun
<1>6. CASE Exit
  <2>1. \A k : ~Left(k)'
    BY <1>6 DEF Exit, Left, Has
  <2> QED
    BY <1>6, <2>1 DEF Exit, NoState
<1>7. CASE ReadState
  BY <1>7, SameLeft, NothingLeft DEF ReadState
<1>8. CASE BuildPatch
  <2> DEFINE holder == IF Built = None THEN None ELSE Inherited(Built)
  <2>1. /\ todo' = Requests(Built, holder) /\ step' = "record" /\ step = "diff"
        /\ state'.commit = state.commit /\ state'.patch = Built
        /\ state'.dirty = Dirty(Built) /\ state'.holder = holder
    BY <1>8 DEF BuildPatch
  <2>2. Left("holder")' => Built # None /\ holder # None
    BY <2>1, RequestsLeft, ZenonT(60)
  <2>3. holder # None => Points(holder, Built)
    <3> SUFFICES ASSUME holder # None PROVE Points(holder, Built)
      OBVIOUS
    <3>1. cur \in Runs /\ Parent[cur] \in Runs \union {None}
      BY <1>8 DEF BuildPatch
    <3>2. /\ Parent[cur] # None /\ holders[Parent[cur]] # None
          /\ holders[Parent[cur]][1] = holder /\ holders[Parent[cur]][2] = Built
      BY DEF Inherited
    <3> QED
      BY <3>1, <3>2
  <2> QED
    BY <1>8, <2>1, <2>2, <2>3 DEF BuildPatch
<1>9. CASE GitFail
  BY <1>9, ErrorLeft DEF GitFail
<1>12. CASE Captured
  BY <1>12, SameLeft, NothingLeft DEF Captured
<1> QED
  BY <1>0, <1>1, <1>2, <1>3, <1>4, <1>5, <1>6, <1>7, <1>8, <1>9, <1>12
  DEF Next, Capture
-----------------------------------------------------------------------------
LEMMA InitCoherent == Init => Coherent
<1> SUFFICES ASSUME Init PROVE Coherent
  OBVIOUS
<1> USE RunsAssumption DEF Init
<1>1. TypeOK
  <2>1. commits \in Seq(Trees) /\ Len(commits) = 1
    OBVIOUS
  <2>2. /\ NoTags \in [commit : 0 .. MaxCommits, dirty : {"unset", "true", "false"},
                       sha : Patches \union {None}, holder : Runs \union {None}]
        /\ NoState \in [commit : 0 .. MaxCommits, patch : Patches \union {None},
                        dirty : {"unset", "true", "false"}, holder : Runs \union {None}]
    BY DEF NoTags, NoState
  <2> QED
    BY <2>1, <2>2 DEF TypeOK
<1>2. Ordered /\ \A k : ~Left(k)
  BY NothingLeft
<1>3. /\ NoTags.sha = None /\ NoTags.holder = None /\ NoTags.commit = 0
      /\ NoState.commit = 0 /\ NoState.patch = None /\ NoState.holder = None
  BY DEF NoTags, NoState
<1>4. Planned
  BY <1>1, <1>2, <1>3 DEF Planned, TypeOK
<1>5. Pending
  BY <1>2 DEF Pending
<1>6. Once
  BY <1>1, <1>3 DEF Once, TypeOK
<1>7. Referred
  BY <1>2, <1>3 DEF Referred, Refers
<1> QED
  BY <1>1, <1>2, <1>4, <1>5, <1>6, <1>7 DEF Coherent

LEMMA CoherentInvariant == Spec => []Coherent
<1>1. Coherent /\ UNCHANGED vars => Coherent'
  BY DEF Coherent, TypeOK, Ordered, Sorted, Rank, Planned, Pending, Once, Referred, Points, Refers,
         Left, Has, vars, repo, mlflow, capture, past
<1>2. Coherent /\ [Next]_vars => Coherent'
  BY <1>1, StepTypes, StepOrdered, StepPlanned, StepPending, StepOnce, StepReferred DEF Coherent
<1> QED
  BY <1>2, InitCoherent, PTL DEF Spec

(* What capture and its run keep in memory and on the server is of its     *)
(* type in every state: the invariant TypeOK.                              *)
THEOREM TypeCorrect == Spec => []TypeOK
<1>1. Coherent => TypeOK
  BY DEF Coherent
<1> QED
  BY <1>1, CoherentInvariant, PTL

(* A run that refers to the patch of another finds it there, and finds the *)
(* patch whose digest it carries, as long as neither was captured again:   *)
(* the invariant ReferenceHolds.                                           *)
THEOREM ReferenceHoldsCorrect == Spec => []ReferenceHolds
<1>1. Coherent => ReferenceHolds
  <2> SUFFICES ASSUME Coherent, NEW r \in Runs, Refers(r), Settled(r)
               PROVE  artifact[Holder(r)] = tags[r].sha
    BY DEF ReferenceHolds
  <2>1. Holder(r) = tags[r].holder /\ r \notin again /\ Holder(r) \notin again
    BY DEF Refers, Holder, Settled
  <2>2. Points(tags[r].holder, tags[r].sha)
    BY <2>1 DEF Coherent, Referred
  <2> QED
    BY <2>1, <2>2 DEF Points
<1> QED
  BY <1>1, CoherentInvariant, PTL

(* Two runs that `diff` calls identical without looking make the same      *)
(* tree, as far as their patches can be had: the invariant                 *)
(* IdenticalMeansSame.                                                     *)
THEOREM IdenticalMeansSameCorrect == Spec => []IdenticalMeansSame
<1>1. Coherent => IdenticalMeansSame
  <2> SUFFICES ASSUME Coherent,
                      NEW a \in Runs, tags[a].commit # 0, Settled(a),
                      NEW b \in Runs, tags[b].commit # 0, Settled(b),
                      Identical(a, b)
               PROVE  IF tags[a].sha = None
                      THEN Restored(a) # None /\ Restored(a) = Restored(b)
                      ELSE Restored(a) = Restored(b) \/ None \in {Downloaded(a), Downloaded(b)}
    BY DEF IdenticalMeansSame
  <2>1. /\ tags[a].commit = tags[b].commit /\ tags[a].sha = tags[b].sha
        /\ \A r \in {a, b} : tags[r].dirty = "false" \/ tags[r].sha # None
    BY DEF Identical, SameTags
  <2>2. \A r \in {a, b} : r \in Runs \ again /\ tags[r].commit \in 1 .. Len(commits)
    <3>1. a \notin again /\ b \notin again
      BY DEF Settled
    <3>2. \A r \in Runs :
            tags[r].commit \in Nat /\ Len(commits) \in Nat /\ tags[r].commit <= Len(commits)
      <4>1. commits \in Seq(Trees) /\ \A r \in Runs : tags[r].commit \in 0 .. MaxCommits
        BY DEF Coherent, TypeOK
      <4>2. \A r \in Runs : tags[r].commit <= Len(commits)
        BY DEF Coherent, Once
      <4>3. Len(commits) \in Nat
        BY <4>1
      <4>4. 0 .. MaxCommits \subseteq Nat
        OBVIOUS
      <4>5. \A r \in Runs : tags[r].commit \in Nat
        BY <4>1, <4>4
      <4> QED
        BY <4>2, <4>3, <4>5
    <3>3. ASSUME NEW r \in Runs, tags[r].commit # 0 PROVE tags[r].commit \in 1 .. Len(commits)
      BY <3>2, <3>3
    <3> QED
      BY <3>1, <3>3
  <2>3. CASE tags[a].sha = None
    <3>1. \A r \in {a, b} : Restored(r) = commits[tags[r].commit]
      BY <2>1, <2>2, <2>3 DEF Restored
    <3>2. commits[tags[a].commit] \in Trees
      BY <2>2 DEF Coherent, TypeOK
    <3> QED
      BY <2>1, <2>3, <3>1, <3>2, RunsAssumption
  <2>4. CASE tags[a].sha # None
    <3>1. \A r \in {a, b} : Downloaded(r) # None => Downloaded(r) = tags[r].sha
      <4> SUFFICES ASSUME NEW r \in {a, b}, Downloaded(r) # None PROVE Downloaded(r) = tags[r].sha
        OBVIOUS
      <4>1. CASE Refers(r)
        BY <2>2, <4>1 DEF Downloaded, Holder, Refers, Settled, Coherent, Referred, Points
      <4>2. CASE ~Refers(r)
        BY <2>2, <4>2 DEF Downloaded, Holder, Refers, Coherent, Once
      <4> QED
        BY <4>1, <4>2
    <3>2. \A r \in {a, b} : tags[r].dirty = "true"
      BY <2>1, <2>2, <2>4 DEF Coherent, Once
    <3>3. Downloaded(a) # None /\ Downloaded(b) # None => Downloaded(a) = Downloaded(b)
      BY <2>1, <3>1
    <3> QED
      BY <2>1, <2>4, <3>2, <3>3 DEF Restored
  <2> QED
    BY <2>3, <2>4
<1> QED
  BY <1>1, CoherentInvariant, PTL
-----------------------------------------------------------------------------
(* What a capture leaves that nothing disturbed.                           *)

LEMMA StepUndisturbed ==
  ASSUME Coherent, Undisturbed, Next
  PROVE  Undisturbed'
<1>1. ASSUME NEW t \in Trees, Edit(t) PROVE Undisturbed'
  <2> SUFFICES ASSUME cur # None, seen'[cur] # {} PROVE Undisturbed'
    BY <1>1 DEF Edit, Undisturbed, capture
  <2>1. seen[cur] # {} /\ seen'[cur] = seen[cur] \union {t} /\ cur \in Runs
    BY <1>1 DEF Edit, Coherent, TypeOK
  <2> QED
    BY <1>1, <2>1, SameLeft DEF Edit, Undisturbed, Base, Refers, mlflow, capture
<1>2. CASE Exit \/ GitFail \/ RecordFail
  <2>1. cur \in Runs => seen'[cur] = {}
    BY <1>2 DEF Exit, GitFail, RecordFail, Flawed
  <2>2. cur' = cur \/ cur' = None
    BY <1>2 DEF Exit, GitFail, RecordFail, capture
  <2> QED
    BY <2>1, <2>2 DEF Undisturbed, Coherent, TypeOK
<1>3. ASSUME NEW r \in Runs, StartRun(r) PROVE Undisturbed'
  <2>1. cur' = r /\ seen'[r] = {tree} /\ tree' = tree /\ step' = "read"
    BY <1>3 DEF StartRun, Startable, Coherent, TypeOK, Planned, repo
  <2> QED
    BY <2>1 DEF Undisturbed
<1>4. CASE (\E r \in Runs : StartPlain(r)) \/ EndRun \/ Captured
  <2>1. cur' = None
    BY <1>4 DEF StartPlain, Startable, EndRun, Captured, capture
  <2> QED
    BY <2>1 DEF Undisturbed
<1>5. CASE ReadState
  <2> SUFFICES ASSUME cur # None, seen[cur] # {} PROVE Undisturbed'
    BY <1>5 DEF ReadState, Undisturbed, past
  <2>1. /\ cur' = cur /\ seen' = seen /\ tree' = tree /\ step' = "diff"
        /\ state'.commit = Len(commits) /\ commits' = commits
    BY <1>5 DEF ReadState, Coherent, TypeOK, repo, past
  <2> QED
    BY <2>1 DEF Undisturbed
<1>6. CASE BuildPatch
  <2> SUFFICES ASSUME cur # None, seen'[cur] # {} PROVE Undisturbed'
    BY <1>6 DEF BuildPatch, Undisturbed
  <2> DEFINE holder == IF Built = None THEN None ELSE Inherited(Built)
  <2>1. /\ todo' = Requests(Built, holder) /\ step' = "record" /\ step = "diff"
        /\ state'.commit = state.commit /\ state'.patch = Built
        /\ state'.dirty = Dirty(Built) /\ state'.holder = holder
        /\ cur' = cur /\ commits' = commits /\ tree' = tree
    BY <1>6 DEF BuildPatch, Coherent, TypeOK, repo
  <2>2. ~TooLarge /\ seen' = seen
    <3>1. cur \in Runs
      BY DEF Coherent, TypeOK
    <3> QED
      BY <1>6, <3>1 DEF BuildPatch, Flawed
  <2>3. tree \in seen[cur] /\ state.commit = Len(commits)
    BY <2>1, <2>2 DEF Undisturbed
  <2>4. /\ Left("commit")' /\ Left("dirty")'
        /\ Built # None => Left("sha")' /\ (Left("artifact")' \/ Left("holder")')
    BY <2>1, RequestsLeft
  <2>5. Base' = AtHead /\ state'.commit \in 1 .. Len(commits')
    BY <2>1, <2>3 DEF Base, AtHead, Coherent, TypeOK
  <2>6. IF Built = None THEN Dirty(Built) = "false" /\ AtHead \in seen[cur]
        ELSE Built[1] = AtHead /\ Built[2] \in seen[cur]
    <3>1. CASE Changed
      <4>1. AtHead \in Trees /\ tree \in Trees
        BY DEF Coherent, TypeOK, AtHead
      <4>2. Built = <<AtHead, tree>>
        BY <2>2, <3>1 DEF Built
      <4> QED
        BY <2>3, <4>1, <4>2, RunsAssumption
    <3>2. CASE ~Changed
      BY <2>2, <2>3, <3>2 DEF Built, Dirty, Changed
    <3> QED
      BY <3>1, <3>2
  <2> QED
    BY <2>1, <2>2, <2>3, <2>4, <2>5, <2>6 DEF Undisturbed
<1>7. CASE Record
  <2> SUFFICES ASSUME cur # None, seen[cur] # {} PROVE Undisturbed'
    BY <1>7 DEF Record, Undisturbed, past
  <2>1. /\ tree' = tree /\ seen' = seen /\ Base' = Base /\ cur' = cur /\ state' = state
        /\ commits' = commits /\ step = "record" /\ step' = "record"
    BY <1>7 DEF Record, Base, repo, past
  <2>2. Left("commit")' \/ tags'[cur].commit = state.commit
    BY <1>7, <2>1, Requested DEF Undisturbed
  <2>3. Left("dirty")' \/ tags'[cur].dirty = state.dirty
    BY <1>7, <2>1, Requested DEF Undisturbed
  <2>4. state.patch # None => Left("sha")' \/ tags'[cur].sha = state.patch
    BY <1>7, <2>1, Requested DEF Undisturbed
  <2>5. state.patch # None =>
          Left("artifact")' \/ Left("holder")' \/ tags'[cur].holder # None
            \/ artifact'[cur] = state.patch
    <3>1. todo[1] = "holder" => state.holder # None
      BY <1>7, HeadFirst DEF Record, Coherent, Planned
    <3> QED
      BY <1>7, <2>1, <3>1, Requested DEF Undisturbed, Refers
  <2> QED
    BY <2>1, <2>2, <2>3, <2>4, <2>5 DEF Undisturbed, Refers
<1>8. CASE Commit
  <2> SUFFICES ASSUME cur # None, seen'[cur] # {} PROVE Undisturbed'
    BY <1>8 DEF Commit, Undisturbed, capture
  <2>1. /\ step # "diff" /\ seen' = seen /\ tree' = tree /\ cur' = cur /\ step' = step
        /\ state' = state /\ todo' = todo /\ tags' = tags /\ artifact' = artifact
    <3>1. cur \in Runs
      BY DEF Coherent, TypeOK
    <3> QED
      BY <1>8, <3>1 DEF Commit, Flawed, capture, mlflow
  <2>2. /\ Len(commits') \in Nat /\ Len(commits) \in Nat /\ Len(commits) <= Len(commits')
        /\ \A c \in 1 .. Len(commits) : commits'[c] = commits[c]
    BY CommitsGrow DEF Coherent
  <2>3. CASE step # "record"
    BY <2>1, <2>3 DEF Undisturbed
  <2>4. CASE step = "record"
    <3>1. state.commit \in 1 .. Len(commits)
      BY <2>1, <2>4 DEF Undisturbed
    <3>2. Base' = Base /\ state'.commit \in 1 .. Len(commits')
      BY <2>1, <2>2, <3>1 DEF Base
    <3> QED
      BY <2>1, <2>4, <3>2, SameLeft DEF Undisturbed, Refers
  <2> QED
    BY <2>3, <2>4
<1> QED
  BY <1>1, <1>2, <1>3, <1>4, <1>5, <1>6, <1>7, <1>8 DEF Next, Capture

LEMMA StepComplete ==
  ASSUME Coherent, Undisturbed, Complete, Next
  PROVE  Complete'
<1>1. /\ Len(commits') \in Nat /\ Len(commits) \in Nat /\ Len(commits) <= Len(commits')
      /\ \A c \in 1 .. Len(commits) : commits'[c] = commits[c]
  BY CommitsGrow DEF Coherent
<1>2. ASSUME NEW r \in Runs, r # cur, seen[r] # {},
             tags'[r] = tags[r], artifact'[r] = artifact[r], seen'[r] = seen[r]
      PROVE  /\ tags'[r].commit \in 1 .. Len(commits')
             /\ IF tags'[r].dirty = "true"
                THEN /\ tags'[r].sha # None
                     /\ tags'[r].sha[1] = commits'[tags'[r].commit]
                     /\ tags'[r].sha[2] \in seen'[r]
                     /\ tags'[r].holder # None \/ artifact'[r] = tags'[r].sha
                ELSE commits'[tags'[r].commit] \in seen'[r]
  BY <1>1, <1>2 DEF Complete, Refers
<1>3. ASSUME NEW r \in Runs, cur = r, Captured, seen[r] # {}
      PROVE  /\ tags[r].commit \in 1 .. Len(commits)
             /\ IF tags[r].dirty = "true"
                THEN /\ tags[r].sha # None
                     /\ tags[r].sha[1] = commits[tags[r].commit] /\ tags[r].sha[2] \in seen[r]
                     /\ Refers(r) \/ artifact[r] = tags[r].sha
                ELSE commits[tags[r].commit] \in seen[r]
  <2>1. cur # None /\ step = "record" /\ \A k : ~Left(k)
    BY <1>3, NothingLeft DEF Captured
  <2>2. /\ tags[r].commit \in 1 .. Len(commits) /\ commits[tags[r].commit] = Base
        /\ tags[r].dirty = state.dirty
    BY <1>3, <2>1 DEF Undisturbed, Base
  <2>3. CASE state.patch = None
    BY <1>3, <2>1, <2>2, <2>3 DEF Undisturbed
  <2>4. CASE state.patch # None
    <3>1. tags[r].sha = state.patch /\ (Refers(r) \/ artifact[r] = state.patch)
      BY <1>3, <2>1, <2>4 DEF Undisturbed
    <3>2. tags[r].dirty = "true"
      BY <2>2, <2>4 DEF Coherent, Planned
    <3>3. state.patch[1] = Base /\ state.patch[2] \in seen[r]
      BY <1>3, <2>1, <2>4 DEF Undisturbed
    <3> QED
      BY <2>2, <2>4, <3>1, <3>2, <3>3
  <2> QED
    BY <2>3, <2>4
<1>4. CASE Captured
  <2>1. UNCHANGED <<commits, tags, artifact, seen>>
    BY <1>4 DEF Captured, repo, mlflow, past
  <2>2. ASSUME NEW r \in Runs, seen[r] # {}
        PROVE  /\ tags[r].commit \in 1 .. Len(commits)
               /\ IF tags[r].dirty = "true"
                  THEN /\ tags[r].sha # None
                       /\ tags[r].sha[1] = commits[tags[r].commit] /\ tags[r].sha[2] \in seen[r]
                       /\ Refers(r) \/ artifact[r] = tags[r].sha
                  ELSE commits[tags[r].commit] \in seen[r]
    BY <1>3, <1>4, <2>2 DEF Complete
  <2> QED
    BY <2>1, <2>2 DEF Complete, Refers
<1>5. CASE ~Captured
  <2> SUFFICES ASSUME NEW r \in Runs, r # cur', seen'[r] # {}
               PROVE  /\ tags'[r].commit \in 1 .. Len(commits')
                      /\ IF tags'[r].dirty = "true"
                         THEN /\ tags'[r].sha # None
                              /\ tags'[r].sha[1] = commits'[tags'[r].commit]
                              /\ tags'[r].sha[2] \in seen'[r]
                              /\ tags'[r].holder # None \/ artifact'[r] = tags'[r].sha
                         ELSE commits'[tags'[r].commit] \in seen'[r]
    BY DEF Complete, Refers
  <2>1. r # cur /\ seen'[r] = seen[r]
    <3> USE DEF Coherent, TypeOK, capture, past
    <3>1. ASSUME NEW t \in Trees, Edit(t) PROVE r # cur /\ seen'[r] = seen[r]
      BY <3>1 DEF Edit
    <3>2. CASE Commit \/ Exit \/ GitFail \/ RecordFail
      BY <3>2 DEF Commit, Exit, GitFail, RecordFail, Flawed
    <3>3. ASSUME NEW q \in Runs, StartRun(q) PROVE r # cur /\ seen'[r] = seen[r]
      BY <3>3, RunsAssumption DEF StartRun, Startable
    <3>4. ASSUME NEW q \in Runs, StartPlain(q) PROVE r # cur /\ seen'[r] = seen[r]
      BY <3>4 DEF StartPlain
    <3>5. CASE EndRun \/ ReadState \/ Record
      BY <3>5 DEF EndRun, ReadState, Record
    <3>6. CASE BuildPatch
      BY <3>6 DEF BuildPatch, Flawed
    <3> QED
      BY <1>5, <3>1, <3>2, <3>3, <3>4, <3>5, <3>6 DEF Next, Capture
  <2>2. tags'[r] = tags[r] /\ artifact'[r] = artifact[r]
    <3>1. CASE Record \/ RecordFail
      BY <2>1, <3>1, OneTouched
    <3>2. CASE UNCHANGED <<tags, artifact>>
      BY <3>2
    <3> QED
      BY <3>1, <3>2
      DEF Next, Capture, Edit, Commit, StartRun, StartPlain, EndRun, Exit, ReadState, BuildPatch,
          GitFail, Captured, mlflow
  <2> QED
    BY <1>2, <2>1, <2>2
<1> QED
  BY <1>4, <1>5

LEMMA RecordInvariant == Spec => [](Coherent /\ Undisturbed /\ Complete)
<1>1. Init => Undisturbed /\ Complete
  BY DEF Init, Undisturbed, Complete
<1>2. Coherent /\ Undisturbed /\ Complete /\ [Next]_vars => Undisturbed' /\ Complete'
  <2>1. ASSUME Undisturbed, Complete, UNCHANGED vars PROVE Undisturbed' /\ Complete'
    BY <2>1 DEF Undisturbed, Complete, Refers, Base, Left, Has, vars, repo, mlflow, capture, past
  <2> QED
    BY <2>1, StepUndisturbed, StepComplete
<1> QED
  BY <1>1, <1>2, CoherentInvariant, PTL DEF Spec

(* A run captured with nothing reported is reconstructed as a tree there   *)
(* was during its capture, whatever ran, failed or was committed since:    *)
(* the invariant Reproducible.                                             *)
THEOREM ReproducibleCorrect == Spec => []Reproducible
<1>1. Coherent /\ Complete => Reproducible
  <2> SUFFICES ASSUME Coherent, Complete, NEW r \in Runs, r # cur, seen[r] # {},
                      Refers(r) => Settled(r)
               PROVE  Restored(r) \in seen[r]
    BY DEF Reproducible
  <2>1. tags[r].commit # 0
    BY DEF Complete
  <2>2. CASE tags[r].dirty # "true"
    BY <2>1, <2>2 DEF Complete, Restored
  <2>3. CASE tags[r].dirty = "true"
    <3>1. Downloaded(r) = tags[r].sha
      <4>1. CASE Refers(r)
        <5>1. Points(tags[r].holder, tags[r].sha) /\ tags[r].holder \notin again
          BY <4>1 DEF Settled, Refers, Holder, Coherent, Referred
        <5> QED
          BY <4>1, <5>1 DEF Refers, Holder, Downloaded, Points
      <4>2. CASE ~Refers(r)
        BY <2>3, <4>2 DEF Refers, Holder, Downloaded, Complete
      <4> QED
        BY <4>1, <4>2
    <3> QED
      BY <2>1, <2>3, <3>1 DEF Complete, Restored
  <2> QED
    BY <2>2, <2>3
<1> QED
  BY <1>1, RecordInvariant, PTL
=============================================================================
