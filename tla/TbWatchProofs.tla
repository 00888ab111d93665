--------------------------- MODULE TbWatchProofs ---------------------------
(***************************************************************************)
(* What the watch thread keeps true for any number of runs, any selection  *)
(* and any interleaving with MLflow, the writers and a failing server.     *)
(*                                                                         *)
(* BooksAgree and ChecksCover are not inductive: whether a pass may link a *)
(* run depends on where the pass is and on what its earlier steps left in  *)
(* its locals.  Books adds that.  Absent does the same for GoneStaysGone.  *)
(***************************************************************************)
EXTENDS TbWatch, TLAPS

(* The locals of a pass: what they hold, and when they hold nothing.       *)
PassShape ==
  /\ running \subseteq batch /\ live \subseteq batch /\ got \subseteq batch
  /\ pc = "fetch" => todo \subseteq batch
  /\ pc = "repoint" => todo \subseteq links
  /\ pc \notin {"fetch", "repoint"} => todo = {}
  /\ pc \notin {"targets", "fetch"} => caller = "none" /\ batch = {}
  /\ pc = "targets" => caller # "refresh" /\ live = {} /\ got = {}
  /\ pc \in {"targets", "fetch"} => caller # "none"

(* Only a run that is neither handled nor pending is linked by add(), and  *)
(* only a pending one by _pending_pass.                                    *)
LinkedOnce ==
  /\ caller \in {"start", "follow"} => batch \intersect Known = {}
  /\ caller = "pending" => batch \subseteq pending
  /\ pc = "start" => Known = {}
  /\ mode.copies => live = {} /\ links = {}

(* `cached` of _loop: shown from files before this pass changed a link.    *)
RefreshedShown ==
  /\ shownFiles \subseteq Shown \ links
  /\ caller = "refresh" => batch = running \union (refreshing \intersect shownFiles)
                           /\ running \subseteq shownFiles
  /\ checked /\ pc = "list" => \A r \in links : statuses[r] # "missing"

Books ==
  /\ TypeOK
  /\ PassShape
  /\ LinkedOnce
  /\ RefreshedShown
  /\ BooksAgree
  /\ ChecksCover

(* A removed run is deleted, and no pass has it under way.                 *)
Absent ==
  /\ GoneStaysGone
  /\ removed \subseteq deleted
  /\ removed \intersect batch = {}
  /\ pc = "start" => removed = {}
  /\ checked => \A r \in removed : statuses[r] = "missing"
-----------------------------------------------------------------------------
(* Type correctness.                                                       *)

(* Each step of MLflow, a writer or the server keeps the types.            *)
LEMMA EnvironmentTypes == TypeOK /\ Environment => TypeOK'
<1> SUFFICES ASSUME TypeOK, Environment PROVE TypeOK'
  OBVIOUS
<1> USE DEF TypeOK, Status, Dashboard, mlflow, history, files, books, locals, call, pass
<1>1. ASSUME NEW r \in Runs, StartRun(r) PROVE TypeOK'
  BY <1>1 DEF StartRun
<1>2. ASSUME NEW r \in Runs, OpenWriter(r) PROVE TypeOK'
  BY <1>2 DEF OpenWriter
<1>3. ASSUME NEW r \in Runs, Upload(r) PROVE TypeOK'
  BY <1>3 DEF Upload
<1>4. ASSUME NEW r \in Runs, CloseWriter(r) PROVE TypeOK'
  BY <1>4 DEF CloseWriter
<1>5. ASSUME NEW r \in Runs, EndRun(r) PROVE TypeOK'
  BY <1>5 DEF EndRun
<1>6. ASSUME NEW r \in Runs, ResumeRun(r) PROVE TypeOK'
  BY <1>6 DEF ResumeRun
<1>7. ASSUME NEW r \in Runs, DeleteRun(r) PROVE TypeOK'
  BY <1>7 DEF DeleteRun
<1>8. ASSUME NEW r \in Runs, RestoreRun(r) PROVE TypeOK'
  BY <1>8 DEF RestoreRun
<1>9. CASE Stabilise
  BY <1>9 DEF Stabilise
<1> QED
  BY <1>1, <1>2, <1>3, <1>4, <1>5, <1>6, <1>7, <1>8, <1>9 DEF Environment

LEMMA NoStatusesType == NoStatuses \in [Runs -> Status \union {"missing"}]
BY DEF NoStatuses

(* At most one more report for each run of a fetch or a copy.              *)
LEMMA ReportedType ==
  ASSUME NEW S, NEW fails, reports \in [Runs -> 0 .. 2]
  PROVE  Reported(S, fails) \in [Runs -> 0 .. 2]
<1> SUFFICES ASSUME NEW r \in Runs PROVE Reported(S, fails)[r] \in 0 .. 2
  BY DEF Reported
<1> QED
  BY DEF Reported

(* The links and the files that link() leaves.                             *)
LEMMA MakeLinksType ==
  ASSUME TypeOK, NEW done \in SUBSET Runs, NEW fails \in SUBSET done, MakeLinks(done, fails)
  PROVE  /\ link' \in [Runs -> {"none", "live", "files"}]
         /\ held' \in [Runs -> {"none", "stale", "fresh"}]
         /\ reports' \in [Runs -> 0 .. 2]
         /\ failing' \subseteq Runs
<1>1. reports' \in [Runs -> 0 .. 2]
  BY ReportedType DEF TypeOK, MakeLinks
<1> QED
  BY <1>1 DEF TypeOK, MakeLinks

(* Each step of the thread keeps the types.                                *)
LEMMA ThreadTypes == TypeOK /\ PassShape /\ Thread => TypeOK'
<1> SUFFICES ASSUME TypeOK, PassShape, Thread PROVE TypeOK'
  OBVIOUS
<1> USE ConstantsAssumption
    DEF TypeOK, Status, mlflow, history, files, books, locals, call, pass
<1>1. CASE Start
  BY <1>1 DEF Start, CallAdd, CallLink, WithAttempts
<1>2. CASE CheckOk
  BY <1>2 DEF CheckOk, Unwatch, Watched, Gone, Shown
<1>3. CASE CheckFail
  BY <1>3, NoStatusesType DEF CheckFail, Shown
<1>4. CASE ListGone
  BY <1>4 DEF ListGone, GoneDirs
<1>5. CASE Repointed
  BY <1>5 DEF Repointed
<1>6. CASE FollowPass
  BY <1>6 DEF FollowPass, CallAdd, CallLink, WithAttempts, Known, Ready
<1>7. CASE FollowFail
  BY <1>7 DEF FollowFail
<1>8. CASE LinkTargets
  BY <1>8 DEF LinkTargets
<1>9. CASE Link
  <2>1. Targets \in SUBSET Runs
    BY DEF Targets
  <2>2. PICK fails \in SUBSET Targets : MakeLinks(Targets, fails)
    BY <1>9 DEF Link
  <2>3. /\ link' \in [Runs -> {"none", "live", "files"}]
        /\ held' \in [Runs -> {"none", "stale", "fresh"}]
        /\ reports' \in [Runs -> 0 .. 2]
        /\ failing' \subseteq Runs
    BY <2>1, <2>2, MakeLinksType
  <2>4. refreshing' \subseteq Runs /\ links' \subseteq Runs /\ pending' \subseteq Runs
        /\ handled' \subseteq Runs
    BY <1>9, <2>1 DEF Link, StillPending
  <2>5. pc' \in {"wait", "pending", "refresh"}
    BY <1>9 DEF Link, PassShape
  <2> QED
    BY <1>9, <2>3, <2>4, <2>5 DEF Link, Return
<1>10. CASE LinkRaises
  <2>1. PICK done \in SUBSET (Targets \ Unlinkable) : \E fails \in SUBSET done :
          /\ MakeLinks(done, fails)
          /\ refreshing' = refreshing \union fails
          /\ handled' = handled \union done
          /\ pending' = StillPending(done)
    BY <1>10 DEF LinkRaises
  <2>2. done \in SUBSET Runs
    BY DEF Targets
  <2>3. /\ link' \in [Runs -> {"none", "live", "files"}]
        /\ held' \in [Runs -> {"none", "stale", "fresh"}]
        /\ reports' \in [Runs -> 0 .. 2]
        /\ failing' \subseteq Runs
    BY <2>1, <2>2, MakeLinksType
  <2>4. pc' \in {"failed", "pending", "dead"}
    BY <1>10 DEF LinkRaises, PassShape
  <2> QED
    BY <1>10, <2>1, <2>2, <2>3, <2>4 DEF LinkRaises, Return, StillPending
<1>11. CASE PendingPass
  BY <1>11 DEF PendingPass, CallLink, Tried
<1>12. CASE RefreshPass
  BY <1>12 DEF RefreshPass
<1>13. CASE Refreshed
  BY <1>13, NoStatusesType DEF Refreshed, StillFailing, StillDue, Return, EndPass
<1>14. CASE SkipRest
  BY <1>14, NoStatusesType DEF SkipRest, EndPass
<1>15. ASSUME NEW r \in Runs, FetchOk(r) PROVE TypeOK'
  BY <1>15 DEF FetchOk, Fetched, Reported
<1>16. ASSUME NEW r \in Runs, FetchFail(r) PROVE TypeOK'
  BY <1>16 DEF FetchFail, Partial, Reported
<1>17. ASSUME NEW r \in Runs, RepointOk(r) PROVE TypeOK'
  BY <1>17 DEF RepointOk, Fetched
<1>18. ASSUME NEW r \in Runs, RepointFail(r) PROVE TypeOK'
  BY <1>18 DEF RepointFail, Partial
<1> QED
  BY <1>1, <1>2, <1>3, <1>4, <1>5, <1>6, <1>7, <1>8, <1>9, <1>10, <1>11, <1>12, <1>13, <1>14, <1>15, <1>16, <1>17, <1>18 DEF Thread
-----------------------------------------------------------------------------
(* The books.                                                              *)

LEMMA EnvironmentBooks == Books /\ Environment => Books'
<1> SUFFICES ASSUME Books, Environment PROVE Books'
  OBVIOUS
<1>1. TypeOK'
  BY EnvironmentTypes DEF Books
<1>2. UNCHANGED <<link, mode, books, pc, locals, call, todo, got>>
  BY DEF Environment, Dashboard, files, pass, StartRun, OpenWriter, Upload, CloseWriter,
         EndRun, ResumeRun, DeleteRun, RestoreRun, Stabilise
<1> QED
  BY <1>1, <1>2 DEF Books, PassShape, LinkedOnce, RefreshedShown, BooksAgree, ChecksCover,
                    Known, Shown, books, locals, call

LEMMA ThreadBooks == Books /\ Thread => Books'
<1> SUFFICES ASSUME Books, Thread PROVE Books'
  OBVIOUS
<1>0. TypeOK'
  BY ThreadTypes DEF Books
<1> USE <1>0
    DEF Books, PassShape, LinkedOnce, RefreshedShown, BooksAgree, ChecksCover, Known, Shown,
        TypeOK, mlflow, history, files, books, locals, call, pass
<1>1. CASE Start
  BY <1>1 DEF Start, CallAdd, CallLink, WithAttempts
<1>2. CASE CheckOk
  <2>1. \A r \in Runs : r \in Shown' <=> r \in Shown \ Gone
    BY <1>2 DEF CheckOk
  <2>2. PassShape' /\ LinkedOnce'
    BY <1>2 DEF CheckOk, Unwatch
  <2>3. BooksAgree'
    BY <1>2, <2>1 DEF CheckOk, Unwatch, Gone
  <2>4. \A r \in Watched \ Gone : statuses'[r] # "missing"
    <3>1. \A r \in Watched \ Gone : r \in Runs /\ status[r] # "missing"
      BY DEF Watched, Status
    <3>2. statuses' = [r \in Runs |-> IF r \in Watched \ Gone THEN status[r] ELSE "missing"]
      BY <1>2 DEF CheckOk
    <3> QED
      BY ONLY <3>1, <3>2
  <2>5. RefreshedShown' /\ ChecksCover'
    BY <1>2, <2>1, <2>4 DEF CheckOk, Unwatch, Watched
  <2> QED
    BY <2>2, <2>3, <2>5
<1>3. CASE CheckFail
  BY <1>3 DEF CheckFail, NoStatuses
<1>4. CASE ListGone
  BY <1>4 DEF ListGone, GoneDirs
<1>5. CASE Repointed
  BY <1>5 DEF Repointed
<1>6. CASE FollowPass
  BY <1>6 DEF FollowPass, CallAdd, CallLink, WithAttempts, Ready
<1>7. CASE FollowFail
  BY <1>7 DEF FollowFail
<1>8. CASE LinkTargets
  BY <1>8 DEF LinkTargets
<1>9. CASE Link
  BY <1>9 DEF Link, Targets, MakeLinks, StillPending, Return
<1>10. CASE LinkRaises
  BY <1>10 DEF LinkRaises, Targets, MakeLinks, StillPending, Return
<1>11. CASE PendingPass
  BY <1>11 DEF PendingPass, CallLink, Tried
<1>12. CASE RefreshPass
  BY <1>12 DEF RefreshPass
<1>13. CASE Refreshed
  BY <1>13 DEF Refreshed, StillFailing, StillDue, Return, EndPass
<1>14. CASE SkipRest
  BY <1>14 DEF SkipRest, EndPass, NoStatuses
<1>15. ASSUME NEW r \in Runs, FetchOk(r) PROVE Books'
  <2>1. UNCHANGED <<link, mode, books, pc, locals, call>>
    BY <1>15 DEF FetchOk
  <2>2. pc = "fetch" /\ todo' = todo \ {r} /\ got' = got \union {r} /\ r \in todo
    BY <1>15 DEF FetchOk
  <2> QED
    BY <2>1, <2>2
<1>16. ASSUME NEW r \in Runs, FetchFail(r) PROVE Books'
  BY <1>16 DEF FetchFail
<1>17. ASSUME NEW r \in Runs, RepointOk(r) PROVE Books'
  BY <1>17 DEF RepointOk
<1>18. ASSUME NEW r \in Runs, RepointFail(r) PROVE Books'
  BY <1>18 DEF RepointFail
<1> QED
  BY <1>1, <1>2, <1>3, <1>4, <1>5, <1>6, <1>7, <1>8, <1>9, <1>10, <1>11, <1>12, <1>13, <1>14, <1>15, <1>16, <1>17, <1>18 DEF Thread

LEMMA InitBooks == Init => Books
<1> SUFFICES ASSUME Init PROVE Books
  OBVIOUS
<1>1. status \in [Runs -> Status] /\ statuses \in [Runs -> Status \union {"missing"}]
  BY DEF Init, Status
<1>2. stable \in BOOLEAN
  BY DEF Init
<1>3. link \in [Runs -> {"none", "live", "files"}] /\ held \in [Runs -> {"none", "stale", "fresh"}]
  BY DEF Init
<1>4. reports \in [Runs -> 0 .. 2]
  BY DEF Init
<1>5. TypeOK
  BY <1>1, <1>2, <1>3, <1>4 DEF Init, TypeOK
<1>6. Shown = {}
  BY DEF Init, Shown
<1> QED
  BY <1>5, <1>6
  DEF Init, Books, PassShape, LinkedOnce, RefreshedShown, BooksAgree, ChecksCover, Known

LEMMA BooksStutter == Books /\ UNCHANGED vars => Books'
BY DEF vars, mlflow, history, files, books, locals, call, pass, Books, TypeOK, PassShape,
       LinkedOnce, RefreshedShown, BooksAgree, ChecksCover, Known, Shown

LEMMA BooksInvariant == Spec => []Books
<1>1. Books /\ [Next]_vars => Books'
  BY EnvironmentBooks, ThreadBooks, BooksStutter DEF Next
<1> QED
  BY InitBooks, <1>1, PTL DEF Spec

(* Every variable keeps its type.                                          *)
THEOREM TypeCorrect == Spec => []TypeOK
<1>1. Books => TypeOK
  BY DEF Books
<1> QED
  BY BooksInvariant, <1>1, PTL

(* _handled, _pending, _links, _refreshing and _refresh_failing agree with *)
(* the links in the directory after every step of every pass.              *)
THEOREM BooksCorrect == Spec => []BooksAgree
<1>1. Books => BooksAgree
  BY DEF Books
<1> QED
  BY BooksInvariant, <1>1, PTL

(* The thread never looks up a status or a link its check did not find.    *)
THEOREM ChecksCoverCorrect == Spec => []ChecksCover
<1>1. Books => ChecksCover
  BY DEF Books
<1> QED
  BY BooksInvariant, <1>1, PTL
-----------------------------------------------------------------------------
(* Removal.                                                                *)

(* Only the check takes a link away, and only of a deleted run.            *)
LEMMA OnlyCheckRemoves ==
  ASSUME TypeOK, [Next]_vars, NEW r \in Runs, link[r] # "none", link'[r] = "none"
  PROVE  r \in deleted
<1>1. link' # link
  OBVIOUS
<1>2. CASE CheckOk
  BY <1>2 DEF CheckOk, Gone, TypeOK
<1>3. CASE \E q \in Runs : RepointOk(q)
  BY <1>3 DEF RepointOk, TypeOK
<1>4. CASE Link \/ LinkRaises
  BY <1>4 DEF Link, LinkRaises, MakeLinks
<1> QED
  BY <1>1, <1>2, <1>3, <1>4
  DEF Next, vars, files, Dashboard, Environment, StartRun, OpenWriter, Upload, CloseWriter,
      EndRun, ResumeRun, DeleteRun, RestoreRun, Stabilise, Thread, Start, CheckFail, ListGone,
      Repointed, FollowPass, FollowFail, LinkTargets, PendingPass, RefreshPass, Refreshed,
      SkipRest, FetchOk, FetchFail, RepointFail

(* A run leaves the dashboard only because it is deleted in MLflow.        *)
THEOREM OnlyDeletedLeaveCorrect == Spec => OnlyDeletedLeave
<1>1. TypeOK /\ [Next]_vars =>
        [\A r \in Runs : link[r] # "none" /\ link'[r] = "none" => r \in deleted]_vars
  BY OnlyCheckRemoves
<1> QED
  BY TypeCorrect, <1>1, PTL DEF Spec, OnlyDeletedLeave

LEMMA EnvironmentAbsent == Books /\ Absent /\ Environment => Absent'
BY DEF Books, TypeOK, Absent, GoneStaysGone, Environment, Dashboard, mlflow, history, files,
       books, locals, call, pass, StartRun, OpenWriter, Upload, CloseWriter, EndRun, ResumeRun,
       DeleteRun, RestoreRun, Stabilise

LEMMA ThreadAbsent ==
  ASSUME Books, Absent, Thread, \A r \in Runs : Attempts[r] = {r}
  PROVE  Absent'
<1> USE DEF Books, PassShape, RefreshedShown, LinkedOnce, BooksAgree, Shown, TypeOK, Absent,
            GoneStaysGone, mlflow, history, files, books, locals, call, pass
<1>1. CASE Start
  BY <1>1 DEF Start, CallAdd, CallLink, WithAttempts
<1>2. CASE CheckOk
  BY <1>2 DEF CheckOk, Watched, Gone
<1>3. CASE CheckFail
  BY <1>3 DEF CheckFail
<1>4. CASE ListGone
  BY <1>4 DEF ListGone
<1>5. CASE Repointed
  BY <1>5 DEF Repointed
<1>6. CASE FollowPass
  BY <1>6 DEF FollowPass, CallAdd, CallLink, WithAttempts, Ready
<1>7. CASE FollowFail
  BY <1>7 DEF FollowFail
<1>8. CASE LinkTargets
  BY <1>8 DEF LinkTargets
<1>9. CASE Link
  BY <1>9 DEF Link, Targets, MakeLinks, Return
<1>10. CASE LinkRaises
  BY <1>10 DEF LinkRaises, Targets, MakeLinks, Return
<1>11. CASE PendingPass
  BY <1>11 DEF PendingPass, CallLink, Tried
<1>12. CASE RefreshPass
  BY <1>12 DEF RefreshPass
<1>13. CASE Refreshed
  BY <1>13 DEF Refreshed, Return, EndPass
<1>14. CASE SkipRest
  BY <1>14 DEF SkipRest, EndPass
<1>15. ASSUME NEW r \in Runs, FetchOk(r) PROVE Absent'
  BY <1>15 DEF FetchOk
<1>16. ASSUME NEW r \in Runs, FetchFail(r) PROVE Absent'
  BY <1>16 DEF FetchFail
<1>17. ASSUME NEW r \in Runs, RepointOk(r) PROVE Absent'
  BY <1>17 DEF RepointOk
<1>18. ASSUME NEW r \in Runs, RepointFail(r) PROVE Absent'
  BY <1>18 DEF RepointFail
<1> QED
  BY <1>1, <1>2, <1>3, <1>4, <1>5, <1>6, <1>7, <1>8, <1>9, <1>10, <1>11, <1>12, <1>13, <1>14, <1>15, <1>16, <1>17, <1>18 DEF Thread

(* Without --chain, a removed run leaves nothing behind and is not brought *)
(* back while it stays deleted.  With it, an attempt is found deleted or   *)
(* not, so a later run that continues it brings it back for a pass.        *)
THEOREM GoneStaysGoneCorrect ==
  ASSUME \A r \in Runs : Attempts[r] = {r}
  PROVE  Spec => []GoneStaysGone
<1>1. Init => Absent
  BY DEF Init, Absent, GoneStaysGone
<1>2. Books /\ Absent /\ [Next]_vars => Absent'
  <2>1. Books /\ Absent /\ UNCHANGED vars => Absent'
    BY DEF Absent, GoneStaysGone, vars, mlflow, history, files, locals, call, pass
  <2> QED
    BY EnvironmentAbsent, ThreadAbsent, <2>1 DEF Next
<1>3. Absent => GoneStaysGone
  BY DEF Absent
<1> QED
  BY BooksInvariant, <1>1, <1>2, <1>3, PTL DEF Spec
=============================================================================
