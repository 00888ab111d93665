------------------------ MODULE TbWatchPromiseProofs ------------------------
(***************************************************************************)
(* What the watch thread keeps for the user of the dashboard: no final     *)
(* events are forgotten, a live link is watched, a failing refresh is      *)
(* reported once, and every step keeps the promise of ShownRuns.           *)
(*                                                                         *)
(* What a step may do depends on what an earlier step of the same pass saw *)
(* and on what MLflow and the writers did since.  The parts below say how  *)
(* far that knowledge is still true.                                       *)
(***************************************************************************)
EXTENDS TbWatchProofs

(* Where a pass is, and what its check left.                               *)
PassChecks ==
  /\ pc \in {"start", "wait"} \/ caller = "start" => ~checked
  /\ pc = "refresh" \/ caller \in {"pending", "refresh"} => checked
  /\ mode.copies /\ caller # "refresh" => todo = {}
  /\ pc = "fetch" => todo \intersect got = {} /\ live \intersect got = {}
                     /\ (caller # "refresh" => live \intersect todo = {})
  /\ caller = "refresh" =>
       pc = "fetch" /\ live = {} /\ running = {r \in shownFiles : statuses[r] = "RUNNING"}

(* Only a run that had been tagged has a directory or a live link, and one *)
(* whose directory is gone never has it back.                              *)
LiveTagged ==
  /\ snapTagged \subseteq tagged /\ live \subseteq tagged /\ dirs \subseteq tagged
  /\ \A r \in Runs : link[r] = "live" => r \in tagged
  /\ pc = "repoint" => todo \intersect dirs = {}

(* Copies are kept of shown runs only.                                     *)
CopiesShown == mode.copies => \A r \in Runs : held[r] # "none" => link[r] # "none"

(* A pass takes a run to be what was last heard of it.  What was fetched   *)
(* of one that is over is all it stored, unless it uploaded since.         *)
OverKnown ==
  /\ \A r \in Runs : statuses[r] # "missing" => (statuses[r] = "RUNNING" <=> heard[r] = "running")
  /\ \A r \in Runs : statuses[r] # "missing" => r \in Known
  /\ \A r \in batch : r \in running <=> heard[r] = "running"
  /\ \A r \in got \ running :
       ~mode.copies \/ caller = "refresh" => Current(r) \/ heard[r] = "late"

(* A run shown from files is due while it was last heard to be running,    *)
(* and until all it stored before it was heard to be over is here.         *)
FilesDue ==
  \A r \in Runs : link[r] = "files" =>
    Due(r) \/ heard[r] = "late" \/ (heard[r] = "over" /\ Current(r))

(* A report stands for a run that is failing, or that failed in the        *)
(* refresh under way.                                                      *)
Quiet ==
  ~mode.copies =>
    /\ checked => failing \subseteq shownFiles
    /\ \A r \in Runs :
         /\ reports[r] <= 1
         /\ reports[r] = 1 => r \in failing \/ (caller = "refresh" /\ r \in batch \ todo)
         /\ caller = "refresh" /\ r \in got => reports[r] = 0

Knowledge ==
  /\ Books
  /\ PassChecks
  /\ LiveTagged
  /\ CopiesShown
  /\ OverKnown
-----------------------------------------------------------------------------
(* How far a pass's knowledge is still true.                               *)

LEMMA InitKnowledge == Init => Knowledge
<1> SUFFICES ASSUME Init PROVE Knowledge
  OBVIOUS
<1>1. Books
  BY InitBooks
<1>2. Shown = {} /\ pending = {} /\ batch = {} /\ got = {}
  BY DEF Init, Shown
<1>3. \A r \in Runs : statuses[r] = "missing"
  BY DEF Init
<1> QED
  BY <1>1, <1>2, <1>3
  DEF Init, Knowledge, PassChecks, LiveTagged, CopiesShown, OverKnown

(* MLflow and the writers leave the dashboard alone.                       *)
LEMMA EnvironmentLeaves ==
  Environment => UNCHANGED <<link, mode, books, reports, pass>>
BY DEF Environment, Dashboard, files, pass, StartRun, OpenWriter, Upload, CloseWriter, EndRun,
       ResumeRun, DeleteRun, RestoreRun, Stabilise

LEMMA EnvironmentKnowledge == Knowledge /\ Environment => Knowledge'
<1> SUFFICES ASSUME Knowledge, Environment PROVE Knowledge'
  OBVIOUS
<1>1. UNCHANGED <<link, mode, books, reports, pass>>
  BY EnvironmentLeaves
<1>2. Books'
  BY EnvironmentBooks DEF Knowledge
<1>3. PassChecks'
  BY <1>1 DEF Knowledge, PassChecks, pass, locals, call
<1> USE DEF Knowledge, Books, TypeOK, PassShape, BooksAgree, Status, books, pass, locals, call,
            Dashboard, mlflow, history, files
<1>4. LiveTagged'
  BY <1>1, ConstantsAssumption
  DEF LiveTagged, Environment, StartRun, OpenWriter, Upload, CloseWriter, EndRun, ResumeRun,
      DeleteRun, RestoreRun, Stabilise
<1>5. CopiesShown'
  BY <1>1
  DEF CopiesShown, Environment, StartRun, OpenWriter, Upload, CloseWriter, EndRun, ResumeRun,
      DeleteRun, RestoreRun, Stabilise
<1>6. OverKnown'
  <2>1. batch \subseteq Runs /\ got \subseteq Runs
    OBVIOUS
  <2> USE DEF OverKnown, Known, Current
  <2>2. ASSUME NEW q \in Runs, StartRun(q) PROVE OverKnown'
    BY <1>1, <2>1, <2>2 DEF StartRun
  <2>3. ASSUME NEW q \in Runs, OpenWriter(q) PROVE OverKnown'
    BY <1>1, <2>1, <2>3 DEF OpenWriter
  <2>4. ASSUME NEW q \in Runs, Upload(q) PROVE OverKnown'
    BY <1>1, <2>1, <2>4 DEF Upload
  <2>5. ASSUME NEW q \in Runs, CloseWriter(q) PROVE OverKnown'
    BY <1>1, <2>1, <2>5 DEF CloseWriter
  <2>6. ASSUME NEW q \in Runs, EndRun(q) PROVE OverKnown'
    BY <1>1, <2>1, <2>6 DEF EndRun
  <2>7. ASSUME NEW q \in Runs, ResumeRun(q) PROVE OverKnown'
    BY <1>1, <2>1, <2>7 DEF ResumeRun
  <2>8. ASSUME NEW q \in Runs, DeleteRun(q) PROVE OverKnown'
    BY <1>1, <2>1, <2>8 DEF DeleteRun
  <2>9. ASSUME NEW q \in Runs, RestoreRun(q) PROVE OverKnown'
    BY <1>1, <2>1, <2>9 DEF RestoreRun
  <2>10. CASE Stabilise
    BY <1>1, <2>1, <2>10 DEF Stabilise
  <2> QED
    BY <2>2, <2>3, <2>4, <2>5, <2>6, <2>7, <2>8, <2>9, <2>10 DEF Environment
<1> QED
  BY <1>2, <1>3, <1>4, <1>5, <1>6

LEMMA ThreadChecks == Knowledge /\ Thread => PassChecks'
<1> SUFFICES ASSUME Knowledge, Thread PROVE PassChecks'
  OBVIOUS
<1> USE DEF Knowledge, Books, TypeOK, PassShape, LinkedOnce, BooksAgree, PassChecks,
            mlflow, history, files, books, locals, call, pass
<1>1. CASE Start
  BY <1>1 DEF Start, CallAdd, CallLink, WithAttempts
<1>2. CASE CheckOk
  BY <1>2 DEF CheckOk, Watched, Gone, Unwatch
<1>3. CASE CheckFail
  BY <1>3 DEF CheckFail, NoStatuses
<1>4. CASE ListGone
  BY <1>4 DEF ListGone, GoneDirs
<1>5. CASE Repointed
  BY <1>5 DEF Repointed
<1>6. CASE FollowPass
  BY <1>6 DEF FollowPass, CallAdd, CallLink, WithAttempts, Ready
<1>7. CASE FollowFail
  BY <1>7 DEF FollowFail
<1>8. CASE LinkTargets
  BY <1>8 DEF LinkTargets
<1>9. CASE Link
  <2>1. caller \in {"start", "follow", "pending"}
    BY <1>9 DEF Link
  <2>2. pc' = (CASE caller = "start" -> "wait" [] caller = "follow" -> "pending"
                 [] caller = "pending" -> "refresh")
    BY <1>9 DEF Link
  <2>3. /\ pc' \in {"wait", "pending", "refresh"}
        /\ pc' = "wait" => caller = "start"
        /\ pc' = "refresh" => caller = "pending"
    BY <2>1, <2>2
  <2> QED
    BY <1>9, <2>3 DEF Link, Return
<1>10. CASE LinkRaises
  <2>1. pc' \in {"failed", "pending", "dead"}
    BY <1>10 DEF LinkRaises
  <2> QED
    BY <1>10, <2>1 DEF LinkRaises, Return
<1>11. CASE PendingPass
  BY <1>11 DEF PendingPass, CallLink, Tried
<1>12. CASE RefreshPass
  BY <1>12 DEF RefreshPass
<1>13. CASE Refreshed
  BY <1>13 DEF Refreshed, StillFailing, StillDue, Return, EndPass, NoStatuses
<1>14. CASE SkipRest
  BY <1>14 DEF SkipRest, EndPass, NoStatuses
<1>15. ASSUME NEW r \in Runs, FetchOk(r) PROVE PassChecks'
  BY <1>15 DEF FetchOk, Fetched, Reported
<1>16. ASSUME NEW r \in Runs, FetchFail(r) PROVE PassChecks'
  BY <1>16 DEF FetchFail, Partial, Reported
<1>17. ASSUME NEW r \in Runs, RepointOk(r) PROVE PassChecks'
  BY <1>17 DEF RepointOk, Fetched
<1>18. ASSUME NEW r \in Runs, RepointFail(r) PROVE PassChecks'
  BY <1>18 DEF RepointFail, Partial
<1> QED
  BY <1>1, <1>2, <1>3, <1>4, <1>5, <1>6, <1>7, <1>8, <1>9, <1>10, <1>11, <1>12, <1>13, <1>14,
     <1>15, <1>16, <1>17, <1>18 DEF Thread

LEMMA ThreadTagged == Knowledge /\ Thread => LiveTagged'
<1> SUFFICES ASSUME Knowledge, Thread PROVE LiveTagged'
  OBVIOUS
<1> USE DEF Knowledge, Books, TypeOK, PassShape, BooksAgree, PassChecks, LiveTagged, Shown,
            mlflow, history, files, books, locals, call, pass
<1>1. CASE Start
  BY <1>1 DEF Start, CallAdd, CallLink, WithAttempts
<1>2. CASE CheckOk
  BY <1>2 DEF CheckOk, Watched, Gone, Unwatch
<1>3. CASE CheckFail
  BY <1>3 DEF CheckFail, NoStatuses
<1>4. CASE ListGone
  BY <1>4 DEF ListGone, GoneDirs
<1>5. CASE Repointed
  BY <1>5 DEF Repointed
<1>6. CASE FollowPass
  BY <1>6 DEF FollowPass, CallAdd, CallLink, WithAttempts, Ready
<1>7. CASE FollowFail
  BY <1>7 DEF FollowFail
<1>8. CASE LinkTargets
  BY <1>8 DEF LinkTargets
<1>9. CASE Link
  BY <1>9 DEF Link, Targets, MakeLinks, StillPending, Return
<1>10. CASE LinkRaises
  BY <1>10 DEF LinkRaises, Targets, MakeLinks, StillPending, Return
<1>11. CASE PendingPass
  BY <1>11 DEF PendingPass, CallLink, Tried
<1>12. CASE RefreshPass
  BY <1>12 DEF RefreshPass
<1>13. CASE Refreshed
  BY <1>13 DEF Refreshed, StillFailing, StillDue, Return, EndPass, NoStatuses
<1>14. CASE SkipRest
  BY <1>14 DEF SkipRest, EndPass, NoStatuses
<1>15. ASSUME NEW r \in Runs, FetchOk(r) PROVE LiveTagged'
  BY <1>15 DEF FetchOk, Fetched, Reported
<1>16. ASSUME NEW r \in Runs, FetchFail(r) PROVE LiveTagged'
  BY <1>16 DEF FetchFail, Partial, Reported
<1>17. ASSUME NEW r \in Runs, RepointOk(r) PROVE LiveTagged'
  BY <1>17 DEF RepointOk, Fetched
<1>18. ASSUME NEW r \in Runs, RepointFail(r) PROVE LiveTagged'
  BY <1>18 DEF RepointFail, Partial
<1> QED
  BY <1>1, <1>2, <1>3, <1>4, <1>5, <1>6, <1>7, <1>8, <1>9, <1>10, <1>11, <1>12, <1>13, <1>14,
     <1>15, <1>16, <1>17, <1>18 DEF Thread

LEMMA ThreadCopies == Knowledge /\ Thread => CopiesShown'
<1> SUFFICES ASSUME Knowledge, Thread PROVE CopiesShown'
  OBVIOUS
<1> USE DEF Knowledge, Books, TypeOK, PassShape, LinkedOnce, RefreshedShown, BooksAgree,
            PassChecks, CopiesShown, Shown,
            mlflow, history, files, books, locals, call, pass
<1>1. CASE Start
  BY <1>1 DEF Start, CallAdd, CallLink, WithAttempts
<1>2. CASE CheckOk
  BY <1>2 DEF CheckOk, Watched, Gone, Unwatch
<1>3. CASE CheckFail
  BY <1>3 DEF CheckFail, NoStatuses
<1>4. CASE ListGone
  BY <1>4 DEF ListGone, GoneDirs
<1>5. CASE Repointed
  BY <1>5 DEF Repointed
<1>6. CASE FollowPass
  BY <1>6 DEF FollowPass, CallAdd, CallLink, WithAttempts, Ready
<1>7. CASE FollowFail
  BY <1>7 DEF FollowFail
<1>8. CASE LinkTargets
  BY <1>8 DEF LinkTargets
<1>9. CASE Link
  BY <1>9 DEF Link, Targets, MakeLinks, StillPending, Return
<1>10. CASE LinkRaises
  BY <1>10 DEF LinkRaises, Targets, MakeLinks, StillPending, Return
<1>11. CASE PendingPass
  BY <1>11 DEF PendingPass, CallLink, Tried
<1>12. CASE RefreshPass
  BY <1>12 DEF RefreshPass
<1>13. CASE Refreshed
  BY <1>13 DEF Refreshed, StillFailing, StillDue, Return, EndPass, NoStatuses
<1>14. CASE SkipRest
  BY <1>14 DEF SkipRest, EndPass, NoStatuses
<1>15. ASSUME NEW r \in Runs, FetchOk(r) PROVE CopiesShown'
  BY <1>15 DEF FetchOk, Fetched, Reported
<1>16. ASSUME NEW r \in Runs, FetchFail(r) PROVE CopiesShown'
  BY <1>16 DEF FetchFail, Partial, Reported
<1>17. ASSUME NEW r \in Runs, RepointOk(r) PROVE CopiesShown'
  BY <1>17 DEF RepointOk, Fetched
<1>18. ASSUME NEW r \in Runs, RepointFail(r) PROVE CopiesShown'
  BY <1>18 DEF RepointFail, Partial
<1> QED
  BY <1>1, <1>2, <1>3, <1>4, <1>5, <1>6, <1>7, <1>8, <1>9, <1>10, <1>11, <1>12, <1>13, <1>14,
     <1>15, <1>16, <1>17, <1>18 DEF Thread

LEMMA ThreadOver == Knowledge /\ Thread => OverKnown'
<1> SUFFICES ASSUME Knowledge, Thread PROVE OverKnown'
  OBVIOUS
<1> USE DEF Knowledge, Books, TypeOK, Status, PassShape, LinkedOnce, RefreshedShown,
            BooksAgree, ChecksCover, PassChecks, OverKnown, Known, Shown, Current,
            mlflow, history, files, books, locals, call, pass
<1>1. CASE Start
  BY <1>1 DEF Start, CallAdd, CallLink, WithAttempts
<1>2. CASE CheckOk
  BY <1>2 DEF CheckOk, Watched, Gone, Unwatch
<1>3. CASE CheckFail
  BY <1>3 DEF CheckFail, NoStatuses
<1>4. CASE ListGone
  BY <1>4 DEF ListGone, GoneDirs
<1>5. CASE Repointed
  BY <1>5 DEF Repointed
<1>6. CASE FollowPass
  BY <1>6 DEF FollowPass, CallAdd, CallLink, WithAttempts, Ready
<1>7. CASE FollowFail
  BY <1>7 DEF FollowFail
<1>8. CASE LinkTargets
  BY <1>8 DEF LinkTargets
<1>9. CASE Link
  BY <1>9 DEF Link, Targets, MakeLinks, StillPending, Return
<1>10. CASE LinkRaises
  BY <1>10 DEF LinkRaises, Targets, MakeLinks, StillPending, Return
<1>11. CASE PendingPass
  BY <1>11 DEF PendingPass, CallLink, Tried
<1>12. CASE RefreshPass
  BY <1>12 DEF RefreshPass
<1>13. CASE Refreshed
  BY <1>13 DEF Refreshed, StillFailing, StillDue, Return, EndPass, NoStatuses
<1>14. CASE SkipRest
  BY <1>14 DEF SkipRest, EndPass, NoStatuses
<1>15. ASSUME NEW r \in Runs, FetchOk(r) PROVE OverKnown'
  BY <1>15 DEF FetchOk, Fetched, Reported
<1>16. ASSUME NEW r \in Runs, FetchFail(r) PROVE OverKnown'
  BY <1>16 DEF FetchFail, Partial, Reported
<1>17. ASSUME NEW r \in Runs, RepointOk(r) PROVE OverKnown'
  BY <1>17 DEF RepointOk, Fetched
<1>18. ASSUME NEW r \in Runs, RepointFail(r) PROVE OverKnown'
  BY <1>18 DEF RepointFail, Partial
<1> QED
  BY <1>1, <1>2, <1>3, <1>4, <1>5, <1>6, <1>7, <1>8, <1>9, <1>10, <1>11, <1>12, <1>13, <1>14,
     <1>15, <1>16, <1>17, <1>18 DEF Thread

LEMMA KnowledgeInvariant == Spec => []Knowledge
<1>1. Knowledge /\ Thread => Knowledge'
  BY ThreadBooks, ThreadChecks, ThreadTagged, ThreadCopies, ThreadOver DEF Knowledge
<1>2. Knowledge /\ UNCHANGED vars => Knowledge'
  <2>1. Books /\ UNCHANGED vars => Books'
    BY BooksStutter
  <2> QED
    BY <2>1
    DEF vars, mlflow, history, files, books, locals, call, pass, Knowledge, PassChecks,
        LiveTagged, CopiesShown, OverKnown, Known, Shown, Current
<1>3. Knowledge /\ [Next]_vars => Knowledge'
  BY EnvironmentKnowledge, <1>1, <1>2 DEF Next
<1> QED
  BY InitKnowledge, <1>3, PTL DEF Spec
-----------------------------------------------------------------------------
(* The links and the files behind them.                                    *)

LEMMA ThreadFilesDue ==
  ASSUME Unlinkable = {}, Knowledge, FilesDue, Thread
  PROVE  FilesDue'
<1> USE DEF Knowledge, Books, TypeOK, Status, PassShape, LinkedOnce, RefreshedShown,
            BooksAgree, ChecksCover, PassChecks, OverKnown, Known, FilesDue, Due, Shown,
            Current, mlflow, history, files, books, locals, call, pass
<1>1. CASE Start
  BY <1>1 DEF Start, CallAdd, CallLink, WithAttempts
<1>2. CASE CheckOk
  BY <1>2 DEF CheckOk, Watched, Gone, Unwatch
<1>3. CASE CheckFail
  BY <1>3 DEF CheckFail, NoStatuses
<1>4. CASE ListGone
  BY <1>4 DEF ListGone, GoneDirs
<1>5. CASE Repointed
  BY <1>5 DEF Repointed
<1>6. CASE FollowPass
  BY <1>6 DEF FollowPass, CallAdd, CallLink, WithAttempts, Ready
<1>7. CASE FollowFail
  BY <1>7 DEF FollowFail
<1>8. CASE LinkTargets
  BY <1>8 DEF LinkTargets
<1>9. CASE Link
  BY <1>9 DEF Link, Targets, MakeLinks, StillPending, Return
<1>10. CASE LinkRaises
  BY <1>10 DEF LinkRaises, Targets, MakeLinks, StillPending, Return
<1>11. CASE PendingPass
  BY <1>11 DEF PendingPass, CallLink, Tried
<1>12. CASE RefreshPass
  BY <1>12 DEF RefreshPass
<1>13. CASE Refreshed
  BY <1>13 DEF Refreshed, StillFailing, StillDue, Return, EndPass, NoStatuses
<1>14. CASE SkipRest
  BY <1>14 DEF SkipRest, EndPass, NoStatuses
<1>15. ASSUME NEW r \in Runs, FetchOk(r) PROVE FilesDue'
  BY <1>15 DEF FetchOk, Fetched, Reported
<1>16. ASSUME NEW r \in Runs, FetchFail(r) PROVE FilesDue'
  BY <1>16 DEF FetchFail, Partial, Reported
<1>17. ASSUME NEW r \in Runs, RepointOk(r) PROVE FilesDue'
  BY <1>17 DEF RepointOk, Fetched
<1>18. ASSUME NEW r \in Runs, RepointFail(r) PROVE FilesDue'
  BY <1>18 DEF RepointFail, Partial
<1> QED
  BY <1>1, <1>2, <1>3, <1>4, <1>5, <1>6, <1>7, <1>8, <1>9, <1>10, <1>11, <1>12, <1>13, <1>14,
     <1>15, <1>16, <1>17, <1>18 DEF Thread

LEMMA ThreadWatched ==
  ASSUME Unlinkable = {}, Knowledge, LiveWatched, Thread
  PROVE  LiveWatched'
<1> USE DEF Knowledge, Books, TypeOK, PassShape, BooksAgree, PassChecks, LiveTagged,
            LiveWatched, Shown,
            mlflow, history, files, books, locals, call, pass
<1>1. CASE Start
  BY <1>1 DEF Start, CallAdd, CallLink, WithAttempts
<1>2. CASE CheckOk
  BY <1>2 DEF CheckOk, Watched, Gone, Unwatch
<1>3. CASE CheckFail
  BY <1>3 DEF CheckFail, NoStatuses
<1>4. CASE ListGone
  BY <1>4 DEF ListGone, GoneDirs
<1>5. CASE Repointed
  BY <1>5 DEF Repointed
<1>6. CASE FollowPass
  BY <1>6 DEF FollowPass, CallAdd, CallLink, WithAttempts, Ready
<1>7. CASE FollowFail
  BY <1>7 DEF FollowFail
<1>8. CASE LinkTargets
  BY <1>8 DEF LinkTargets
<1>9. CASE Link
  BY <1>9 DEF Link, Targets, MakeLinks, StillPending, Return
<1>10. CASE LinkRaises
  BY <1>10 DEF LinkRaises, Targets, MakeLinks, StillPending, Return
<1>11. CASE PendingPass
  BY <1>11 DEF PendingPass, CallLink, Tried
<1>12. CASE RefreshPass
  BY <1>12 DEF RefreshPass
<1>13. CASE Refreshed
  BY <1>13 DEF Refreshed, StillFailing, StillDue, Return, EndPass, NoStatuses
<1>14. CASE SkipRest
  BY <1>14 DEF SkipRest, EndPass, NoStatuses
<1>15. ASSUME NEW r \in Runs, FetchOk(r) PROVE LiveWatched'
  BY <1>15 DEF FetchOk, Fetched, Reported
<1>16. ASSUME NEW r \in Runs, FetchFail(r) PROVE LiveWatched'
  BY <1>16 DEF FetchFail, Partial, Reported
<1>17. ASSUME NEW r \in Runs, RepointOk(r) PROVE LiveWatched'
  BY <1>17 DEF RepointOk, Fetched
<1>18. ASSUME NEW r \in Runs, RepointFail(r) PROVE LiveWatched'
  BY <1>18 DEF RepointFail, Partial
<1> QED
  BY <1>1, <1>2, <1>3, <1>4, <1>5, <1>6, <1>7, <1>8, <1>9, <1>10, <1>11, <1>12, <1>13, <1>14,
     <1>15, <1>16, <1>17, <1>18 DEF Thread

LEMMA ThreadQuiet ==
  ASSUME Knowledge, Quiet, Thread
  PROVE  Quiet'
<1> USE DEF Knowledge, Books, TypeOK, PassShape, LinkedOnce, RefreshedShown, BooksAgree,
            PassChecks, Quiet, Shown,
            mlflow, history, files, books, locals, call, pass
<1>1. CASE Start
  BY <1>1 DEF Start, CallAdd, CallLink, WithAttempts
<1>2. CASE CheckOk
  BY <1>2 DEF CheckOk, Watched, Gone, Unwatch
<1>3. CASE CheckFail
  BY <1>3 DEF CheckFail, NoStatuses
<1>4. CASE ListGone
  BY <1>4 DEF ListGone, GoneDirs
<1>5. CASE Repointed
  BY <1>5 DEF Repointed
<1>6. CASE FollowPass
  BY <1>6 DEF FollowPass, CallAdd, CallLink, WithAttempts, Ready
<1>7. CASE FollowFail
  BY <1>7 DEF FollowFail
<1>8. CASE LinkTargets
  BY <1>8 DEF LinkTargets
<1>9. CASE Link
  BY <1>9 DEF Link, Targets, MakeLinks, StillPending, Return
<1>10. CASE LinkRaises
  BY <1>10 DEF LinkRaises, Targets, MakeLinks, StillPending, Return
<1>11. CASE PendingPass
  BY <1>11 DEF PendingPass, CallLink, Tried
<1>12. CASE RefreshPass
  BY <1>12 DEF RefreshPass
<1>13. CASE Refreshed
  BY <1>13 DEF Refreshed, StillFailing, StillDue, Return, EndPass, NoStatuses
<1>14. CASE SkipRest
  BY <1>14 DEF SkipRest, EndPass, NoStatuses
<1>15. ASSUME NEW r \in Runs, FetchOk(r) PROVE Quiet'
  BY <1>15 DEF FetchOk, Fetched, Reported
<1>16. ASSUME NEW r \in Runs, FetchFail(r) PROVE Quiet'
  BY <1>16 DEF FetchFail, Partial, Reported
<1>17. ASSUME NEW r \in Runs, RepointOk(r) PROVE Quiet'
  BY <1>17 DEF RepointOk, Fetched
<1>18. ASSUME NEW r \in Runs, RepointFail(r) PROVE Quiet'
  BY <1>18 DEF RepointFail, Partial
<1> QED
  BY <1>1, <1>2, <1>3, <1>4, <1>5, <1>6, <1>7, <1>8, <1>9, <1>10, <1>11, <1>12, <1>13, <1>14,
     <1>15, <1>16, <1>17, <1>18 DEF Thread

LEMMA EnvironmentFilesDue == Knowledge /\ FilesDue /\ Environment => FilesDue'
<1> SUFFICES ASSUME Knowledge, FilesDue, Environment PROVE FilesDue'
  OBVIOUS
<1>0. UNCHANGED <<link, mode, books, reports, pass>>
  BY EnvironmentLeaves
<1> USE <1>0
    DEF Knowledge, Books, TypeOK, Status, OverKnown, FilesDue, Due, Shown, Current, Dashboard,
        mlflow, history, files, books, locals, call, pass
<1>1. ASSUME NEW q \in Runs, StartRun(q) PROVE FilesDue'
  BY <1>1 DEF StartRun
<1>2. ASSUME NEW q \in Runs, OpenWriter(q) PROVE FilesDue'
  BY <1>2 DEF OpenWriter
<1>3. ASSUME NEW q \in Runs, Upload(q) PROVE FilesDue'
  BY <1>3 DEF Upload
<1>4. ASSUME NEW q \in Runs, CloseWriter(q) PROVE FilesDue'
  BY <1>4 DEF CloseWriter
<1>5. ASSUME NEW q \in Runs, EndRun(q) PROVE FilesDue'
  BY <1>5 DEF EndRun
<1>6. ASSUME NEW q \in Runs, ResumeRun(q) PROVE FilesDue'
  BY <1>6 DEF ResumeRun
<1>7. ASSUME NEW q \in Runs, DeleteRun(q) PROVE FilesDue'
  BY <1>7 DEF DeleteRun
<1>8. ASSUME NEW q \in Runs, RestoreRun(q) PROVE FilesDue'
  BY <1>8 DEF RestoreRun
<1>9. CASE Stabilise
  BY <1>9 DEF Stabilise
<1> QED
  BY <1>1, <1>2, <1>3, <1>4, <1>5, <1>6, <1>7, <1>8, <1>9 DEF Environment

(* Where every link can be made, no final events are forgotten: a run      *)
(* shown from files that lack stored events is due for another fetch, or   *)
(* uploaded them after it was reported over.  (A link that cannot be made  *)
(* ends link() before its running runs are noted for refreshing.)          *)
THEOREM FinalEventsDueCorrect ==
  ASSUME Unlinkable = {}
  PROVE  Spec => []FinalEventsDue
<1>1. Init => FilesDue
  BY DEF Init, FilesDue
<1>2. Knowledge /\ FilesDue /\ [Next]_vars => FilesDue'
  <2>1. FilesDue /\ UNCHANGED vars => FilesDue'
    BY DEF FilesDue, Due, Current, vars, mlflow, history, files, books, locals, pass
  <2> QED
    BY EnvironmentFilesDue, ThreadFilesDue, <2>1 DEF Next
<1>3. FilesDue => FinalEventsDue
  BY DEF FilesDue, FinalEventsDue
<1> QED
  BY KnowledgeInvariant, <1>1, <1>2, <1>3, PTL DEF Spec

(* Where every link can be made, a link to a scratch directory that is     *)
(* still there is watched, so it is re-pointed once the writer has left.   *)
THEOREM LiveWatchedCorrect ==
  ASSUME Unlinkable = {}
  PROVE  Spec => []LiveWatched
<1>1. Init => LiveWatched
  BY DEF Init, LiveWatched
<1>2. Knowledge /\ LiveWatched /\ Environment => LiveWatched'
  BY EnvironmentLeaves, ConstantsAssumption
  DEF Knowledge, LiveTagged, LiveWatched, Books, TypeOK, mlflow, books, pass, Environment,
      StartRun, OpenWriter, Upload, CloseWriter, EndRun, ResumeRun, DeleteRun, RestoreRun,
      Stabilise
<1>3. Knowledge /\ LiveWatched /\ [Next]_vars => LiveWatched'
  <2>1. LiveWatched /\ UNCHANGED vars => LiveWatched'
    BY DEF LiveWatched, vars, mlflow, files, books, pass
  <2> QED
    BY <1>2, ThreadWatched, <2>1 DEF Next
<1> QED
  BY KnowledgeInvariant, <1>1, <1>3, PTL DEF Spec

(* However long the files of a run cannot be brought up to date, that is   *)
(* reported once, until it succeeds.                                       *)
THEOREM RefreshReportedOnceCorrect == Spec => []RefreshReportedOnce
<1>1. Init => Quiet
  BY DEF Init, Quiet
<1>2. Knowledge /\ Quiet /\ [Next]_vars => Quiet'
  <2>1. Quiet /\ Environment => Quiet'
    BY EnvironmentLeaves DEF Quiet, books, locals, call, pass
  <2>2. Quiet /\ UNCHANGED vars => Quiet'
    BY DEF Quiet, vars, books, locals, call, pass
  <2> QED
    BY <2>1, ThreadQuiet, <2>2 DEF Next
<1>3. Quiet => RefreshReportedOnce
  BY DEF Quiet, RefreshReportedOnce
<1> QED
  BY KnowledgeInvariant, <1>1, <1>2, <1>3, PTL DEF Spec
-----------------------------------------------------------------------------
(* The promise of ShownRuns.                                               *)

(* What MLflow and the writers do happens outside.                         *)
LEMMA EnvironmentOutside ==
  ASSUME Knowledge, Absent, Environment
  PROVE  Promise!Outside
<1>1. UNCHANGED <<link, mode, books, reports, pass>>
  BY EnvironmentLeaves
<1>2. dirs' \subseteq Runs /\ deleted' \subseteq Runs
  <2>1. TypeOK'
    BY EnvironmentTypes DEF Knowledge, Books
  <2> QED
    BY <2>1, ConstantsAssumption DEF TypeOK
<1>3. removed' = removed \intersect deleted'
  BY DEF Absent, Knowledge, Books, TypeOK, Dashboard, mlflow, history, files, Environment,
         StartRun, OpenWriter, Upload, CloseWriter, EndRun, ResumeRun, DeleteRun, RestoreRun,
         Stabilise
<1>4. \A r \in Runs : held'[r] # "none" <=> held[r] # "none"
  BY DEF Knowledge, Books, TypeOK, Dashboard, mlflow, history, files, Environment,
         StartRun, OpenWriter, Upload, CloseWriter, EndRun, ResumeRun, DeleteRun, RestoreRun,
         Stabilise
<1> QED
  BY <1>1, <1>2, <1>3, <1>4 DEF Promise!Outside

(* Only a check notes a removal; the thread does nothing to MLflow.        *)
LEMMA ThreadLeaves == Thread /\ ~CheckOk => UNCHANGED <<removed, dirs, deleted>>
BY DEF Thread, mlflow, history, Start, CheckFail, ListGone, Repointed, FollowPass, FollowFail,
       LinkTargets, Link, LinkRaises, PendingPass, RefreshPass, Refreshed, SkipRest, FetchOk,
       FetchFail, RepointOk, RepointFail

(* What any step of the thread but a check may do to a link and to the     *)
(* files kept.                                                             *)
LEMMA OnlyLinksAndRepoints ==
  ASSUME Knowledge, Thread, ~CheckOk, NEW r \in Runs
  PROVE  /\ link'[r] = link[r]
            \/ (link[r] = "none" /\ (link'[r] = "live" => r \in dirs))
            \/ (link[r] = "live" /\ link'[r] = "files" /\ r \notin dirs)
         /\ held[r] # "none" => held'[r] # "none"
<1> DEFINE Goal == /\ link'[r] = link[r]
                      \/ (link[r] = "none" /\ (link'[r] = "live" => r \in dirs))
                      \/ (link[r] = "live" /\ link'[r] = "files" /\ r \notin dirs)
                   /\ held[r] # "none" => held'[r] # "none"
<1> SUFFICES Goal
  OBVIOUS
<1> USE DEF Knowledge, Books, TypeOK, PassShape, LinkedOnce, RefreshedShown, BooksAgree,
            Known, PassChecks,
            LiveTagged, CopiesShown, Shown, mlflow, history, files, books, locals, call, pass
<1>1. CASE Start \/ CheckFail \/ ListGone \/ Repointed \/ FollowPass \/ FollowFail
  BY <1>1 DEF Start, CheckFail, ListGone, Repointed, FollowPass, FollowFail
<1>2. CASE LinkTargets \/ PendingPass \/ RefreshPass \/ Refreshed \/ SkipRest
  BY <1>2 DEF LinkTargets, PendingPass, RefreshPass, Refreshed, SkipRest
<1>3. CASE Link
  BY <1>3 DEF Link, Targets, MakeLinks
<1>4. CASE LinkRaises
  BY <1>4 DEF LinkRaises, Targets, MakeLinks
<1>5. ASSUME NEW q \in Runs, FetchOk(q) PROVE Goal
  BY <1>5 DEF FetchOk, Fetched
<1>6. ASSUME NEW q \in Runs, FetchFail(q) PROVE Goal
  BY <1>6 DEF FetchFail, Partial
<1>7. ASSUME NEW q \in Runs, RepointOk(q) PROVE Goal
  BY <1>7 DEF RepointOk, Fetched
<1>8. ASSUME NEW q \in Runs, RepointFail(q) PROVE Goal
  BY <1>8 DEF RepointFail, Partial
<1> QED
  BY <1>1, <1>2, <1>3, <1>4, <1>5, <1>6, <1>7, <1>8 DEF Thread

LEMMA ThreadShows ==
  ASSUME Knowledge, Absent, Thread, ~CheckOk, Knowledge', Absent'
  PROVE  Promise!Show
<1>1. link' \in [Runs -> {"none", "live", "files"}]
  BY DEF Knowledge, Books, TypeOK
<1>2. ASSUME NEW r \in Runs
      PROVE  /\ link'[r] # link[r] =>
                  \/ link[r] = "none" /\ (link'[r] = "live" => r \in dirs)
                  \/ link[r] = "live" /\ link'[r] = "files" /\ r \notin dirs
             /\ held[r] # "none" => held'[r] # "none"
             /\ r \in removed => link'[r] = "none" /\ link[r] = "none" /\ held'[r] = "none"
  <2>1. removed' = removed
    BY ThreadLeaves
  <2>2. removed \subseteq Runs
    BY DEF Knowledge, Books, TypeOK
  <2> QED
    BY OnlyLinksAndRepoints, <2>1, <2>2 DEF Absent, GoneStaysGone
<1>3. UNCHANGED <<removed, dirs, deleted>>
  BY ThreadLeaves
<1> QED
  BY <1>1, <1>2, <1>3
  DEF Promise!Show, Promise!Appears, Promise!TurnsIntoFiles, Promise!world

LEMMA CheckRemoves ==
  ASSUME Knowledge, CheckOk
  PROVE  \E S \in SUBSET Runs : Promise!Remove(S)
<1>1. Gone \in SUBSET Runs
  BY DEF Gone, Watched, Shown, Knowledge, Books, TypeOK
<1>2. /\ Gone \subseteq deleted
      /\ link' = [r \in Runs |-> IF r \in Gone THEN "none" ELSE link[r]]
      /\ {r \in Runs : held'[r] # "none"} = {r \in Runs : held[r] # "none"} \ Gone
      /\ removed' = removed \union Gone
      /\ UNCHANGED <<dirs, deleted>>
  BY DEF CheckOk, Gone, mlflow
<1> QED
  BY <1>1, <1>2 DEF Promise!Remove, Promise!world

(* Without --chain, every step of the thread, of MLflow and of a writer is *)
(* one that ShownRuns allows, or changes nothing of what the user sees.    *)
THEOREM PromiseKept ==
  ASSUME \A r \in Runs : Attempts[r] = {r}
  PROVE  Spec => KeepsPromise
<1> DEFINE Inv == Knowledge /\ Absent
<1>1. Init => Inv /\ Promise!Init
  <2>1. Init => Absent
    BY DEF Init, Absent, GoneStaysGone
  <2>2. Init => Promise!Init
    <3>1. Init => {r \in Runs : held[r] # "none"} = {} /\ link = [r \in Runs |-> "none"]
                  /\ removed = {} /\ dirs = {} /\ deleted = {}
      BY DEF Init
    <3> QED
      BY <3>1 DEF Promise!Init
  <2> QED
    BY InitKnowledge, <2>1, <2>2
<1>2. Inv /\ Absent' /\ Knowledge' /\ [Next]_vars => [Promise!Next]_(Promise!vars)
  <2> SUFFICES ASSUME Inv, Absent', Knowledge', [Next]_vars
               PROVE  [Promise!Next]_(Promise!vars)
    OBVIOUS
  <2>1. CASE Environment
    BY <2>1, EnvironmentOutside DEF Promise!Next
  <2>2. CASE CheckOk
    BY <2>2, CheckRemoves DEF Promise!Next
  <2>3. CASE Thread /\ ~CheckOk
    BY <2>3, ThreadShows DEF Promise!Next
  <2>4. CASE UNCHANGED vars
    BY <2>4 DEF vars, mlflow, history, files, Promise!vars, Promise!shown, Promise!world
  <2> QED
    BY <2>1, <2>2, <2>3, <2>4 DEF Next
<1>3. Knowledge /\ Absent /\ [Next]_vars => Absent'
  <2>1. Absent /\ UNCHANGED vars => Absent'
    BY DEF Absent, GoneStaysGone, vars, mlflow, history, files, locals, call, pass
  <2> QED
    BY EnvironmentAbsent, ThreadAbsent, <2>1 DEF Next, Knowledge
<1> QED
  BY KnowledgeInvariant, <1>1, <1>2, <1>3, PTL DEF Spec, KeepsPromise, Promise!Spec
=============================================================================
