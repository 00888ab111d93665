------------------------------ MODULE TbWatch ------------------------------
(***************************************************************************)
(* The watch thread of `runsnap tb` (class _LiveWatch of _tb_fetch.py)     *)
(* together with what it races with: MLflow, the training processes that   *)
(* write and upload events, and a tracking server that fails now and then. *)
(*                                                                         *)
(* The thread makes passes.  A pass checks the watched runs, re-points the *)
(* links of runs whose writer has left, re-runs the followed selection,    *)
(* tries the pending runs again and refreshes the runs shown from files.   *)
(* Everything the thread asks a server or the file system for is a step of *)
(* its own, so MLflow and the writers move between any two of them.        *)
(***************************************************************************)
EXTENDS Naturals, FiniteSets

CONSTANTS
  Runs,        \* run ids
  Local,       \* runs whose writer is on the dashboard's own host
  Later,       \* runs that are created only after the first state
  Resumable,   \* runs that may be resumed once they ended
  Selected,    \* runs the selection matches, or the runs that were named
  Attempts,    \* Attempts[r]: what --chain adds for r (r alone without it)
  Broken,      \* runs whose chain of attempts cannot be walked
  Elsewhere,   \* runs not stored under the artifact root
  Unlinkable,  \* runs no link can be made for (a name the disk refuses)
  Servers,     \* "reliable", "faulty", or "recover": faulty up to some point
  Modes        \* the kinds of dashboard: [follow |-> , copies |-> ]

ASSUME ConstantsAssumption ==
  /\ \A S \in {Local, Later, Resumable, Selected, Broken, Elsewhere, Unlinkable} :
       S \subseteq Runs
  /\ Attempts \in [Runs -> SUBSET Runs]
  /\ Servers \in {"reliable", "faulty", "recover"}
  /\ Modes \subseteq [follow : BOOLEAN, copies : BOOLEAN]

VARIABLES
  (* MLflow and the writers *)
  status,     \* status[r]: "unborn", "RUNNING" or "ENDED"
  deleted,    \* runs deleted in MLflow, directly or with their experiment
  tagged,     \* runs that carry TB_TAG_LOCAL_DIR
  dirs,       \* runs whose scratch directory exists on this host
  stored,     \* runs with scalar event data in the artifact store
  stable,     \* from now on every request to a server succeeds
  heard,      \* history: heard[r]: what a check or a search last took r to be,
              \* "running" or "over", and "late" once r uploaded after that
  removed,    \* history: runs a check removed and MLflow has not restored since
  (* the dashboard's directories *)
  link,       \* link[r]: "none", "live" (the scratch directory) or "files"
  held,       \* held[r]: what the cache, or the copies, have of stored events
  (* _LiveWatch *)
  mode,       \* `follow is not None`, and `artifact_root is not None`
  snapTagged, \* runs of _runs whose snapshot carries TB_TAG_LOCAL_DIR
  links,      \* _links
  handled,    \* _handled
  pending,    \* _pending
  refreshing, \* _refreshing
  failing,    \* _refresh_failing
  reports,    \* history: warnings about r since its files were last brought up
  (* the pass under way *)
  pc,         \* what the thread does next
  caller,     \* who called `link`, or "refresh"
  checked,    \* whether this pass's check succeeded
  statuses,   \* what it returned; "missing" is a key it does not hold
  shownFiles, \* `cached` of _loop
  batch,      \* the runs being linked, re-pointed or refreshed
  running,    \* those of them taken to be running
  live,       \* those of them to be linked live
  todo,       \* those of them still to be fetched
  got         \* those of them fetched

history == <<heard, removed>>
mlflow  == <<status, deleted, tagged, dirs, stored, stable>>
files   == <<link, held>>
books   == <<snapTagged, links, handled, pending, refreshing, failing>>
locals  == <<checked, statuses, shownFiles>>
call    == <<caller, batch, running, live>>
pass    == <<pc, locals, call, todo, got>>
vars    == <<mlflow, history, files, mode, books, reports, pass>>

Status == {"unborn", "RUNNING", "ENDED"}
Shown == {r \in Runs : link[r] # "none"}

(* Whether all the events r has stored so far are held here.               *)
Current(r) == r \in stored => held[r] = "fresh"

TypeOK ==
  /\ status \in [Runs -> Status]
  /\ stable \in BOOLEAN
  /\ link \in [Runs -> {"none", "live", "files"}]
  /\ held \in [Runs -> {"none", "stale", "fresh"}]
  /\ mode \in Modes
  /\ deleted \subseteq Runs /\ tagged \subseteq Runs /\ stored \subseteq Runs
  /\ heard \in [Runs -> {"running", "over", "late"}] /\ removed \subseteq Runs
  /\ snapTagged \subseteq Runs /\ links \subseteq Runs /\ handled \subseteq Runs
  /\ pending \subseteq Runs /\ refreshing \subseteq Runs /\ failing \subseteq Runs
  /\ shownFiles \subseteq Runs /\ batch \subseteq Runs /\ running \subseteq Runs
  /\ live \subseteq Runs /\ todo \subseteq Runs /\ got \subseteq Runs
  /\ dirs \subseteq Local
  /\ reports \in [Runs -> 0 .. 2]
  /\ pc \in {"start", "wait", "list", "repoint", "follow", "targets", "fetch", "pending",
             "refresh", "failed", "dead"}
  /\ caller \in {"none", "start", "follow", "pending", "refresh"}
  /\ checked \in BOOLEAN
  /\ statuses \in [Runs -> Status \union {"missing"}]

Init ==
  /\ status = [r \in Runs |-> IF r \in Later THEN "unborn" ELSE "RUNNING"]
  /\ deleted = {} /\ tagged = {} /\ dirs = {} /\ stored = {}
  /\ heard = [r \in Runs |-> "running"] /\ removed = {}
  /\ stable = (Servers = "reliable")
  /\ link = [r \in Runs |-> "none"]
  /\ held = [r \in Runs |-> "none"]
  /\ mode \in Modes
  /\ snapTagged = {} /\ links = {} /\ handled = {} /\ pending = {}
  /\ refreshing = {} /\ failing = {}
  /\ reports = [r \in Runs |-> 0]
  /\ pc = "start" /\ caller = "none" /\ checked = FALSE
  /\ statuses = [r \in Runs |-> "missing"]
  /\ shownFiles = {} /\ batch = {} /\ running = {} /\ live = {} /\ todo = {} /\ got = {}
-----------------------------------------------------------------------------
(* MLflow, the training processes and the server.  None of these is fair.  *)

Dashboard == <<files, mode, books, reports, pass>>

StartRun(r) ==
  /\ status[r] = "unborn"
  /\ status' = [status EXCEPT ![r] = "RUNNING"]
  /\ UNCHANGED <<deleted, tagged, dirs, stored, stable, history, Dashboard>>

(* tensorboard() creates the scratch directory and its event files, and    *)
(* only then tags the run with where they are.  With `run_id` it does so   *)
(* for any run, over or not.                                               *)
OpenWriter(r) ==
  /\ status[r] # "unborn" /\ r \notin tagged
  /\ tagged' = tagged \union {r}
  /\ dirs' = dirs \union ({r} \cap Local)
  /\ UNCHANGED <<status, deleted, stored, stable, history, Dashboard>>

(* Events reach the artifact store: what is held of them falls behind.     *)
(* No upload looks at the run: a block may outlive it, and one may be      *)
(* opened for a run that is over.                                          *)
Upload(r) ==
  /\ r \in tagged
  /\ stored' = stored \union {r}
  /\ held' = [held EXCEPT ![r] = IF @ = "fresh" THEN "stale" ELSE @]
  /\ heard' = [heard EXCEPT ![r] = IF @ = "over" THEN "late" ELSE @]
  /\ UNCHANGED <<status, deleted, tagged, dirs, stable, removed, link, mode, books, reports,
                 pass>>

(* Leaving the block removes the directory, after a last Upload if that    *)
(* one succeeded.  A killed process never gets here.                       *)
CloseWriter(r) ==
  /\ r \in dirs
  /\ dirs' = dirs \ {r}
  /\ UNCHANGED <<status, deleted, tagged, stored, stable, history, Dashboard>>

EndRun(r) ==
  /\ status[r] = "RUNNING"
  /\ status' = [status EXCEPT ![r] = "ENDED"]
  /\ UNCHANGED <<deleted, tagged, dirs, stored, stable, history, Dashboard>>

(* start_run(run_id=...) continues a run; its writer now has a directory   *)
(* the dashboard's snapshot of the run does not name.                      *)
ResumeRun(r) ==
  /\ r \in Resumable /\ status[r] = "ENDED"
  /\ status' = [status EXCEPT ![r] = "RUNNING"]
  /\ UNCHANGED <<deleted, tagged, dirs, stored, stable, history, Dashboard>>

DeleteRun(r) ==
  /\ status[r] # "unborn" /\ r \notin deleted
  /\ deleted' = deleted \union {r}
  /\ UNCHANGED <<status, tagged, dirs, stored, stable, history, Dashboard>>

RestoreRun(r) ==
  /\ r \in deleted
  /\ deleted' = deleted \ {r}
  /\ removed' = removed \ {r}
  /\ UNCHANGED <<status, tagged, dirs, stored, stable, heard, Dashboard>>

Stabilise ==
  /\ Servers = "recover" /\ ~stable
  /\ stable' = TRUE
  /\ UNCHANGED <<status, deleted, tagged, dirs, stored, history, Dashboard>>
-----------------------------------------------------------------------------
(* _LiveWatch: link(), and what add() and _pending_pass do around it.      *)

NoStatusesMutant == [r \in Runs |-> "SCHEDULED"]
NoStatuses == [r \in Runs |-> "missing"]

(* Runs a followed selection leaves alone.                                 *)
Known == handled \union pending

(* The runs `with_attempts` hands on for S: get_run() finds an attempt,     *)
(* deleted or not, once it exists.                                         *)
WithAttempts(S) == {a \in Runs : status[a] # "unborn" /\ \E r \in S : a \in Attempts[r]}

(* link() is called for S, of which R are taken to be running.             *)
CallLink(who, S, R) ==
  /\ caller' = who /\ batch' = S /\ running' = R
  /\ pc' = "targets"
  /\ UNCHANGED <<live, todo, got>>

(* add() of the runs S, as their search found them.  One stored outside    *)
(* the artifact root is left out and handled, so it is never tried again.  *)
CallAdd(who, S) ==
  LET out  == IF mode.copies THEN S \cap Elsewhere ELSE {}
      adds == S \ out
  IN /\ handled' = handled \union out
     /\ snapTagged' = (snapTagged \ adds) \union (adds \cap tagged)
     /\ heard' = [r \in Runs |-> IF r \notin adds THEN heard[r]
                                 ELSE IF status[r] = "RUNNING" THEN "running" ELSE "over"]
     /\ CallLink(who, adds, {r \in adds : status[r] = "RUNNING"})

(* link() or a refresh is over: its locals are gone.                       *)
Return ==
  /\ caller' = "none" /\ batch' = {} /\ running' = {} /\ live' = {} /\ todo' = {} /\ got' = {}

(* A failed attempt to bring the files of r up to date is reported, unless *)
(* r was failing already (`quiet`, and the guard in _copy).                *)
Reported(S, fails) ==
  [r \in Runs |-> IF r \notin S THEN reports[r]
                  ELSE IF r \notin fails THEN 0
                  ELSE IF r \in failing \/ reports[r] = 2 THEN reports[r]
                  ELSE reports[r] + 1]

(* What a fetch or a copy leaves here: everything stored when it succeeds, *)
(* what it had, or some files of a run never fetched before, when not.     *)
Fetched(r) == IF r \in stored THEN "fresh" ELSE held[r]
Partial(r) == {held[r]} \union (IF r \in stored /\ held[r] = "none" THEN {"stale"} ELSE {})

(* _link_targets: which runs are live is settled before anything is        *)
(* fetched.  With an artifact root nothing is live and nothing is fetched. *)
LinkTargets ==
  /\ pc = "targets"
  /\ live' = IF mode.copies THEN {} ELSE batch \cap snapTagged \cap dirs
  /\ todo' = IF mode.copies THEN {} ELSE batch \ live'
  /\ got'  = IF mode.copies THEN batch \cap stored ELSE {}
  /\ pc' = "fetch"
  /\ UNCHANGED <<mlflow, history, files, mode, books, reports, locals, caller, batch, running>>

(* One download of the pool, or one _copy of a refresh.                    *)
FetchOk(r) ==
  /\ pc = "fetch" /\ r \in todo
  /\ todo' = todo \ {r} /\ got' = got \union {r}
  /\ held' = [held EXCEPT ![r] = Fetched(r)]
  /\ reports' = IF caller = "refresh" THEN Reported({r}, {}) ELSE reports
  /\ UNCHANGED <<mlflow, history, link, mode, books, pc, locals, call>>

FetchFail(r) ==
  /\ pc = "fetch" /\ r \in todo /\ ~stable
  /\ todo' = todo \ {r}
  /\ \E h \in Partial(r) : held' = [held EXCEPT ![r] = h]
  /\ reports' = IF caller = "refresh" THEN Reported({r}, {r}) ELSE reports
  /\ UNCHANGED <<mlflow, history, link, mode, books, pc, locals, call, got>>

(* The runs of the call that hold event data now.  A live directory may be *)
(* gone again by the time it is searched.                                  *)
Targets == (live \cap dirs) \union {r \in got : mode.copies \/ held[r] # "none"}

StillPendingMutant(done) == pending
StillPending(done) == pending \ done

(* The loop of link(), up to the end or to the link it cannot make.  With  *)
(* an artifact root a link is a directory that the files are copied into,  *)
(* which fails for `fails`.                                                *)
MakeLinks(done, fails) ==
  /\ fails \subseteq (IF mode.copies /\ ~stable THEN done ELSE {})
  /\ link' = [r \in Runs |-> IF r \notin done THEN link[r]
                             ELSE IF r \in live THEN "live" ELSE "files"]
  /\ \E h \in [fails -> {"none", "stale"}] :
       held' = [r \in Runs |-> IF r \in fails THEN h[r]
                               ELSE IF mode.copies /\ r \in done THEN "fresh" ELSE held[r]]
  /\ reports' = IF mode.copies THEN Reported(done, fails) ELSE reports
  /\ failing' = failing \union fails

(* link() returns.  _pending_pass stops trying the runs that had ended;    *)
(* add() keeps trying tagged runs it could not link while they run.        *)
Link ==
  LET done == Targets
      last == IF caller = "pending" THEN batch \ running
              ELSE (batch \cap snapTagged) \ (done \union running)
      wait == IF caller = "pending" THEN {} ELSE (batch \cap snapTagged \cap running) \ done
  IN /\ pc = "fetch" /\ todo = {} /\ caller # "refresh"
     /\ done \cap Unlinkable = {}
     /\ \E fails \in SUBSET done :
          /\ MakeLinks(done, fails)
          /\ refreshing' = refreshing \union fails \union (running \cap (done \ live))
     /\ links' = links \union (live \cap done)
     /\ pending' = (StillPending(done) \ last) \union wait
     /\ handled' = handled \union done \union last
     /\ pc' = CASE caller = "start"   -> "wait"
                [] caller = "follow"  -> "pending"
                [] caller = "pending" -> "refresh"
     /\ Return
     /\ UNCHANGED <<mlflow, history, mode, snapTagged, locals>>

(* A link that cannot be made raises: nothing after the loop happens.  The *)
(* follow pass catches the error; _pending_pass and the start do not.      *)
LinkRaises ==
  /\ pc = "fetch" /\ todo = {} /\ caller # "refresh"
  /\ Targets \cap Unlinkable # {}
  /\ \E done \in SUBSET (Targets \ Unlinkable) : \E fails \in SUBSET done :
       /\ MakeLinks(done, fails)
       /\ refreshing' = refreshing \union fails
       /\ handled' = handled \union done
       /\ pending' = StillPending(done)
  /\ pc' = CASE caller = "start"   -> "failed"
             [] caller = "follow"  -> "pending"
             [] caller = "pending" -> "dead"
  /\ Return
  /\ UNCHANGED <<mlflow, history, mode, snapTagged, links, locals>>
-----------------------------------------------------------------------------
(* _LiveWatch: the passes.                                                 *)

(* assemble_logdir() adds the runs tb() selected, then starts the thread.  *)
(* Runs named by id are looked up, deleted or not; a chain that cannot be  *)
(* walked fails the command.                                               *)
Start ==
  LET sel == {r \in Selected : status[r] # "unborn" /\ (mode.follow => r \notin deleted)}
  IN /\ pc = "start"
     /\ IF sel \cap Broken = {}
        THEN CallAdd("start", WithAttempts(sel))
        ELSE pc' = "failed" /\ UNCHANGED <<handled, snapTagged, heard, call, todo, got>>
     /\ UNCHANGED <<mlflow, removed, files, mode, links, pending, refreshing, failing, reports,
                    locals>>

WatchedMutant == (Shown \ links) \union pending
Watched == Shown \union pending
Gone == Watched \cap deleted
UnwatchMutant(gone) == links
Unwatch(gone) == links \ gone

(* _check_pass, with _remove of every watched run it does not find.        *)
CheckOk ==
  /\ pc = "wait" /\ pc' = "list"
  /\ checked' = TRUE
  /\ statuses' = [r \in Runs |-> IF r \in Watched \ Gone THEN status[r] ELSE "missing"]
  /\ heard' = [r \in Runs |-> IF r \notin Watched \ Gone THEN heard[r]
                              ELSE IF status[r] = "RUNNING" THEN "running"
                              ELSE IF heard[r] = "running" THEN "over" ELSE heard[r]]
  /\ removed' = removed \union Gone
  /\ link' = [r \in Runs |-> IF r \in Gone THEN "none" ELSE link[r]]
  /\ held' = [r \in Runs |-> IF r \in Gone THEN "none" ELSE held[r]]
  /\ reports' = [r \in Runs |-> IF r \in Gone THEN 0 ELSE reports[r]]
  /\ links' = Unwatch(Gone) /\ handled' = handled \ Gone
  /\ refreshing' = refreshing \ Gone /\ failing' = failing \ Gone
  /\ pending' = IF mode.follow THEN pending \ Gone ELSE pending \union Gone
  /\ shownFiles' = (Shown \ Gone) \ links
  /\ UNCHANGED <<mlflow, mode, snapTagged, call, todo, got>>

CheckFail ==
  /\ pc = "wait" /\ ~stable
  /\ checked' = FALSE /\ statuses' = NoStatuses
  /\ shownFiles' = Shown \ links
  /\ pc' = "list"
  /\ UNCHANGED <<mlflow, history, files, mode, books, reports, call, todo, got>>

(* The live links whose directory is gone are listed, then re-pointed one  *)
(* after the other.                                                        *)
GoneDirsMutant == links
GoneDirs == links \ dirs

ListGone ==
  /\ pc = "list" /\ pc' = "repoint"
  /\ todo' = GoneDirs
  /\ UNCHANGED <<mlflow, history, files, mode, books, reports, locals, call, got>>

RepointOk(r) ==
  /\ pc = "repoint" /\ r \in todo
  /\ todo' = todo \ {r} /\ links' = links \ {r}
  /\ held' = [held EXCEPT ![r] = Fetched(r)]
  /\ link' = [link EXCEPT ![r] = "files"]
  /\ refreshing' = IF ~checked \/ statuses[r] = "RUNNING"
                   THEN refreshing \union {r} ELSE refreshing
  /\ UNCHANGED <<mlflow, history, mode, snapTagged, handled, pending, failing, reports, pc,
                 locals, call, got>>

(* The link is left dangling, and no later pass re-points it.              *)
RepointFail(r) ==
  /\ pc = "repoint" /\ r \in todo /\ ~stable
  /\ todo' = todo \ {r} /\ links' = links \ {r}
  /\ \E h \in Partial(r) : held' = [held EXCEPT ![r] = h]
  /\ UNCHANGED <<mlflow, history, link, mode, snapTagged, handled, pending, refreshing, failing,
                 reports, pc, locals, call, got>>

Repointed ==
  /\ pc = "repoint" /\ todo = {}
  /\ pc' = IF mode.follow THEN "follow" ELSE "pending"
  /\ UNCHANGED <<mlflow, history, files, mode, books, reports, locals, call, todo, got>>

(* _follow_pass: the runs that write events and are not known are added,   *)
(* with those of their attempts that are not known either.                 *)
Ready == {r \in Selected : status[r] # "unborn" /\ r \in tagged \ (deleted \union Known)}

FollowPass ==
  /\ pc = "follow" /\ Ready \cap Broken = {}
  /\ CallAdd("follow", WithAttempts(Ready) \ Known)
  /\ UNCHANGED <<mlflow, removed, files, mode, links, pending, refreshing, failing, reports,
                 locals>>

FollowFail ==
  /\ pc = "follow" /\ (~stable \/ Ready \cap Broken # {})
  /\ pc' = "pending"
  /\ UNCHANGED <<mlflow, history, files, mode, books, reports, locals, call, todo, got>>

(* _pending_pass: only runs the check found are tried.                     *)
TriedMutantAll == pending
TriedMutantRunning == {r \in pending : statuses[r] = "RUNNING"}
Tried == {r \in pending : statuses[r] # "missing"}

PendingPass ==
  /\ pc = "pending" /\ checked
  /\ CallLink("pending", Tried, {r \in Tried : statuses[r] = "RUNNING"})
  /\ UNCHANGED <<mlflow, history, files, mode, books, reports, locals>>

(* _refresh_pass, up to its fetches and after them.                        *)
RefreshPass ==
  /\ pc = "refresh" /\ pc' = "fetch"
  /\ caller' = "refresh"
  /\ running' = {r \in shownFiles : statuses[r] = "RUNNING"}
  /\ batch' = running' \union (refreshing \cap shownFiles)
  /\ todo' = batch'
  /\ UNCHANGED <<mlflow, history, files, mode, books, reports, locals, live, got>>

(* A run fetched after it ended holds its final events.                    *)
StillDueMutantEarly == (refreshing \union running) \ got
StillDueMutantForever == refreshing \union running
StillDue == (refreshing \union running) \ (got \ running)
StillFailingMutant == {}
StillFailing == batch \ got

EndPass ==
  /\ pc' = "wait" /\ checked' = FALSE /\ statuses' = NoStatuses /\ shownFiles' = {}

Refreshed ==
  /\ pc = "fetch" /\ todo = {} /\ caller = "refresh"
  /\ failing' = StillFailing /\ refreshing' = StillDue
  /\ Return /\ EndPass
  /\ UNCHANGED <<mlflow, history, files, mode, snapTagged, links, handled, pending, reports>>

(* A pass whose check failed skips the last two steps.                     *)
SkipRest ==
  /\ pc = "pending" /\ ~checked
  /\ EndPass
  /\ UNCHANGED <<mlflow, history, files, mode, books, reports, call, todo, got>>
-----------------------------------------------------------------------------
Environment ==
  \/ \E r \in Runs : \/ StartRun(r) \/ OpenWriter(r) \/ Upload(r) \/ CloseWriter(r)
                     \/ EndRun(r) \/ ResumeRun(r) \/ DeleteRun(r) \/ RestoreRun(r)
  \/ Stabilise

Thread ==
  \/ Start \/ CheckOk \/ CheckFail \/ ListGone \/ Repointed \/ FollowPass \/ FollowFail
  \/ LinkTargets \/ Link \/ LinkRaises \/ PendingPass \/ RefreshPass \/ Refreshed \/ SkipRest
  \/ \E r \in Runs : FetchOk(r) \/ FetchFail(r) \/ RepointOk(r) \/ RepointFail(r)

Next == Environment \/ Thread

Spec == Init /\ [][Next]_vars
FairSpec == Spec /\ WF_vars(Thread) /\ WF_vars(Stabilise)
-----------------------------------------------------------------------------
(* Safety.                                                                 *)

(* The books agree with the directory.  Every shown run is handled, so a   *)
(* followed selection leaves it alone, and none is also waiting for its    *)
(* first event data; only live links are watched for their directory, and  *)
(* no watched link is refreshed.  (_handled, _pending, _links,        *)
(* _refreshing and _refresh_failing, which four passes update.)            *)
BooksAgree ==
  /\ Shown \subseteq handled
  /\ pending \cap handled = {}
  /\ \A r \in links : link[r] = "live"
  /\ refreshing \subseteq Shown \ links
  /\ failing \subseteq refreshing

(* No pass looks a run up that its check did not find: the `statuses[...]` *)
(* of _repoint and _refresh_pass and the `_shown[...]` of a refresh never  *)
(* raise KeyError, which would end the thread.                             *)
ChecksCover ==
  checked =>
    /\ pc = "repoint" => \A r \in todo : statuses[r] # "missing"
    /\ \A r \in shownFiles : statuses[r] # "missing" /\ link[r] # "none"

(* A live run's link is watched for as long as the directory it points at  *)
(* is there, so the link is re-pointed once the writer leaves.             *)
LiveWatched == pc # "failed" => \A r \in dirs : link[r] = "live" => r \in links

(* No final events are forgotten: a run shown from files that fall short   *)
(* of what it has stored is due for another fetch, whether it is running   *)
(* or ended since.  Only what it uploads once a check or a search reported *)
(* it over, before one reports it running again, is promised to nobody.    *)
Due(r) ==
  \/ r \in refreshing
  \/ checked /\ r \in shownFiles /\ statuses[r] = "RUNNING"
FinalEventsDue ==
  \A r \in Runs : link[r] = "files" /\ ~Current(r) => Due(r) \/ heard[r] = "late"

(* A refresh that keeps failing is reported once, until it succeeds.       *)
RefreshReportedOnce == ~mode.copies => \A r \in Runs : reports[r] <= 1

(* A removed run leaves nothing behind and stays away while it is deleted: *)
(* no later step of a pass links it again or fetches it into the cache.    *)
GoneStaysGone == \A r \in removed : link[r] = "none" /\ held[r] = "none"

(* A run leaves the dashboard only because it is deleted: not because it   *)
(* ended, stopped matching, or because a check or a fetch failed.          *)
OnlyDeletedLeave ==
  [][\A r \in Runs : link[r] # "none" /\ link'[r] = "none" => r \in deleted]_vars
-----------------------------------------------------------------------------
(* The thread keeps the promise of ShownRuns: among others, the link of a  *)
(* live run is not taken from its directory before the writer has left,    *)
(* whatever a check said, and nothing of a removed run is fetched by what  *)
(* was under way.                                                          *)
Promise == INSTANCE ShownRuns WITH
  view <- link, kept <- {r \in Runs : held[r] # "none"}, away <- removed, writing <- dirs
KeepsPromise == Promise!Spec
-----------------------------------------------------------------------------
(* Liveness, once the servers answer.                                      *)

(* A selected run that writes events and has not had its last try appears: *)
(* one whose writer is gone from its stored events, one whose directory is *)
(* here for as long as that stays.                                         *)
Waiting(r) ==
  /\ stable /\ pc = "wait" /\ r \in tagged \ (deleted \union handled)
  /\ mode.follow \/ r \in pending
Appears ==
  \A r \in Selected \ Broken :
    /\ (Waiting(r) /\ r \in stored \ dirs) ~> (r \in Shown \union deleted)
    /\ (Waiting(r) /\ r \in stored \cap dirs) ~> (r \in Shown \union deleted \/ r \notin dirs)

(* A deleted run leaves.                                                   *)
DeletedLeaves == \A r \in Runs : (r \in deleted /\ r \in Shown) ~> (r \notin deleted \/ r \notin Shown)

(* A run that stays ended is, in the end, fetched no more, and what a link *)
(* to files then shows is all it stored, late uploads apart.               *)
Over(r) == status[r] = "ENDED" /\ r \notin deleted
Final(r) == r \notin refreshing /\ (link[r] = "files" => Current(r) \/ heard[r] = "late")
Settles == \A r \in Runs : <>[]Over(r) => <>[]Final(r)
=============================================================================
