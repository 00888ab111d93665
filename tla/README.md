# Verification of runsnap

runsnap records what an MLflow run was made from (code, parameters, TensorBoard events) and shows it
again. This directory holds TLA+ models of its concurrent and failure-prone parts, TLC
configurations that check them, and theorems that TLAPS proves about them: every safety property and
both implementations of an abstract specification are proved, and liveness is model-checked. Paths
below are relative to the repository; the Python package is `src/runsnap/`.

Run a model with `tlc -workers 2 -config MCTbWatch.cfg MCTbWatch`, a proof with `tlapm TbWatchProofs.tla`.

## The system

| Part | State | Operations | Hard behaviour |
|---|---|---|---|
| Watch thread of the dashboard, `_tb_fetch.py` (`assemble_logdir`, `_LiveWatch`) | `_runs`, `_shown`, `_links`, `_handled`, `_pending`, `_refreshing`, `_refresh_failing`; a directory of links | `link`, `add`, a pass: check, re-point, follow, pending, refresh | MLflow, writers and the server change between any two steps of a pass; half-finished `link` calls |
| Link names, `_tb_fetch.py` (`_link_names`) | the names in that directory | choose names, link, unlink | names that extend one another, ids that begin alike, leftovers |
| Cache of event files, `_tb_fetch.py` (`fetch_run`, `_extend_or_replace`, `_copy_scalars`) | files under the cache directory | download, append, replace, link | a file listed and downloaded at different moments; interruption; files written anew |
| TensorBoard writer and sync, `_tensorboard.py` | shard indexes, event files, `_uploaded` | write, roll, sync pass, leaving the block | a training thread, a sync thread, the underlying writers' own flushing; failing uploads; the last sync |
| Code state capture, `_capture.py`, `_git.py` | tags and `code/state.patch` on the server, `_patch_holders` in the process | `capture`: read state, build patch, record | a series of requests of which any may fail; the user edits and commits meanwhile; nested and resumed runs |
| Reconstruction, `_cli.py` (`checkout`, `diff`, `clean`), `_git.py` | branches, worktrees, the user's working tree | create, apply, undo, compare, remove | undoing a half-done reconstruction, several commands at once, a user who works meanwhile |
| Run lifecycle, `_lifecycle.py`, `__init__.py` | MLflow's stack of active runs, statuses, tags | enter, exit, walk a chain | nested blocks, exceptions caught in between, `KeyboardInterrupt` anywhere |
| Params and session, `_params.py` | `_sessions`, `_claimed` | `log_params`, `claim_session` | several threads, two dictionaries, failing requests |
| Flattening, `_params.py`, `_metrics.py` | none | pure functions | collisions of keys |
| Run lookup and reports, `_cli.py`; names and limits, `_tags.py` | none | queries, printing | none |

How they meet: a training process calls `start_run()` (lifecycle, capture), `log_params()` and
`tensorboard()`. The writer's sync thread uploads event files to the run's artifacts and tags the run
with its local directory; a dashboard, another process, finds the run through MLflow, links that
directory or downloads the artifacts, and follows both while TensorBoard reads the links. `checkout`
and `diff` read what capture recorded. Nothing is shared but MLflow, the artifact store and the disk.

What makes each part correct:
* watch thread: its five sets and the directory agree; only deleted runs leave, and stay away; a run
  that writes appears; what a run stored until it was heard to be over is shown, and then fetched no
  more; no warning repeats;
* link names: every run gets a name that is free, a plain one only when no other shown run has it;
* cache: what is here of a file is a beginning of the file, also after an interruption, and in the end
  all of it; a run that was fetched can be viewed;
* writer: events are not lost on leaving, no completed upload leaves less than one before it, what is
  recorded as uploaded is stored, the mirror catches up, leaving ends, one failure does not stop the thread;
* capture: what was captured without a warning can be reconstructed as it was, and two runs called
  identical are;
* reconstruction: it makes exactly the recorded tree; a failure leaves nothing behind; nobody loses work;
* lifecycle: a run ends as its own block was left, with the right cause; a chain is walked to its end;
* params: a session holds what is on the server, and misses nothing without a warning; what a block's
  body logs lands on the run of that block.

## Modules

| Module | Models | Used by |
|---|---|---|
| `ShownRuns` | what a dashboard promises of the runs it shows (abstract) | `TbWatch` |
| `TbWatch` | the watch thread, MLflow, the writers and the server it races with | `MCTbWatch`, `TbWatchProofs` |
| `MCTbWatch` | values of its constants | three runs |
| `TbWatchProofs` | theorems about the thread's books, checks and removals | `TbWatchPromiseProofs` |
| `TbWatchPromiseProofs` | theorems about what the thread keeps for its user, and `ShownRuns` | |
| `EventMirror` | what a `tensorboard()` block promises of the run's artifacts (abstract) | `TbWriter` |
| `TbWriter` | one `tensorboard()` block | run `writer`, `TbWriterProofs` |
| `TbWriterProofs` | theorems about `TbWriter`, and `EventMirror` | |
| `CodeState`, `MCCodeState` | `start_run()`'s capture, what `checkout` makes of the record, the shortcut of `diff` | two runs, `CodeStateProofs` |
| `CodeStateProofs` | theorems about the record | |
| `Reconstruct`, `MCReconstruct` | `checkout`, `diff` and `clean` on one repository | two runs, `ReconstructProofs` |
| `ReconstructProofs` | theorems about what commands leave and take | |
| `CacheFetch` | one run's event files on their way to the disk of a dashboard | two runs, `CacheFetchProofs` |
| `CacheFetchProofs` | theorems about the cached files | |
| `LinkDir`, `MCLinkDir` | the names in a dashboard's directory | run `linkdir`, `LinkDirProofs` |
| `LinkDirProofs` | theorems about the names | |
| `Lifecycle` | blocks of one thread, MLflow's stack, chains of attempts | `Training` |
| `Params` | `log_params()` and `claim_session()` by several threads | `Training` |
| `Training`, `MCTraining` | a training script: `Lifecycle` and `Params` composed | run `training`, `TrainingProofs` |
| `TrainingProofs` | theorems about runs, chains and sessions | |

### TbWatch

The variables are the thread's own (`links`, `handled`, `pending`, `refreshing`, `failing`, named
after the fields; `_shown` is `Shown`, the runs whose `link` is not "none"), the locals of the pass
under way, the two things on disk (`link`, and `held`, what is here of a run's stored events: none,
stale or fresh) and the outside world (`status`, `deleted`, `tagged`, `dirs`, `stored`, `stable`).

Every request to a server and every look at the disk is a step of its own:

    _check_pass, _remove         CheckOk, CheckFail
    _loop, _repoint              ListGone, RepointOk, RepointFail, Repointed
    _follow_pass, add            FollowPass, FollowFail
    link                         LinkTargets, FetchOk/FetchFail (one per run), Link or LinkRaises
    _pending_pass                PendingPass, then as link
    _refresh_pass                RefreshPass, FetchOk/FetchFail (one per run), Refreshed
    assemble_logdir              Start, then as link

The outside world moves between any two: runs start, tag themselves, upload, end, are resumed,
deleted and restored, writers leave and remove their directory. Neither opening a writer nor an upload
looks at the run's status, so a run may store more after it ended. `heard` is the history of that: what
a check or a search last took a run to be, running or over, and whether it uploaded after it was taken
to be over. `Modes` holds the four kinds of
dashboard: with or without `follow` (a query, or named runs) and with or without an artifact root
(copies instead of downloads).

Abstracted: one check is one atomic search (true up to the 200 runs of `CHECK_BATCH`); the download
of one run is atomic in its effect, and when it fails may leave what there was or some files of a run
fetched for the first time (`CacheFetch` opens it up); link names are the run's identity (`LinkDir`
chooses them); the once-only warnings of a failing check and of a failing follow pass are left out,
those about a run's files are counted (`reports`); `--chain` is `Attempts`, constant over a behaviour;
stopping the thread is a behaviour that stops. `Elsewhere`, `Unlinkable` and `Broken` name the runs
for which `_artifact_folder`, the making of a link and the walk of a chain fail. A run of `Local` has
a directory on this host, any other is written on another host.

`ShownRuns` has three variables of the dashboard (`view`, `kept`, `away`) and two of the world, and no
pass: a run comes into view live only while it is written on this host, turns into files only when its
writer has left, never back, and leaves only when it is found deleted, with everything kept of it,
until it is restored. `TbWatch` implements it under

    view <- link,  kept <- {r : held[r] # "none"},  away <- removed,  writing <- dirs

where `removed` is the history of what a check removed.

### TbWriter

Two streams, light and media, of shards; a file is a stream and a shard number, its size the number
of its events. The training thread holds the lock from `Write` until the roll is over (`Roll` seals
and moves the index, `OpenShard` opens or fails to). `Flush` is the underlying writer's own. A pass
of the sync thread is `Tick`, `ReadOpen` (`media_path`, under the lock, or the thread's end), `List`,
and per file `Ask` (the size), `Send` (the upload reads the file), `Arrive` (some of it comes in, and
replaces what was stored), `PutOk` or `PutFail`, which leaves what has come in, if anything, or was
carried out all the same. That an artifact may be short while its upload is under way is what
`_tb_fetch.py:77` and `openspec/specs/tensorboard-viewing/spec.md:117-120` say; `CacheFetch` has the
same seen from the dashboard. Leaving is `Exit`, `Joined`, `Close`, the same pass without the media shard
held back, `Remove`. A process killed without warning is a behaviour that stops: the invariants about
the store hold at every step.

`EventMirror` knows of no thread, lock, pass or record: of each file the store holds a beginning of
what was written to it, which may be any while an upload comes in or after it failed (`Arrive`), but
no upload that is carried out (`Put`) leaves less than an earlier one did (`full`), and when the block
has been left all of it is there but for files that were refused then. `TbWriter` implements it with a phase made of where the exit is.

Abstracted: a pass takes files in any order (the code sorts names); subdirectories, histogram bins
and which method goes to which stream are left out; tagging and the HParams session come before the
first state; after a shard failed to open its stream is written no more (what a write then does is
tensorboardX's); a failing close inside a roll is left out.

### CodeState

A working tree is a value, a commit the tree it holds, a patch the pair of the tree it was made
against and the tree it makes. `StartRun` begins a capture, `ReadState` and `BuildPatch` are the two
looks at the repository, and `Record`/`RecordFail` make one request after the other in the order of
`_record_state`, `_record_patch` and `capture`. `Edit`, `Commit` and `Exit` (the process ends or is
killed) may come between any two. MLflow's stack of active runs decides a new run's parent; a resumed
run keeps its own. `Restored(r)` is what `checkout` makes of the record, `Identical(a, b)` the
shortcut by which `diff` compares nothing.

Abstracted: branch, URL, MLflow's own tags and the invocation are one request without effect on
reconstruction; a diff is read at one moment; a patch applies only to the tree it was made against.

### Reconstruct

A commit is the set of changes it holds over the recorded one: a run's patch, the user's edits to
tracked files ("edit") or an untracked file ("file"). `branches`, `trees` (the worktrees, by branch,
which may have lost their directory) and `root` (the user's working tree) are git's; `cmd` holds each
command's place and locals. Every git command that changes the repository is a step, so commands and
the user interleave between them:

    checkout        Check, AddTree or Switch, Apply (UndoTree, UndoBranch when it fails), Commit
    diff            the same for two sides, one after the other, then SweepTree, SweepBranch for each
    clean           List, then RemoveTree and RemoveBranch for each leftover, until one fails

A command may fail where git can fail or be killed anywhere; a `git worktree add` that fails may leave
nothing, a branch, or both, and a worktree (a locked one) may refuse to be removed. Ctrl-C in a diff
runs its `finally`. `--force` discards changes to tracked files; the new files of a patch may stay
(`ByForce`).
`disturbed` are the branches a `clean --remove` took from under a command that was using them.

Abstracted: the checks of a checkout are made at one moment, and so are the two listings of a
`clean`; one in-place checkout at a time; a worktree that a command has just made can be removed by
that command; `commit_exists` holds; an untracked file never has the name
of a recorded one; the order in which `clean` takes leftovers is any; the temporary directory of a
diff is the worktree's; `branch_name` maps different runs to different branches (eight characters of
their ids are in them).

### CacheFetch

A file is the sequence of its events, an event the version of the file it belongs to, so that a file
written anew under its old name shares nothing with what it was. A fetch is `List` (sizes, once), and
per file `Look`, `Download`, `Compare` (`_extend_or_replace` decides), `Write` and `Link`; `Stop`
interrupts it anywhere, and in an append leaves any part of the tail. On the other side files grow,
are caught while an upload replaces them (`Truncated`, `Completed`), or are written anew. `copying`
is the dashboard with an artifact root (`_copy_scalars`), which reads sizes file by file and sees no
upload under way, since the tracking server moves finished files into place.

Abstracted: a server that reports no sizes; `unlink` and `symlink_to` are one step; files of a run
may be taken in any order; downloads are whole or fail.

### LinkDir

`base` is each run's name in the snapshot `_runs` has of it, `link` its link, `rest` the names of
directories of copies that could not be deleted. A name is the sequence of its parts, so that a user's
"a-4f" and the distinguished name of a run "a" are the same. `Link(order)` is any `link` call with any
runs not shown, in any order, stopping at a link that fails. `Naming(order)` is the loop of
`_link_names` after each of its rounds. Run ids are longer than eight characters (`Short[r] # r`), and
`Numeral` writes different numbers differently. Abstracted: `_run_name`'s replacement of
characters; a name is what it yields.

### Lifecycle, Params, Training

`Lifecycle`: `blocks` are the open `with` blocks, `stack` MLflow's active runs. The two differ because
MLflow's own `start_run()` and `end_run()` move the stack, because an interrupt may fall before
`start_run` returns, and because MLflow's `__exit__` ends the run on top, whichever it is. `__exit__`
is three steps (`BeginExit`, `RecordCause`, `Exit`); an exception propagates from block to block until
`Catch`. A second Ctrl-C may fall anywhere in `__exit__`, also inside MLflow's `end_run` (the run off the
stack, its status sent or not). `astray` holds the runs whose end their own block did not decide.
`AttemptRuns` is the loop over the chain of `continues` tags, a request for each attempt; all the
requests of a walk find the runs in the one state in which it is evaluated.

`Params`: each call is a sequence of steps (`LogParams`, `Send` per batch, `Write`, `Remember`,
`Check`; `Claim`, `Copy`); any other thread runs between two. A request may fail after it was carried
out. The artifact is `hparams/<name>.json`: a model logged under a name that the run has already
replaces the artifact of the other one (`Overwritten`).

`Training` extends `Lifecycle` and instantiates `Params` with the active run of each thread: MLflow's
stack belongs to its thread, so the worker has no active run. The main thread's blocks wait while it
is in a call, and what a call raises propagates through them.

Abstracted: a model is a value and its params are numbered batches; two models that flatten to the
same key are not told apart; `tensorboard()` is its claim of the session.

## Runs

| Run | Instance | Shows | States |
|---|---|---|---|
| `watch` | one local run that uploads at will, over or not, and is resumed at will, all four modes, a server that fails until it recovers | every property of the thread that the code keeps, liveness included | 80 000 |
| `watch_pair` | a local run and one created later elsewhere whose link cannot be made, the first resumed at will, all four modes, a server that fails at will | `TbWatch` implements `ShownRuns` | 2 350 000 |
| `writer` | two streams of up to two shards, two events, uploads that come in piece by piece, a server that recovers, a failing disk | `TbWriter` implements `EventMirror`; safety and liveness of the writer | 283 000 |
| `code` | a run that may be resumed, one nested in it, three trees, two commits, everything may fail | the safety of capture | 2 180 000 |
| `reconstruct` | two commands of ten kinds at once, three runs (dirty, clean, a patch that does not apply), a user who works | exactness, undoing, and that nobody takes what another made | 531 000 |
| `cache` | a scalar and a media file, two events, two versions, one dashboard killed and started again | what the cache holds, and that it catches up | 1 080 000 |
| `training` | two runs in blocks, resumed and chained, a main thread and a worker that log and claim, two models under one name | how runs end, chains, sessions | 588 000 |
| `linkdir` | three runs, two whose ids begin alike, four names that extend one another, one leftover | names are free and honest | 46 000 |
| `watch_broken_chain` | two runs, the chain of one cannot be walked | `Appears` fails for the other | |
| `code_resumed` | both runs may be resumed, nothing fails | `ReferenceKept` fails | |
| `clean_in_place` | one command after the other, nothing fails | `CleanRemoves` fails | |
| `cache_shrinks` | one scalar file, one version | `KeepsBytes` fails | |

Why the bounds are enough. The watch thread treats each run by itself but for three places: the loop
of `link`, the set recomputed by a refresh, and the follow pass; a second run is there for those, and
one run suffices for the rest. (In `watch_pair` one run has no artifact folder and the other no link, so
the modes that copy do little there; `watch` has them, and `PromiseKept` covers two runs with them.)
No counter of `TbWatch` is bounded but `reports`, which stops at 2. In
`TbWriter` (`MaxShard`, `MaxEvents`, `Limit`) a shard is full with one event on disk, so two events
and two shards give each stream a sealed, a growing and an empty file. In `CodeState`, `MaxCommits` =
2 gives two trees a patch can be made against, and three trees two patches that differ and one that is
too large; trees below the ceiling are interchangeable, hence `SYMMETRY`. `Reconstruct`: commands only
meet in pairs on a branch or on the working tree; each is typed once, and the ten kinds (`Typed`)
hold every flag of `checkout`, a diff that succeeds and one that does not. `CacheFetch` (`MaxLen`,
`MaxVersion`): two events are needed for a tail, two versions for a mix; files meet only in the loop
over them. `LinkDir` (`MaxRest`): names that are a run's plain name, its name with its id's first
characters, with its id, and with a counter, so that every form of `_distinct_names` is taken by
somebody. `Lifecycle` (`MaxStarts`): two runs suffice for a chain that goes round and for a block
inside another; runs are interchangeable, and so are the two models (`SYMMETRY`); `MCTraining` adds the constraint `Bounds`,
which lets runs be resumed and chained while no thread has called anything, and explores the calls with
each run started once and at most one of them ending otherwise than by its block; each thread makes
`MaxCalls` = 1 call, and a model has one batch. Deadlock is checked in `linkdir` only: elsewhere
a dashboard that failed to start, a block that was left, a process without runs and commands that have
ended rest.

## Properties

TbWatch: `BooksAgree` relates the thread's sets and the directory. `ChecksCover` says that no
`statuses[...]` or `_shown[...]` raises `KeyError`, which would end the thread. `LiveWatched`: a live
link is watched while its directory exists, so it can be re-pointed. `FinalEventsDue`: a run whose
files fall short of what it stored is still due for a fetch, unless it stored the rest after the thread
had heard that it was over. `RefreshReportedOnce` and `GoneStaysGone`
are about warnings and deletion, `KeepsPromise` is the implementation of `ShownRuns`. Liveness:
`Appears`, `DeletedLeaves`, `Settles`. `OnlyDeletedLeave`, which `KeepsPromise` contains, is proved.

TbWriter: `NothingLost`, `RecordHonest`, `SyncSurvives`, `Mirrors` (the implementation of
`EventMirror`); liveness: `Synced`, `ExitEnds`.

CodeState: `Reproducible`, `ReferenceHolds`, `IdenticalMeansSame`. All except runs that were captured
again (that is `ReferenceKept`); `Reproducible` also excepts captures that reported something and
those with a commit between the two looks at HEAD.

Reconstruct: `Restored` (what a checkout leaves and a diff compares is the recorded tree, whatever
other commands do), `NothingLeft` (what is in the repository belongs to a command that runs, was
killed, or is a checkout that succeeded or broke off on an error outside the patch's application, the
only case the code undoes), `OnlyOwn`, `WorkKept`; `CleanRemoves`, which fails.

CacheFetch: `Genuine` (never a mix of two files, never an event twice), `Served` (after a fetch every
scalar file listed is here and linked), `CaughtUp` (liveness); `KeepsBytes`, which fails.

LinkDir: `AllFit` (whatever is linked, in whichever order, no name is refused), `PlainIsUnique`.

Training: `EndedAsLeft`, `CauseTold`, `Walked`, `SessionHonest`, `LandsInBlock`.

Exceptions that are not hidden: `Appears` speaks of runs that still wait for a try once the server
answers, since the one try an ended run gets counts even when its fetch fails or its directory
vanishes between two looks (`_tb_fetch.py` 226 and 240); `FinalEventsDue` and `Settles` leave out what
a run uploads after a check or a search took it to be over and before one finds it running again, since
the final fetch has no successor (`_tb_fetch.py:611`); `NothingLost` leaves out the files the exit
itself could not flush or upload, which the directory's removal loses; `EndedAsLeft` leaves out the
runs in `astray`; `SessionHonest` counts an artifact that another model replaced under the same name;
`Restored` and `WorkKept` leave out what the user edits between the look at the tree and the switch;
`CaughtUp` allows a copy of an older version that is as long as the file is now,
which no fetch looks at again; `NothingLeft` and `OnlyOwn` leave out `disturbed` branches.

Fairness. `FairSpec` of `TbWatch` assumes only that the watch thread keeps running, as a thread with
a timed wait does, and that a server that is going to recover does so; neither users nor training
processes are fair. `FairSpec` of `TbWriter` assumes that a call that began ends, that the sync thread
and the exit run, that the underlying writer flushes in the end (it does every `flush_secs`), and that
the server recovers; writes and the leaving of the block are not fair. `FairSpec` of `CacheFetch`
assumes that a fetch goes on and that another follows, which the watch thread does at every pass while
the run runs and once when it has ended; `CaughtUp` asks for nothing but of files that the server, which
no longer fails, holds whole from some point on.

## Where the code and its text disagree

Checked by a run each:

1. `_tb_fetch.py:553`. A chain that cannot be walked keeps all other new runs from being added.
   (`watch_broken_chain`)
2. `_capture.py:179`. A resumed run overwrites the patch that runs nested in it refer to; a resumed
   nested run keeps a stale reference. (`code_resumed`)
3. `_cli.py:627`. After `checkout --no-worktree`, `clean` lists the user's own working tree, and
   `clean --remove` fails at it and leaves everything after it. (`clean_in_place`)
4. `_tb_fetch.py:78`. A file listed longer than its cached copy and downloaded mid-upload replaces that
   copy by a shorter one. (`cache_shrinks`)

Seen while modelling, in the models but without a run of their own:

* `_tb_fetch.py:608`: a first copy that failed is dropped from `_refresh_failing` by the refresh of the
  same pass, and is reported again. `:611`: a run resumed and ended between two checks is not fetched
  again, and neither is a run that uploads on after its final fetch: a block that outlives its run or calls
`end_run()` inside, or one opened with the `run_id` of a run that is over (`_tensorboard.py:293-315,355`),
since `_tb_fetch.py:343,611` fetch a run that is over once. `:433`: a live run linked before a link that fails is never watched. `:574`: a pending run
  whose link cannot be made ends the thread. `:111`: two dashboards on one cache may append a tail twice
  (`CacheFetch` with two `Fetchers`).
* `_tensorboard.py:295`: the open media shard may be uploaded when a roll falls between the two looks
  of a pass; a media shard that cannot be opened ends the sync thread. `:308`: a sealed shard may be
  uploaded twice.
* `_cli.py:702`: what the user edits between the look at the working tree and the undoing of an
  in-place checkout (744) is discarded. `:713`: `checkout --commit` of a run from a clean tree fails
  with git's error and leaves branch and worktree; with `--force --no-worktree` it commits untracked
  files too. `:734`: a `worktree add` that fails halfway leaves its branch. `:614`: branches named with
  `--branch` outside `runsnap/` are not listed by `clean`.
* `_cli.py:683`: a run whose capture was cut short between the commit and the dirty tag is reconstructed
  as a clean one; if the process was killed there, no warning was given either. `_git.py:135`: a commit
  between `read_state` and `build_patch` leaves a patch against another commit than the one recorded.
* `_capture.py:162`: a run resumed on a clean tree keeps its old digest, and `diff` may call it
  identical to a dirty run.
* `_lifecycle.py:32`: a run started inside a block without a `with` of its own takes the outer block's
  end, and the outer run stays RUNNING. `:47`: a run that failed, was resumed and finished keeps its old
  cause; a second Ctrl-C there leaves the run RUNNING.
* `_params.py:150`: a `log_params` that races the writer may warn although its values are in the
  session; it never stays silent when they are not. `:147`: a second model under the same name replaces
  the first one's artifact, while both stay in the session and among the run's params.

## Proofs

Each theorem holds for any values of the constants that satisfy the named assumption of its module
(`ConstantsAssumption`, `SizesAssumption`, ...), which say only what kind of thing each constant is and
that what stands for "nothing" (`None`) is nothing else. What a theorem assumes beyond that is stated
in it and below. The invariants were checked by TLC before they were proved.

### The watch thread

`TbWatchProofs`: `TypeCorrect`, `BooksCorrect` (`[]BooksAgree`), `ChecksCoverCorrect` (`[]ChecksCover`),
`OnlyDeletedLeaveCorrect` and `GoneStaysGoneCorrect` (`[]GoneStaysGone`).

`BooksAgree` is not inductive: it must be known what a pass holds at each of its steps. `Books` adds
three parts. `PassShape` says which runs are in a pass's locals at which step (for instance, the runs
to be re-pointed are watched links, and what is fetched belongs to the call). `LinkedOnce` says that
the runs of a `link` call are not shown yet, so that linking one never overwrites a live link.
`RefreshedShown` says that the runs of a refresh are shown and are not live links. One lemma shows
that the outside world preserves `Books`, another does so step by step for the thread
(`EnvironmentBooks`, `ThreadBooks`). `Absent` is the invariant for removal: a removed run that is
still deleted is in no local set through which a later step could link or fetch it.

`TbWatchPromiseProofs`: `FinalEventsDueCorrect`, `LiveWatchedCorrect`, `RefreshReportedOnceCorrect`, and
`PromiseKept`: every step of `TbWatch` is a step of `ShownRuns` or a stutter. What a step may do depends
on what an earlier step of the same pass saw and on what happened since, so `Knowledge` adds to `Books`
how far a pass's knowledge is still true: what its check left (`PassChecks`), that a run linked live
has told of its directory (`LiveTagged`), that copies are of shown runs (`CopiesShown`), and that a pass
takes a run to be what was last heard of it, and that what was fetched of one that is over is all it
stored, unless it uploaded since (`OverKnown`). `FilesDue` is the invariant behind `FinalEventsDue`: a
run shown from files is due while it was last heard to be running, and until all it stored before it
was heard to be over is here. `Quiet` is the one behind `RefreshReportedOnce`: a run reported once is among the
failing ones until it succeeds.

Assumed: `GoneStaysGoneCorrect` and `PromiseKept` are about dashboards without `--chain`
(`Attempts[r] = {r}`), since an attempt of a known run could otherwise be added again by the pass that
removed it. `FinalEventsDueCorrect` and `LiveWatchedCorrect` are about runs that can all be linked
(`Unlinkable = {}`): a link that cannot be made ends `link` before the runs it has linked by then are
noted as refreshed or watched, and they are not true then.

### The writer

`TbWriterProofs`: `TypeCorrect`, `NothingLostCorrect`, `RecordHonestCorrect`, `SyncSurvivesCorrect`, and
`MirrorsCorrect`: every step of `TbWriter` is a step of `EventMirror` or a stutter. A file's size is
asked for, the file is read and its content stored in three steps, with the training thread writing
and rolling in between. `Block` is the inductive invariant: how shards relate to what is on disk
(`Shards`: only the open one may have unflushed events), that the pass of the thread and the one of the
exit take turns (`Turns`), that what a pass has in hand lies between what was stored in full and what is on
disk
(`InHand`, so that no completed upload takes the store back), and what the exit still has to do
(`ExitRest`).

### Code state

`CodeStateProofs`: `TypeCorrect`, `ReferenceHoldsCorrect`, `IdenticalMeansSameCorrect`,
`ReproducibleCorrect`. What the tags of a run say depends on which requests were made before its
capture was cut short. `Coherent` says that the requests are made in one order (`Ordered`), each for
the state that was read (`Planned`, `Pending`), that a run captured once carries tags that fit each
other (`Once`), and that a reference is made only to a patch that is there (`Referred`). `Reproducible`
needs besides that a capture that nothing disturbed leaves all that is needed (`Undisturbed`, `Complete`).

### Reconstruction

`ReconstructProofs`: `TypeCorrect`, `NothingLeftCorrect`, `OnlyOwnCorrect`, `WorkKeptCorrect`,
`RestoredCorrect`, for any number of commands at once. `RInv` ties every branch to the command that
made it (`Books`): what is in the repository is of a command that has got that far or is excused, and a
command that works on a branch still has it unless a clean took it. `Phases` says how far each command
can have got, `Standing` that one checkout at a time works in the user's tree, and `Looked` what was in
it when that checkout looked. `Contents` adds what the trees hold on the way to a checkout or a
comparison (`Found`, `Laid`). Assumed by `ReconstructAssumption`: the names of the main branch and of
a detached head are not names of branches that commands make.

### The cache

`CacheFetchProofs`: `TypeCorrect`, `GenuineCorrect`, `ServedCorrect`. What is appended was compared a step
earlier, so `Sound` adds that what a fetch has in hand fits what is here (`InHand`): a tail follows it,
and is the end of the download. `Reached` says which files a fetch is done with. All three are
about one dashboard on the cache (`OneFetcher`): with two, TLC finds `Genuine` violated, since both may
append the same tail (`_tb_fetch.py:111`), and one may remove a run the other is fetching.

### Link names

`LinkDirProofs`: `TypeCorrect`, `AllFitCorrect`, `PlainIsUniqueCorrect`. `TypeOK` is inductive; the proof
is about the algorithm. `FirstFreeIs`: there is a free name, because the candidates of a run are all
different (`Differ`) and more than the names in use (the pigeonhole principle). `NamingHolds`: the
invariant `Held` of the loop, that after n rounds the first n runs and those that keep their own name
are named, each differently, and as nothing in the directory is.

### Runs, chains and sessions

`TrainingProofs`: `TypeCorrect`, `EndedAsLeftCorrect`, `CauseToldCorrect`, `WalkedCorrect`,
`SessionHonestCorrect`, `LandsInBlockCorrect`. The blocks of a thread and MLflow's stack move apart, but
the runs that did not go astray are on both (`Owned`) and in the same order (`InOrder`), so a block that
finds its own run on top ends it. `Causes` says which cause a run may carry while its block is left.
`SessionHonest` rests on what a call has done by each of its steps (`Calls`) and on the order in which a
claim marks and then copies (`Kept`). `Walked` is true in every well-typed state: `Chain` is the invariant
of the loop of `attempt_runs`, and a walk without end would meet more runs than there are.

### Induction over numbers

The library's induction theorems take an operator as a parameter, which the provers cannot use. The two
loops that are recursive functions (`Naming`, `Walk`) are proved about by the lemma `Least`: a set of
numbers that is not empty has a least element. It follows from two facts of the library without such a
parameter, that strict inclusion between finite sets is well-founded (`FS_StrictSubsetOrderingWellFounded`)
and that a well-founded relation has minimal elements (`WFMin`). `Least` gives that the recursive function
exists (`NamingIs`, `WalkIs`), and then the loop's invariant: the set of rounds where it fails has no
least element.

### Only model-checked

Liveness is out of this prover's reach, as `ENABLED` is: `Appears`, `DeletedLeaves`, `Settles`, `Synced`,
`ExitEnds` and `CaughtUp`. The four violations are counterexamples, which TLC finds. `FinalEventsDue` and
`LiveWatched` with links that cannot be made, `GoneStaysGone` and `KeepsPromise` with chains, and
`Genuine` with two dashboards are not true of the code, or not of every state, so nothing is proved.

## Not modelled, and why

Flattening of params and metrics is pure recursion over nested data, without state, order or failure:
a model would repeat it. Run lookup, reports and `_tags.py` keep no state; `load_params` only reads.
Parsing of diff headers, path quoting, URLs and histogram bins are string or number handling without
control. MLflow, git, TensorBoard and tensorboardX are external: they appear as what the code sees of
them. A dashboard with `--chain` over runs that have predecessors is in `TbWatch` (`Attempts`) but in no
run: with two runs and a chain the state space is beyond what TLC does in minutes.

## Plan

The modules planned are written, and every safety property that a run checks is proved. What is left:
* `TbWatch` with `--chain`: the part of `GoneStaysGone` and of `ShownRuns` that holds when an attempt
  may be added by the pass that removed it, and with links that cannot be made: the part of
  `FinalEventsDue` that holds for the runs of other `link` calls.
