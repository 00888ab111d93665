------------------------------ MODULE TbWriter ------------------------------
(***************************************************************************)
(* One `with runsnap.tensorboard() as writer:` block (_tensorboard.py):    *)
(* the training thread that writes and rolls shards, the underlying        *)
(* writers that flush on their own time, the background sync thread, and   *)
(* the exit that seals, uploads the rest and removes the directory, on a   *)
(* server that fails now and then.  A process killed without warning is a  *)
(* behaviour that stops: what is said of the store holds at every step.    *)
(*                                                                         *)
(* A file is a stream and a shard; its size is the number of its events.   *)
(* A pass finds out sizes, reads files and uploads them in steps of its    *)
(* own, and only `media_path` takes the writer's lock.  While an upload is *)
(* under way the artifact may hold any part of it, which is what stays of  *)
(* one that fails.                                                         *)
(***************************************************************************)
EXTENDS Integers, FiniteSets

CONSTANTS
  MaxShard,   \* bound: the last shard a stream rolls into
  MaxEvents,  \* bound: the events written to the streams together
  Limit,      \* max_bytes of the streams: a shard with more on disk is rolled
  Servers,    \* "reliable", "faulty", or "recover": faulty up to some point
  DiskFails   \* whether opening or closing a file may fail

ASSUME SizesAssumption ==
  /\ MaxShard \in Nat /\ MaxEvents \in Nat \ {0} /\ Limit \in Nat
  /\ Servers \in {"reliable", "faulty", "recover"}
  /\ DiskFails \in BOOLEAN

VARIABLES
  (* TensorBoardWriter and the disk *)
  shard,     \* _Stream._shard
  events,    \* how many events were written so far
  written,   \* events handed to the writer of each file
  disk,      \* events of each file that are on disk
  files,     \* the files in the directory
  broken,    \* streams whose next shard did not open
  user,      \* user[s]: where the training thread is in s's _Stream.call
  (* _Sync *)
  uploaded,  \* _uploaded: the size recorded for each file, or -1
  stop,      \* _stop
  at,        \* at[p]: where pass p of sync() is
  held,      \* held[p]: open_media
  queue,     \* queue[p]: listed files still to be looked at
  file,      \* file[p]: the file being uploaded
  size,      \* size[p]: its size when the pass asked
  body,      \* body[p]: what log_artifact read of it
  (* the exit of tensorboard(), and MLflow *)
  main,      \* "block", "join", "close", "sync" or "done"
  store,     \* events of each file in the run's artifacts, or -1
  full,      \* history: what the last upload that was carried out left there
  stable,    \* from now on every request succeeds
  missed     \* history: files the exit could not flush or upload

logdir == <<shard, events, written, disk, files, broken>>
locals == <<held, queue, file, size, body>>
sync   == <<uploaded, stop, at, locals>>
mlflow == <<store, full, stable>>
vars   == <<logdir, user, sync, main, mlflow, missed>>

Streams == {"light", "media"}
Files == Streams \X (0 .. MaxShard)
None == <<"none", 0>>
Passes == {"thread", "exit"}

(* The shard a stream has open, and the files that are written no more.    *)
Open(s) == <<s, shard[s]>>
Sealed(f) == f[2] < shard[f[1]]

TypeOK ==
  /\ shard \in [Streams -> 0 .. MaxShard]
  /\ events \in 0 .. MaxEvents
  /\ written \in [Files -> 0 .. MaxEvents] /\ disk \in [Files -> 0 .. MaxEvents]
  /\ files \subseteq Files /\ broken \subseteq Streams
  /\ user \in [Streams -> {"out", "wrote", "rolled"}]
  /\ uploaded \in [Files -> -1 .. MaxEvents]
  /\ store \in [Files -> -1 .. MaxEvents] /\ full \in [Files -> -1 .. MaxEvents]
  /\ stop \in BOOLEAN /\ stable \in BOOLEAN
  /\ at \in [Passes -> {"wait", "open", "list", "next", "send", "put", "ended", "dead"}]
  /\ held \in [Passes -> Files \union {None}] /\ file \in [Passes -> Files \union {None}]
  /\ queue \in [Passes -> SUBSET Files]
  /\ size \in [Passes -> 0 .. MaxEvents] /\ body \in [Passes -> 0 .. MaxEvents]
  /\ main \in {"block", "join", "close", "sync", "done"}
  /\ missed \subseteq Files

Init ==
  /\ shard = [s \in Streams |-> 0]
  /\ written = [f \in Files |-> 0] /\ disk = [f \in Files |-> 0]
  /\ files = {<<s, 0>> : s \in Streams}
  /\ broken = {} /\ events = 0 /\ user = [s \in Streams |-> "out"]
  /\ uploaded = [f \in Files |-> -1]
  /\ store = [f \in Files |-> -1] /\ full = [f \in Files |-> -1]
  /\ stop = FALSE /\ stable = (Servers = "reliable")
  /\ at = [p \in Passes |-> "wait"]
  /\ held = [p \in Passes |-> None] /\ file = [p \in Passes |-> None]
  /\ queue = [p \in Passes |-> {}]
  /\ size = [p \in Passes |-> 0] /\ body = [p \in Passes |-> 0]
  /\ main = "block"
  /\ missed = {}
-----------------------------------------------------------------------------
(* The training thread, which holds the lock from Write until it is out.   *)

Locked == \E s \in Streams : user[s] # "out"

(* After a roll that failed, what a write does is the underlying writer's. *)
Write(s) ==
  /\ main = "block" /\ ~Locked /\ s \notin broken
  /\ events < MaxEvents /\ events' = events + 1
  /\ written' = [written EXCEPT ![Open(s)] = @ + 1]
  /\ user' = [user EXCEPT ![s] = "wrote"]
  /\ UNCHANGED <<shard, disk, files, broken, sync, main, mlflow, missed>>

(* _roll_if_full: a shard with too much on disk is closed, which flushes   *)
(* it, and the index moves on ...                                          *)
Roll(s) ==
  /\ main = "block" /\ user[s] = "wrote"
  /\ IF disk[Open(s)] > Limit /\ shard[s] < MaxShard
     THEN /\ disk' = [disk EXCEPT ![Open(s)] = written[Open(s)]]
          /\ shard' = [shard EXCEPT ![s] = @ + 1]
          /\ user' = [user EXCEPT ![s] = "rolled"]
     ELSE user' = [user EXCEPT ![s] = "out"] /\ UNCHANGED <<disk, shard>>
  /\ UNCHANGED <<events, written, files, broken, sync, main, mlflow, missed>>

(* ... before the next shard is opened, which may fail.                    *)
OpenShard(s) ==
  /\ main = "block" /\ user[s] = "rolled"
  /\ user' = [user EXCEPT ![s] = "out"]
  /\ \/ files' = files \union {Open(s)} /\ UNCHANGED broken
     \/ DiskFails /\ broken' = broken \union {s} /\ UNCHANGED files
  /\ UNCHANGED <<shard, events, written, disk, sync, main, mlflow, missed>>

(* The underlying writer flushes every TB_FLUSH_SECONDS and when it likes. *)
Flush(s) ==
  /\ main # "done" /\ disk[Open(s)] < written[Open(s)]
  /\ disk' = [disk EXCEPT ![Open(s)] = written[Open(s)]]
  /\ UNCHANGED <<shard, events, written, files, broken, user, sync, main, mlflow, missed>>
-----------------------------------------------------------------------------
(* _Sync.sync(), run by its thread and once more by the exit.              *)

Tick ==
  /\ at["thread"] = "wait"
  /\ at' = [at EXCEPT !["thread"] = IF stop THEN "ended" ELSE "open"]
  /\ UNCHANGED <<logdir, user, uploaded, stop, locals, main, mlflow, missed>>

(* media_path raises unless a file has the open shard's suffix, and        *)
(* nothing in the thread catches that.                                     *)
ReadableMutant == TRUE
Readable == ~Locked

ReadOpen ==
  /\ at["thread"] = "open" /\ Readable
  /\ IF Open("media") \in files
     THEN /\ at' = [at EXCEPT !["thread"] = "list"]
          /\ held' = [held EXCEPT !["thread"] = Open("media")]
     ELSE at' = [at EXCEPT !["thread"] = "dead"] /\ UNCHANGED held
  /\ UNCHANGED <<logdir, user, uploaded, stop, queue, file, size, body, main, mlflow, missed>>

(* The directory is listed without the lock.                               *)
List(p) ==
  /\ at[p] = "list"
  /\ queue' = [queue EXCEPT ![p] = files \ {held[p]}]
  /\ at' = [at EXCEPT ![p] = "next"]
  /\ UNCHANGED <<logdir, user, uploaded, stop, held, file, size, body, main, mlflow, missed>>

(* _upload: a file whose size is the one recorded is left alone.           *)
Ask(p, f) ==
  /\ at[p] = "next" /\ f \in queue[p]
  /\ queue' = [queue EXCEPT ![p] = @ \ {f}]
  /\ IF uploaded[f] = disk[f]
     THEN UNCHANGED <<at, file, size>>
     ELSE /\ at' = [at EXCEPT ![p] = "send"]
          /\ file' = [file EXCEPT ![p] = f]
          /\ size' = [size EXCEPT ![p] = disk[f]]
  /\ UNCHANGED <<logdir, user, uploaded, stop, held, body, main, mlflow, missed>>

(* log_artifact reads the file as it now is ...                            *)
Send(p) ==
  /\ at[p] = "send"
  /\ body' = [body EXCEPT ![p] = disk[file[p]]]
  /\ at' = [at EXCEPT ![p] = "put"]
  /\ UNCHANGED <<logdir, user, uploaded, stop, held, queue, file, size, main, mlflow, missed>>

(* ... and what of it has come in replaces what was stored before, all of  *)
(* it only in the end.                                                     *)
Arrive(p) ==
  /\ at[p] = "put"
  /\ \E n \in 0 .. body[p] - 1 : store' = [store EXCEPT ![file[p]] = n]
  /\ UNCHANGED <<logdir, user, sync, main, full, stable, missed>>

CarriedOut(p) ==
  /\ store' = [store EXCEPT ![file[p]] = body[p]]
  /\ full' = [full EXCEPT ![file[p]] = body[p]]

(* The locals of _upload are gone once it is over.                         *)
Uploaded(p) ==
  /\ at' = [at EXCEPT ![p] = "next"]
  /\ file' = [file EXCEPT ![p] = None]
  /\ size' = [size EXCEPT ![p] = 0] /\ body' = [body EXCEPT ![p] = 0]
  /\ UNCHANGED <<held, queue>>

(* The size recorded is the one asked for before.                          *)
RecordedMutantHeader(p) == size[p] + 1
RecordedMutantNothing(p) == uploaded[file[p]]
Recorded(p) == size[p]

PutOk(p) ==
  /\ at[p] = "put"
  /\ Uploaded(p)
  /\ CarriedOut(p)
  /\ uploaded' = [uploaded EXCEPT ![file[p]] = Recorded(p)]
  /\ UNCHANGED <<logdir, user, stop, main, stable, missed>>

(* A failed request leaves what has come in, if anything, or was carried   *)
(* out all the same.                                                       *)
RecordedFailedMutant(p) == size[p]
RecordedFailed(p) == uploaded[file[p]]

PutFail(p) ==
  /\ at[p] = "put" /\ ~stable
  /\ Uploaded(p)
  /\ CarriedOut(p) \/ UNCHANGED <<store, full>>
  /\ uploaded' = [uploaded EXCEPT ![file[p]] = RecordedFailed(p)]
  /\ missed' = IF p = "exit" THEN missed \union {file[p]} ELSE missed
  /\ UNCHANGED <<logdir, user, stop, main, stable>>

PassDone ==
  /\ at["thread"] = "next" /\ queue["thread"] = {}
  /\ at' = [at EXCEPT !["thread"] = "wait"]
  /\ held' = [held EXCEPT !["thread"] = None]
  /\ UNCHANGED <<logdir, user, uploaded, stop, queue, file, size, body, main, mlflow, missed>>
-----------------------------------------------------------------------------
(* Leaving the block.                                                      *)

Exit ==
  /\ main = "block" /\ ~Locked
  /\ main' = "join" /\ stop' = TRUE
  /\ UNCHANGED <<logdir, user, uploaded, at, locals, mlflow, missed>>

(* _Sync.stop() waits for an upload in flight.                             *)
StoppedMutant == TRUE
StoppedMutantEnded == at["thread"] = "ended"
Stopped == at["thread"] \in {"ended", "dead"}

Joined ==
  /\ main = "join" /\ Stopped
  /\ main' = "close"
  /\ UNCHANGED <<logdir, user, sync, mlflow, missed>>

(* Closing flushes a stream.  The media stream is not closed if closing    *)
(* the scalar stream fails, and what a stream that fails flushed is open.  *)
CloseFlushesMutant == {"media"}
CloseFlushes == Streams

Close ==
  /\ main = "close" /\ main' = "sync"
  /\ \E fails \in {{}} \union (IF DiskFails THEN {{"media"}, Streams} ELSE {}) :
       /\ disk' = [f \in Files |-> IF f[1] \in CloseFlushes \ fails THEN written[f] ELSE disk[f]]
       /\ missed' = {f \in files : f[1] \in fails /\ disk[f] # written[f]}
  /\ at' = [at EXCEPT !["exit"] = "list"]
  /\ UNCHANGED <<shard, events, written, files, broken, user, uploaded, stop, locals, mlflow>>

(* The directory is removed, whatever was missed.                          *)
Remove ==
  /\ main = "sync" /\ at["exit"] = "next" /\ queue["exit"] = {}
  /\ main' = "done"
  /\ UNCHANGED <<logdir, user, sync, mlflow, missed>>

Stabilise ==
  /\ Servers = "recover" /\ ~stable
  /\ stable' = TRUE
  /\ UNCHANGED <<logdir, user, sync, main, store, full, missed>>
-----------------------------------------------------------------------------
Call == \E s \in Streams : Roll(s) \/ OpenShard(s)
Pass(p) ==
  \/ List(p) \/ Send(p) \/ PutOk(p) \/ PutFail(p)
  \/ \E f \in Files : Ask(p, f)
SyncThread == Tick \/ ReadOpen \/ PassDone \/ Pass("thread")
Leave == Joined \/ Close \/ Remove \/ Pass("exit")

Next ==
  \/ Call \/ SyncThread \/ Leave
  \/ \E s \in Streams : Write(s) \/ Flush(s)
  \/ \E p \in Passes : Arrive(p)
  \/ Exit \/ Stabilise

Spec == Init /\ [][Next]_vars
FairSpec ==
  /\ Spec
  /\ WF_vars(Call) /\ WF_vars(SyncThread) /\ WF_vars(Leave) /\ WF_vars(Stabilise)
  /\ \A s \in Streams : WF_vars(Flush(s))
-----------------------------------------------------------------------------
(* Leaving the block by itself loses nothing: every event written is in    *)
(* the run's artifacts, but for files the disk or the server refused then. *)
NothingLost == main = "done" => \A f \in files \ missed : store[f] = written[f]

(* A file a pass would leave alone is stored as it is on disk, also when   *)
(* it grew while it was uploaded, or a later upload of it was cut short.   *)
RecordHonest == \A f \in Files : uploaded[f] = disk[f] => store[f] = disk[f]

(* The block keeps the promise of EventMirror: among others, an upload     *)
(* that is carried out never leaves less of a file than one before it      *)
(* did, which would put a dashboard's copy ahead of the run, because       *)
(* passes never overlap.                                                   *)
Phase == CASE main = "block" -> "open" [] main = "done" -> "left" [] OTHER -> "leaving"
Mirror == INSTANCE EventMirror WITH
  written <- [f \in Files |-> IF f \in files THEN written[f] ELSE -1],
  sealed  <- {f \in Files : Sealed(f)},
  phase   <- Phase
Mirrors == Mirror!Spec

(* The sync thread survives everything but a media shard that did not      *)
(* open: it never looks for the open shard in the middle of a roll.        *)
SyncSurvives == at["thread"] = "dead" => "media" \in broken

(* While the block goes on, everything but the open media shard reaches    *)
(* the artifacts once the server answers, and is then left alone.          *)
Due(f) == f # Open("media") /\ store[f] # written[f]
Synced ==
  <>[](main = "block" /\ at["thread"] # "dead")
    => <>[](\A f \in files : ~Due(f) /\ f # file["thread"])

(* Leaving the block ends.                                                 *)
ExitEnds == main = "join" ~> main = "done"
=============================================================================
