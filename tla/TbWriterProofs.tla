--------------------------- MODULE TbWriterProofs ---------------------------
(***************************************************************************)
(* What leaving the block loses, what the sync thread may take to be       *)
(* stored, and that every step of the training thread, of the sync thread  *)
(* and of the exit keeps the promise of EventMirror: for any number of     *)
(* shards and events, any size limit, and any failures.                    *)
(*                                                                         *)
(* A size is asked for, the file read and its content stored in three      *)
(* steps, with the training thread writing and rolling in between.  So the *)
(* invariant says how shards relate to what is on disk (Shards), that the  *)
(* two passes take turns (Turns), that what a pass has in hand lies        *)
(* between what is stored and what is on disk (InHand), and what the exit  *)
(* still has to do (ExitRest).                                             *)
(***************************************************************************)
EXTENDS TbWriter, TLAPS

(* Shards are opened one after the other; a closed one is all on disk, and *)
(* one that never opened is empty.                                         *)
Shards ==
  /\ \A f \in Files : disk[f] <= written[f] /\ written[f] <= events
  /\ \A f \in Files : Sealed(f) => disk[f] = written[f] /\ f \in files
  /\ \A f \in files : f[2] <= shard[f[1]]
  /\ \A f \in Files \ files : written[f] = 0
  /\ \A s \in Streams : Open(s) \in files <=> s \notin broken /\ user[s] # "rolled"
  /\ \A s \in Streams : s \in broken => user[s] = "out"

(* The exit starts its pass once the thread has stopped for good, and the  *)
(* training thread is then out of its writer.                              *)
Turns ==
  /\ main # "block" => ~Locked
  /\ main \in {"close", "sync", "done"} => at["thread"] \in {"ended", "dead"}
  /\ at["exit"] = "wait" <=> main \in {"block", "join", "close"}
  /\ at["exit"] \notin {"open", "ended", "dead"}
  /\ main = "done" => at["exit"] = "next" /\ queue["exit"] = {}
  /\ main \in {"block", "join", "close"} => missed = {}

(* What a pass asked for and read lies between what was stored in full and *)
(* what is on disk, however much is written meanwhile.  A file it has in   *)
(* hand is one recorded with less than that, so whatever becomes of the    *)
(* upload, the file is not taken to be stored.                             *)
InHand ==
  /\ \A p \in Passes : queue[p] \subseteq files
  /\ \A p \in Passes :
       at[p] \in {"send", "put"} =>
         /\ file[p] \in files
         /\ uploaded[file[p]] < size[p] /\ full[file[p]] <= size[p]
         /\ size[p] <= disk[file[p]]
  /\ \A p \in Passes :
       at[p] = "put" => size[p] <= body[p] /\ body[p] <= disk[file[p]]
  /\ \A f \in Files : uploaded[f] <= full[f] /\ full[f] <= disk[f] /\ store[f] <= disk[f]
  /\ RecordHonest
  /\ \A f \in Files \ files : store[f] = -1 /\ full[f] = -1

(* During the exit's own pass every file is stored in full, was missed, or *)
(* is still to come.                                                       *)
ExitRest ==
  /\ held["exit"] = None
  /\ main \in {"sync", "done"} =>
       \A f \in files \ missed :
         /\ disk[f] = written[f]
         /\ at["exit"] = "put" /\ f = file["exit"] => body["exit"] = written[f]
         /\ \/ store[f] = written[f] \/ at["exit"] = "list" \/ f \in queue["exit"]
            \/ at["exit"] \in {"send", "put"} /\ f = file["exit"]

Block ==
  /\ TypeOK
  /\ Shards
  /\ Turns
  /\ InHand
  /\ ExitRest
  /\ SyncSurvives
-----------------------------------------------------------------------------
(* Files.                                                                  *)

LEMMA FilesShape ==
  /\ \A f \in Files : f[1] \in Streams /\ f[2] \in 0 .. MaxShard
  /\ \A f, g \in Files : f[1] = g[1] /\ f[2] = g[2] => f = g
  /\ None \notin Files
BY DEF Files, Streams, None

(* The shard a stream has open is one of its files, and no other is both   *)
(* its file and its open shard.                                            *)
LEMMA OpenShape ==
  ASSUME TypeOK, NEW s \in Streams
  PROVE  /\ Open(s) \in Files /\ Open(s)[1] = s /\ Open(s)[2] = shard[s]
         /\ ~Sealed(Open(s))
         /\ \A f \in Files : f[1] = s /\ f[2] = shard[s] => f = Open(s)
<1>1. shard[s] \in 0 .. MaxShard
  BY DEF TypeOK
<1>2. Open(s) \in Files /\ Open(s)[1] = s /\ Open(s)[2] = shard[s]
  BY <1>1 DEF Open, Files
<1> QED
  BY <1>1, <1>2, FilesShape, SizesAssumption DEF Sealed

(* The steps there are.                                                    *)
LEMMA StepKinds ==
  ASSUME Next
  PROVE  \/ \E s \in Streams : Write(s) \/ Roll(s) \/ OpenShard(s) \/ Flush(s)
         \/ \E p \in Passes : \/ List(p) \/ Send(p) \/ Arrive(p) \/ PutOk(p) \/ PutFail(p)
                              \/ \E f \in Files : Ask(p, f)
         \/ Tick \/ ReadOpen \/ PassDone
         \/ Exit \/ Joined \/ Close \/ Remove \/ Stabilise
BY DEF Next, Call, SyncThread, Leave, Pass, Passes
-----------------------------------------------------------------------------
LEMMA StepTypes == Block /\ Next => TypeOK'
<1> SUFFICES ASSUME Block, Next PROVE TypeOK'
  OBVIOUS
<1> USE SizesAssumption, FilesShape, OpenShape
    DEF Block, TypeOK, Shards, InHand, Passes,
        logdir, locals, sync, mlflow
<1>1. ASSUME NEW s \in Streams, Write(s) PROVE TypeOK'
  BY <1>1 DEF Write
<1>2. ASSUME NEW s \in Streams, Roll(s) PROVE TypeOK'
  <2> SUFFICES ASSUME disk[Open(s)] > Limit /\ shard[s] < MaxShard PROVE TypeOK'
    BY <1>2 DEF Roll
  <2>1. /\ disk' = [disk EXCEPT ![Open(s)] = written[Open(s)]]
        /\ shard' = [shard EXCEPT ![s] = @ + 1]
        /\ user' = [user EXCEPT ![s] = "rolled"]
        /\ user[s] = "wrote"
        /\ UNCHANGED <<events, written, files, broken, sync, main, mlflow, missed>>
    BY <1>2 DEF Roll
  <2> QED
    BY <2>1
<1>3. ASSUME NEW s \in Streams, OpenShard(s) PROVE TypeOK'
  BY <1>3 DEF OpenShard
<1>4. ASSUME NEW s \in Streams, Flush(s) PROVE TypeOK'
  BY <1>4 DEF Flush
<1>5. ASSUME NEW p \in Passes, List(p) PROVE TypeOK'
  BY <1>5 DEF List
<1>6. ASSUME NEW p \in Passes, Send(p) PROVE TypeOK'
  BY <1>6 DEF Send
<1>7. ASSUME NEW p \in Passes, PutOk(p) PROVE TypeOK'
  BY <1>7 DEF PutOk, Uploaded, CarriedOut, Recorded
<1>8. ASSUME NEW p \in Passes, PutFail(p) PROVE TypeOK'
  <2>1. store' \in [Files -> -1 .. MaxEvents] /\ full' \in [Files -> -1 .. MaxEvents]
    BY <1>8 DEF PutFail, CarriedOut
  <2>2. file[p] \in Files /\ uploaded' = uploaded
    BY <1>8 DEF PutFail, RecordedFailed
  <2>3. /\ at' \in [Passes -> {"wait", "open", "list", "next", "send", "put", "ended", "dead"}]
        /\ file' \in [Passes -> Files \union {None}]
        /\ size' \in [Passes -> 0 .. MaxEvents] /\ body' \in [Passes -> 0 .. MaxEvents]
    BY <1>8 DEF PutFail, Uploaded
  <2>4. missed' \subseteq Files
    BY <1>8, <2>2 DEF PutFail
  <2>5. UNCHANGED <<shard, events, written, disk, files, broken, user, stop, held, queue, main, stable>>
    BY <1>8 DEF PutFail, Uploaded
  <2>6. TypeOK
    OBVIOUS
  <2> QED
    BY ONLY <2>1, <2>2, <2>3, <2>4, <2>5, <2>6 DEF TypeOK
<1>9. ASSUME NEW p \in Passes, NEW f \in Files, Ask(p, f) PROVE TypeOK'
  BY <1>9 DEF Ask
<1>10. CASE Tick
  BY <1>10 DEF Tick
<1>11. CASE ReadOpen
  BY <1>11 DEF ReadOpen, Readable
<1>12. CASE PassDone
  BY <1>12 DEF PassDone
<1>13. CASE Exit
  BY <1>13 DEF Exit
<1>14. CASE Joined
  BY <1>14 DEF Joined, Stopped
<1>15. CASE Close
  BY <1>15 DEF Close, CloseFlushes
<1>16. CASE Remove
  BY <1>16 DEF Remove
<1>17. CASE Stabilise
  BY <1>17 DEF Stabilise
<1>18. ASSUME NEW p \in Passes, Arrive(p) PROVE TypeOK'
  BY <1>18 DEF Arrive
<1> HIDE DEF Block, TypeOK, Shards, InHand, Passes, logdir, locals, sync, mlflow
<1> QED
  BY <1>1, <1>2, <1>3, <1>4, <1>5, <1>6, <1>7, <1>8, <1>9, <1>10, <1>11, <1>12, <1>13,
     <1>14, <1>15, <1>16, <1>17, <1>18, StepKinds

LEMMA StepShards == Block /\ Next => Shards'
<1> SUFFICES ASSUME Block, Next PROVE Shards'
  OBVIOUS
<1> USE FilesShape, OpenShape
    DEF Block, TypeOK, Shards, Turns, Sealed, Open, Locked,
        logdir, locals, sync, mlflow
<1>1. ASSUME NEW s \in Streams, Write(s) PROVE Shards'
  BY <1>1 DEF Write
<1>2. ASSUME NEW s \in Streams, Roll(s) PROVE Shards'
  <2> SUFFICES ASSUME disk[Open(s)] > Limit /\ shard[s] < MaxShard PROVE Shards'
    BY <1>2 DEF Roll
  <2>1. /\ disk' = [disk EXCEPT ![Open(s)] = written[Open(s)]]
        /\ shard' = [shard EXCEPT ![s] = @ + 1]
        /\ user' = [user EXCEPT ![s] = "rolled"]
        /\ user[s] = "wrote"
        /\ UNCHANGED <<events, written, files, broken, sync, main, mlflow, missed>>
    BY <1>2 DEF Roll
  <2>2. shard'[s] = shard[s] + 1 /\ \A t \in Streams \ {s} : shard'[t] = shard[t]
    BY <2>1
  <2>3. disk'[Open(s)] = written[Open(s)] /\ \A f \in Files \ {Open(s)} : disk'[f] = disk[f]
    BY <2>1
  <2>4. \A f \in Files : (Sealed(f))' <=> Sealed(f) \/ f = Open(s)
    <3> TAKE f \in Files
    <3>1. f[1] \in Streams /\ f[2] \in Int /\ shard[f[1]] \in Int
      OBVIOUS
    <3>2. f = Open(s) <=> f[1] = s /\ f[2] = shard[s]
      OBVIOUS
    <3>3. (Sealed(f))' <=> f[2] < shard'[f[1]]
      OBVIOUS
    <3>4. Sealed(f) <=> f[2] < shard[f[1]]
      OBVIOUS
    <3>5. s \in Streams /\ shard[s] \in Int /\ shard'[s] = shard[s] + 1
      BY <2>2
    <3>6. CASE f[1] = s
      BY ONLY <3>6, <3>1, <3>2, <3>3, <3>4, <3>5
    <3>7. CASE f[1] # s
      BY <3>7, <2>2, <3>1, <3>2, <3>3, <3>4
    <3> QED
      BY ONLY <3>6, <3>7
  <2>5. Open(s)' \notin files
    BY <2>2 DEF Open
  <2> QED
    BY <2>1, <2>2, <2>3, <2>4, <2>5
<1>3. ASSUME NEW s \in Streams, OpenShard(s) PROVE Shards'
  BY <1>3 DEF OpenShard
<1>4. ASSUME NEW s \in Streams, Flush(s) PROVE Shards'
  BY <1>4 DEF Flush
<1>5. ASSUME NEW p \in Passes, List(p) PROVE Shards'
  BY <1>5 DEF List
<1>6. ASSUME NEW p \in Passes, Send(p) PROVE Shards'
  BY <1>6 DEF Send
<1>7. ASSUME NEW p \in Passes, PutOk(p) PROVE Shards'
  BY <1>7 DEF PutOk, Uploaded, CarriedOut, Recorded
<1>8. ASSUME NEW p \in Passes, PutFail(p) PROVE Shards'
  BY <1>8 DEF PutFail, Uploaded, CarriedOut, RecordedFailed
<1>9. ASSUME NEW p \in Passes, NEW f \in Files, Ask(p, f) PROVE Shards'
  BY <1>9 DEF Ask
<1>10. CASE Tick
  BY <1>10 DEF Tick
<1>11. CASE ReadOpen
  BY <1>11 DEF ReadOpen, Readable
<1>12. CASE PassDone
  BY <1>12 DEF PassDone
<1>13. CASE Exit
  BY <1>13 DEF Exit
<1>14. CASE Joined
  BY <1>14 DEF Joined, Stopped
<1>15. CASE Close
  BY <1>15 DEF Close, CloseFlushes
<1>16. CASE Remove
  BY <1>16 DEF Remove
<1>17. CASE Stabilise
  BY <1>17 DEF Stabilise
<1>18. ASSUME NEW p \in Passes, Arrive(p) PROVE Shards'
  BY <1>18 DEF Arrive
<1> HIDE DEF Block, TypeOK, Shards, Turns, Sealed, Open, Locked, logdir, locals, sync,
             mlflow
<1> QED
  BY <1>1, <1>2, <1>3, <1>4, <1>5, <1>6, <1>7, <1>8, <1>9, <1>10, <1>11, <1>12, <1>13,
     <1>14, <1>15, <1>16, <1>17, <1>18, StepKinds

LEMMA StepTurns == Block /\ Next => Turns'
<1> SUFFICES ASSUME Block, Next PROVE Turns'
  OBVIOUS
<1> USE FilesShape, OpenShape
    DEF Block, TypeOK, Turns, Locked, Passes, Shards, InHand,
        logdir, locals, sync, mlflow
<1>1. ASSUME NEW s \in Streams, Write(s) PROVE Turns'
  BY <1>1 DEF Write
<1>2. ASSUME NEW s \in Streams, Roll(s) PROVE Turns'
  BY <1>2 DEF Roll
<1>3. ASSUME NEW s \in Streams, OpenShard(s) PROVE Turns'
  BY <1>3 DEF OpenShard
<1>4. ASSUME NEW s \in Streams, Flush(s) PROVE Turns'
  BY <1>4 DEF Flush
<1>5. ASSUME NEW p \in Passes, List(p) PROVE Turns'
  BY <1>5 DEF List
<1>6. ASSUME NEW p \in Passes, Send(p) PROVE Turns'
  BY <1>6 DEF Send
<1>7. ASSUME NEW p \in Passes, PutOk(p) PROVE Turns'
  BY <1>7 DEF PutOk, Uploaded, CarriedOut, Recorded
<1>8. ASSUME NEW p \in Passes, PutFail(p) PROVE Turns'
  BY <1>8 DEF PutFail, Uploaded, CarriedOut, RecordedFailed
<1>9. ASSUME NEW p \in Passes, NEW f \in Files, Ask(p, f) PROVE Turns'
  BY <1>9 DEF Ask
<1>10. CASE Tick
  BY <1>10 DEF Tick
<1>11. CASE ReadOpen
  BY <1>11 DEF ReadOpen, Readable
<1>12. CASE PassDone
  BY <1>12 DEF PassDone
<1>13. CASE Exit
  BY <1>13 DEF Exit
<1>14. CASE Joined
  BY <1>14 DEF Joined, Stopped
<1>15. CASE Close
  BY <1>15 DEF Close, CloseFlushes
<1>16. CASE Remove
  BY <1>16 DEF Remove
<1>17. CASE Stabilise
  BY <1>17 DEF Stabilise
<1>18. ASSUME NEW p \in Passes, Arrive(p) PROVE Turns'
  BY <1>18 DEF Arrive
<1> HIDE DEF Block, TypeOK, Turns, Locked, Passes, Shards, InHand, logdir, locals,
             sync, mlflow
<1> QED
  BY <1>1, <1>2, <1>3, <1>4, <1>5, <1>6, <1>7, <1>8, <1>9, <1>10, <1>11, <1>12, <1>13,
     <1>14, <1>15, <1>16, <1>17, <1>18, StepKinds

(* However the files on disk grow.                                         *)
LEMMA DiskGrows ==
  ASSUME Block,
         UNCHANGED <<files, uploaded, locals, store, full>>,
         \A f \in Files : disk'[f] \in Int /\ disk[f] <= disk'[f],
         \A p \in Passes : at'[p] = at[p] \/ at'[p] = "list"
  PROVE  InHand'
<1> USE DEF Block, TypeOK, InHand, locals
<1>1. ASSUME NEW f \in Files
      PROVE  /\ uploaded[f] \in Int /\ full[f] \in Int /\ store[f] \in Int /\ disk[f] \in Int
             /\ uploaded[f] <= full[f] /\ full[f] <= disk[f] /\ store[f] <= disk[f]
  OBVIOUS
<1>2. \A f \in Files : uploaded[f] <= full[f] /\ full[f] <= disk'[f] /\ store[f] <= disk'[f]
  BY <1>1
<1>3. RecordHonest'
  <2> SUFFICES ASSUME NEW f \in Files, uploaded[f] = disk'[f]
               PROVE  store[f] = disk'[f]
    BY DEF RecordHonest
  <2>1. uploaded[f] = disk'[f] /\ f \in Files /\ RecordHonest
    OBVIOUS
  <2>2. disk[f] = disk'[f]
    <3>1. /\ uploaded[f] <= disk[f] /\ disk[f] <= disk'[f]
          /\ disk[f] \in Int /\ disk'[f] \in Int
      BY <1>1
    <3> QED
      BY ONLY <2>1, <3>1
  <2> QED
    BY ONLY <2>1, <2>2 DEF RecordHonest
<1>4. ASSUME NEW p \in Passes, at'[p] \in {"send", "put"}
      PROVE  /\ file[p] \in files
             /\ uploaded[file[p]] < size[p] /\ full[file[p]] <= size[p]
             /\ size[p] <= disk'[file[p]]
             /\ at'[p] = "put" => size[p] <= body[p] /\ body[p] <= disk'[file[p]]
  <2>1. at[p] = at'[p]
    BY <1>4
  <2>2. file[p] \in files /\ file[p] \in Files
    BY <1>4, <2>1
  <2>3. size[p] \in Int /\ body[p] \in Int
    OBVIOUS
  <2> QED
    BY <1>1, <1>4, <2>1, <2>2, <2>3
<1> QED
  BY <1>2, <1>3, <1>4

(* When an upload is over nothing else is in hand: the passes take turns.  *)
LEMMA UploadOver ==
  ASSUME Block, NEW p \in Passes, PutOk(p) \/ PutFail(p)
  PROVE  /\ \A q \in Passes : at'[q] \notin {"send", "put"}
         /\ UNCHANGED <<files, disk, queue>>
         /\ file[p] \in files /\ file[p] \in Files
         /\ uploaded[file[p]] < size[p] /\ size[p] <= body[p] /\ body[p] <= disk[file[p]]
         /\ size[p] \in Int /\ body[p] \in Int /\ disk[file[p]] \in Int
         /\ uploaded[file[p]] \in Int
<1>1. at[p] = "put" /\ at' = [at EXCEPT ![p] = "next"] /\ UNCHANGED <<files, disk, queue>>
  BY DEF PutOk, PutFail, Uploaded, logdir
<1>2. \A q \in Passes : at'[q] \notin {"send", "put"}
  BY <1>1 DEF Block, Turns, TypeOK, Passes
<1> QED
  BY <1>1, <1>2 DEF Block, InHand, TypeOK

LEMMA NothingInHand ==
  ASSUME \A q \in Passes : queue'[q] \subseteq files' /\ at'[q] \notin {"send", "put"},
         \A f \in Files : /\ uploaded'[f] <= full'[f] /\ full'[f] <= disk'[f]
                         /\ store'[f] <= disk'[f]
                         /\ (uploaded'[f] = disk'[f] => store'[f] = disk'[f]),
         \A f \in Files \ files' : store'[f] = -1 /\ full'[f] = -1
  PROVE  InHand'
BY DEF InHand, RecordHonest

LEMMA StepInHand == Block /\ Next => InHand'
<1> SUFFICES ASSUME Block, Next PROVE InHand'
  OBVIOUS
<1> USE FilesShape, OpenShape
    DEF Block, TypeOK, Turns, Shards, InHand, RecordHonest, Passes,
        logdir, locals, sync, mlflow
<1>1. ASSUME NEW s \in Streams, Write(s) PROVE InHand'
  BY <1>1 DEF Write
<1>2. ASSUME NEW s \in Streams, Roll(s) PROVE InHand'
  <2> SUFFICES ASSUME disk[Open(s)] > Limit /\ shard[s] < MaxShard PROVE InHand'
    BY <1>2 DEF Roll
  <2>1. /\ disk' = [disk EXCEPT ![Open(s)] = written[Open(s)]]
        /\ shard' = [shard EXCEPT ![s] = @ + 1]
        /\ user' = [user EXCEPT ![s] = "rolled"]
        /\ user[s] = "wrote"
        /\ UNCHANGED <<events, written, files, broken, sync, main, mlflow, missed>>
    BY <1>2 DEF Roll
  <2>2. \A f \in Files : disk'[f] \in Int /\ disk[f] <= disk'[f]
    BY <2>1
  <2> QED
    BY <2>1, <2>2, DiskGrows
<1>3. ASSUME NEW s \in Streams, OpenShard(s) PROVE InHand'
  BY <1>3 DEF OpenShard
<1>4. ASSUME NEW s \in Streams, Flush(s) PROVE InHand'
  <2>1. \A f \in Files : disk'[f] \in Int /\ disk[f] <= disk'[f]
    BY <1>4 DEF Flush
  <2> QED
    BY <1>4, <2>1, DiskGrows DEF Flush
<1>5. ASSUME NEW p \in Passes, List(p) PROVE InHand'
  BY <1>5 DEF List
<1>6. ASSUME NEW p \in Passes, Send(p) PROVE InHand'
  BY <1>6 DEF Send
<1>7. ASSUME NEW p \in Passes, PutOk(p) PROVE InHand'
  <2>1. PICK F \in Files : F = file[p]
    BY <1>7, UploadOver
  <2>2. /\ store' = [store EXCEPT ![F] = body[p]] /\ full' = [full EXCEPT ![F] = body[p]]
        /\ uploaded' = [uploaded EXCEPT ![F] = size[p]]
    BY <1>7, <2>1 DEF PutOk, CarriedOut, Recorded
  <2>3. /\ store'[F] = body[p] /\ full'[F] = body[p] /\ uploaded'[F] = size[p]
        /\ \A f \in Files \ {F} : store'[f] = store[f] /\ full'[f] = full[f]
                                  /\ uploaded'[f] = uploaded[f]
    BY <2>2
  <2>4. F \in files /\ size[p] <= body[p] /\ body[p] <= disk[F]
        /\ size[p] \in Int /\ body[p] \in Int /\ disk[F] \in Int
    BY <1>7, <2>1, UploadOver
  <2>5. \A q \in Passes : queue'[q] \subseteq files' /\ at'[q] \notin {"send", "put"}
    BY <1>7, UploadOver
  <2>6. files' = files /\ disk' = disk
    BY <1>7, UploadOver
  <2>7. \A f \in Files : /\ uploaded'[f] <= full'[f] /\ full'[f] <= disk'[f]
                        /\ store'[f] <= disk'[f]
                        /\ (uploaded'[f] = disk'[f] => store'[f] = disk'[f])
    <3> TAKE f \in Files
    <3>1. /\ uploaded[f] <= full[f] /\ full[f] <= disk[f] /\ store[f] <= disk[f]
          /\ (uploaded[f] = disk[f] => store[f] = disk[f])
      OBVIOUS
    <3> QED
      BY ONLY <2>3, <2>4, <2>6, <3>1
  <2>8. \A f \in Files \ files' : store'[f] = -1 /\ full'[f] = -1
    BY <2>3, <2>4, <2>6
  <2> HIDE DEF InHand, RecordHonest
  <2> QED
    BY <2>5, <2>7, <2>8, NothingInHand
<1>8. ASSUME NEW p \in Passes, PutFail(p) PROVE InHand'
  <2>1. PICK F \in Files : F = file[p]
    BY <1>8, UploadOver
  <2>2. uploaded' = uploaded
    BY <1>8, <2>1 DEF PutFail, RecordedFailed
  <2>3. CASE CarriedOut(p)
    <3>1. /\ store'[F] = body[p] /\ full'[F] = body[p]
          /\ \A f \in Files \ {F} : store'[f] = store[f] /\ full'[f] = full[f]
      BY <2>1, <2>3 DEF CarriedOut
    <3>2. F \in files /\ uploaded[F] < size[p] /\ size[p] <= body[p] /\ body[p] <= disk[F]
          /\ size[p] \in Int /\ body[p] \in Int /\ disk[F] \in Int /\ uploaded[F] \in Int
      BY <1>8, <2>1, UploadOver
    <3> QED
      BY <1>8, <2>2, <3>1, <3>2, UploadOver
  <2>4. CASE UNCHANGED <<store, full>>
    BY <1>8, <2>2, <2>4, UploadOver
  <2> QED
    BY <1>8, <2>3, <2>4 DEF PutFail
<1>9. ASSUME NEW p \in Passes, NEW f \in Files, Ask(p, f) PROVE InHand'
  <2>1. UNCHANGED <<files, disk, uploaded, store, full, body>>
        /\ queue' = [queue EXCEPT ![p] = @ \ {f}]
    BY <1>9 DEF Ask
  <2>2. \A q \in Passes : queue'[q] \subseteq files
    BY <2>1
  <2>3. CASE uploaded[f] = disk[f]
    <3>1. UNCHANGED <<at, file, size>>
      BY <1>9, <2>3 DEF Ask
    <3> QED
      BY <2>1, <2>2, <3>1
  <2>4. CASE uploaded[f] # disk[f]
    <3>1. /\ at' = [at EXCEPT ![p] = "send"] /\ file' = [file EXCEPT ![p] = f]
          /\ size' = [size EXCEPT ![p] = disk[f]]
      BY <1>9, <2>4 DEF Ask
    <3>2. f \in files /\ uploaded[f] < disk[f] /\ full[f] <= disk[f]
      <4>1. f \in queue[p] /\ queue[p] \subseteq files
        BY <1>9 DEF Ask
      <4>2. uploaded[f] <= full[f] /\ full[f] <= disk[f]
            /\ uploaded[f] \in Int /\ full[f] \in Int /\ disk[f] \in Int
        OBVIOUS
      <4> QED
        BY ONLY <2>4, <4>1, <4>2
    <3> QED
      BY <2>1, <2>2, <3>1, <3>2
  <2> QED
    BY <2>3, <2>4
<1>10. CASE Tick
  BY <1>10 DEF Tick
<1>11. CASE ReadOpen
  BY <1>11 DEF ReadOpen, Readable
<1>12. CASE PassDone
  BY <1>12 DEF PassDone
<1>13. CASE Exit
  BY <1>13 DEF Exit
<1>14. CASE Joined
  BY <1>14 DEF Joined, Stopped
<1>15. CASE Close
  <2>1. \A f \in Files : disk'[f] \in Int /\ disk[f] <= disk'[f]
    BY <1>15 DEF Close
  <2> QED
    BY <1>15, <2>1, DiskGrows DEF Close
<1>16. CASE Remove
  BY <1>16 DEF Remove
<1>17. CASE Stabilise
  BY <1>17 DEF Stabilise
<1>18. ASSUME NEW p \in Passes, Arrive(p) PROVE InHand'
  <2>1. PICK n \in 0 .. body[p] - 1 : store' = [store EXCEPT ![file[p]] = n]
    BY <1>18 DEF Arrive
  <2>2. /\ at[p] = "put" /\ file[p] \in files /\ file[p] \in Files
        /\ UNCHANGED <<disk, files, uploaded, queue, file, size, body, at, full>>
    BY <1>18 DEF Arrive
  <2>3. /\ uploaded[file[p]] < size[p] /\ size[p] <= disk[file[p]] /\ n <= disk[file[p]]
        /\ uploaded[file[p]] # disk[file[p]]
    <3>1. /\ uploaded[file[p]] < size[p] /\ size[p] <= disk[file[p]] /\ body[p] <= disk[file[p]]
          /\ uploaded[file[p]] \in Int /\ size[p] \in Int /\ body[p] \in Int /\ disk[file[p]] \in Int
      BY <2>2
    <3> QED
      BY ONLY <2>1, <3>1
  <2>4. \A f \in Files : store'[f] = IF f = file[p] THEN n ELSE store[f]
    BY <2>1
  <2>5. RecordHonest'
    BY ONLY <2>2, <2>3, <2>4, RecordHonest DEF RecordHonest
  <2>6. \A f \in Files : store'[f] <= disk[f]
    BY <2>3, <2>4
  <2> QED
    BY <2>2, <2>4, <2>5, <2>6
<1> HIDE DEF Block, TypeOK, Turns, Shards, InHand, RecordHonest, Passes, logdir,
             locals, sync, mlflow
<1> QED
  BY <1>1, <1>2, <1>3, <1>4, <1>5, <1>6, <1>7, <1>8, <1>9, <1>10, <1>11, <1>12, <1>13,
     <1>14, <1>15, <1>16, <1>17, <1>18, StepKinds

LEMMA StepExitRest == Block /\ Next => ExitRest'
<1> SUFFICES ASSUME Block, Next PROVE ExitRest'
  OBVIOUS
<1> USE FilesShape, OpenShape
    DEF Block, TypeOK, Turns, Shards, InHand, RecordHonest, ExitRest, Passes,
        logdir, locals, sync, mlflow
<1>1. ASSUME NEW s \in Streams, Write(s) PROVE ExitRest'
  BY <1>1 DEF Write
<1>2. ASSUME NEW s \in Streams, Roll(s) PROVE ExitRest'
  BY <1>2 DEF Roll
<1>3. ASSUME NEW s \in Streams, OpenShard(s) PROVE ExitRest'
  BY <1>3 DEF OpenShard
<1>4. ASSUME NEW s \in Streams, Flush(s) PROVE ExitRest'
  BY <1>4 DEF Flush
<1>5. ASSUME NEW p \in Passes, List(p) PROVE ExitRest'
  BY <1>5 DEF List
<1>6. ASSUME NEW p \in Passes, Send(p) PROVE ExitRest'
  BY <1>6 DEF Send
<1>7. ASSUME NEW p \in Passes, PutOk(p) PROVE ExitRest'
  BY <1>7 DEF PutOk, Uploaded, CarriedOut, Recorded
<1>8. ASSUME NEW p \in Passes, PutFail(p) PROVE ExitRest'
  BY <1>8 DEF PutFail, Uploaded, CarriedOut, RecordedFailed
<1>9. ASSUME NEW p \in Passes, NEW f \in Files, Ask(p, f) PROVE ExitRest'
  BY <1>9 DEF Ask
<1>10. CASE Tick
  BY <1>10 DEF Tick
<1>11. CASE ReadOpen
  BY <1>11 DEF ReadOpen, Readable
<1>12. CASE PassDone
  BY <1>12 DEF PassDone
<1>13. CASE Exit
  BY <1>13 DEF Exit
<1>14. CASE Joined
  BY <1>14 DEF Joined, Stopped
<1>15. CASE Close
  BY <1>15 DEF Close, CloseFlushes
<1>16. CASE Remove
  BY <1>16 DEF Remove
<1>17. CASE Stabilise
  BY <1>17 DEF Stabilise
<1>18. ASSUME NEW p \in Passes, Arrive(p) PROVE ExitRest'
  BY <1>18 DEF Arrive
<1> HIDE DEF Block, TypeOK, Turns, Shards, InHand, RecordHonest, ExitRest, Passes,
             logdir, locals, sync, mlflow
<1> QED
  BY <1>1, <1>2, <1>3, <1>4, <1>5, <1>6, <1>7, <1>8, <1>9, <1>10, <1>11, <1>12, <1>13,
     <1>14, <1>15, <1>16, <1>17, <1>18, StepKinds

LEMMA StepSurvives == Block /\ Next => SyncSurvives'
<1> SUFFICES ASSUME Block, Next PROVE SyncSurvives'
  OBVIOUS
<1> USE FilesShape, OpenShape
    DEF Block, TypeOK, Turns, Shards, SyncSurvives, Locked, Streams, Passes,
        logdir, locals, sync, mlflow
<1>1. ASSUME NEW s \in Streams, Write(s) PROVE SyncSurvives'
  BY <1>1 DEF Write
<1>2. ASSUME NEW s \in Streams, Roll(s) PROVE SyncSurvives'
  BY <1>2 DEF Roll
<1>3. ASSUME NEW s \in Streams, OpenShard(s) PROVE SyncSurvives'
  BY <1>3 DEF OpenShard
<1>4. ASSUME NEW s \in Streams, Flush(s) PROVE SyncSurvives'
  BY <1>4 DEF Flush
<1>5. ASSUME NEW p \in Passes, List(p) PROVE SyncSurvives'
  BY <1>5 DEF List
<1>6. ASSUME NEW p \in Passes, Send(p) PROVE SyncSurvives'
  BY <1>6 DEF Send
<1>7. ASSUME NEW p \in Passes, PutOk(p) PROVE SyncSurvives'
  BY <1>7 DEF PutOk, Uploaded, CarriedOut, Recorded
<1>8. ASSUME NEW p \in Passes, PutFail(p) PROVE SyncSurvives'
  BY <1>8 DEF PutFail, Uploaded, CarriedOut, RecordedFailed
<1>9. ASSUME NEW p \in Passes, NEW f \in Files, Ask(p, f) PROVE SyncSurvives'
  BY <1>9 DEF Ask
<1>10. CASE Tick
  BY <1>10 DEF Tick
<1>11. CASE ReadOpen
  BY <1>11 DEF ReadOpen, Readable
<1>12. CASE PassDone
  BY <1>12 DEF PassDone
<1>13. CASE Exit
  BY <1>13 DEF Exit
<1>14. CASE Joined
  BY <1>14 DEF Joined, Stopped
<1>15. CASE Close
  BY <1>15 DEF Close, CloseFlushes
<1>16. CASE Remove
  BY <1>16 DEF Remove
<1>17. CASE Stabilise
  BY <1>17 DEF Stabilise
<1>18. ASSUME NEW p \in Passes, Arrive(p) PROVE SyncSurvives'
  BY <1>18 DEF Arrive
<1> HIDE DEF Block, TypeOK, Turns, Shards, SyncSurvives, Locked, Streams, Passes,
             logdir, locals, sync, mlflow
<1> QED
  BY <1>1, <1>2, <1>3, <1>4, <1>5, <1>6, <1>7, <1>8, <1>9, <1>10, <1>11, <1>12, <1>13,
     <1>14, <1>15, <1>16, <1>17, <1>18, StepKinds


LEMMA InitBlock == Init => Block
<1> SUFFICES ASSUME Init PROVE Block
  OBVIOUS
<1>1. TypeOK
  <2>1. /\ 0 \in 0 .. MaxShard /\ 0 \in 0 .. MaxEvents /\ -1 \in -1 .. MaxEvents
        /\ None \in Files \union {None} /\ {} \in SUBSET Files
    BY SizesAssumption
  <2>2. files \subseteq Files
    BY <2>1 DEF Init, Files
  <2>3. stable \in BOOLEAN
    BY DEF Init
  <2> QED
    BY <2>1, <2>2, <2>3 DEF Init, TypeOK
<1>2. \A s \in Streams : Open(s) = <<s, 0>> /\ Open(s) \in files /\ user[s] = "out"
  BY DEF Init, Open
<1>3. \A f \in Files : ~Sealed(f) /\ (f \in files => f[2] = 0)
  BY FilesShape DEF Init, Sealed
<1>4. Shards
  BY <1>2, <1>3, FilesShape DEF Init, Shards
<1>5. Turns
  BY DEF Init, Turns, Locked, Passes
<1>6. InHand
  BY DEF Init, InHand, RecordHonest, Passes
<1> QED
  BY <1>1, <1>4, <1>5, <1>6 DEF Init, Block, ExitRest, SyncSurvives, Passes

LEMMA BlockInvariant == Spec => []Block
<1>1. Block /\ UNCHANGED vars => Block'
  BY DEF Block, TypeOK, Shards, Turns, InHand, RecordHonest, ExitRest,
         SyncSurvives, Open, Sealed, Locked,
         vars, logdir, locals, sync, mlflow
<1>2. Block /\ [Next]_vars => Block'
  BY <1>1, StepTypes, StepShards, StepTurns, StepInHand, StepExitRest, StepSurvives DEF Block
<1> QED
  BY InitBlock, <1>2, PTL DEF Spec

(* Every variable keeps its type.                                          *)
THEOREM TypeCorrect == Spec => []TypeOK
<1>1. Block => TypeOK
  BY DEF Block
<1> QED
  BY BlockInvariant, <1>1, PTL

(* Leaving the block by itself loses nothing: what is not reported missed  *)
(* is in the artifacts in full when the directory is removed.              *)
THEOREM NothingLostCorrect == Spec => []NothingLost
<1>1. Block => NothingLost
  BY DEF Block, Turns, ExitRest, NothingLost
<1> QED
  BY BlockInvariant, <1>1, PTL

(* A file whose size _uploaded has is stored as it is on disk.             *)
THEOREM RecordHonestCorrect == Spec => []RecordHonest
<1>1. Block => RecordHonest
  BY DEF Block, InHand, RecordHonest
<1> QED
  BY BlockInvariant, <1>1, PTL

(* Only a media shard that did not open ends the sync thread early.        *)
THEOREM SyncSurvivesCorrect == Spec => []SyncSurvives
<1>1. Block => SyncSurvives
  BY DEF Block
<1> QED
  BY BlockInvariant, <1>1, PTL
-----------------------------------------------------------------------------
(* The promise of EventMirror.                                             *)

(* What EventMirror sees of the files in the directory.                    *)
Content == [f \in Files |-> IF f \in files THEN written[f] ELSE -1]
Closed  == {f \in Files : Sealed(f)}

LEMMA Unseen ==
  ASSUME UNCHANGED <<Content, Closed, store, full, missed, Phase>>
  PROVE  UNCHANGED Mirror!vars
BY DEF Mirror!vars, Content, Closed

(* Nothing is seen of the steps of a pass but what it stores.              *)
LEMMA PassSteps ==
  ASSUME Block,
         \/ \E p \in Passes : List(p) \/ Send(p) \/ \E f \in Files : Ask(p, f)
         \/ \E s \in Streams : Flush(s)
         \/ Tick \/ ReadOpen \/ PassDone \/ Joined \/ Stabilise
  PROVE  UNCHANGED Mirror!vars
<1>1. UNCHANGED <<shard, written, files, store, full, missed>>
  BY DEF List, Send, Ask, Flush, Tick, ReadOpen, PassDone, Joined, Stabilise, logdir, mlflow
<1>2. UNCHANGED Phase
  BY DEF List, Send, Ask, Flush, Tick, ReadOpen, PassDone, Joined, Stabilise, Phase
<1> QED
  BY <1>1, <1>2, Unseen DEF Content, Closed, Sealed

LEMMA WriteStep ==
  ASSUME Block, NEW s \in Streams, Write(s)
  PROVE  Mirror!Write(Open(s))
<1> USE OpenShape DEF Block
<1>1. Open(s) \in files /\ written' = [written EXCEPT ![Open(s)] = @ + 1]
  BY DEF Write, Locked, Shards
<1>2. Content' = [Content EXCEPT ![Open(s)] = @ + 1]
  BY <1>1 DEF Write, Content, TypeOK
<1>3. UNCHANGED <<Closed, store, full, missed, Phase>>
  BY DEF Write, Closed, Sealed, Phase, mlflow
<1>4. main = "block" /\ Phase = "open" /\ Open(s) \notin Closed
  BY DEF Write, Phase, Closed
<1> QED
  BY <1>2, <1>3, <1>4 DEF Mirror!Write, Content, Closed

LEMMA RollStep ==
  ASSUME Block, NEW s \in Streams, Roll(s)
  PROVE  Mirror!Seal(Open(s)) \/ UNCHANGED Mirror!vars
<1>1. UNCHANGED <<Content, store, full, missed, Phase>> /\ Phase = "open"
  BY DEF Roll, Content, Phase, mlflow
<1>2. CASE shard' = [shard EXCEPT ![s] = @ + 1]
  <2>1. shard' \in [Streams -> Int] /\ shard \in [Streams -> Int]
    BY <1>2 DEF Block, TypeOK
  <2>2. ASSUME NEW f \in Files
        PROVE  f \in Closed' <=> f \in Closed \/ f = Open(s)
    <3>1. f[1] \in Streams /\ f[2] \in Int
      BY FilesShape
    <3>2. f = Open(s) <=> f[1] = s /\ f[2] = shard[s]
      BY OpenShape DEF Block
    <3>3. f \in Closed <=> f[2] < shard[f[1]]
      BY DEF Closed, Sealed
    <3>4. f \in Closed' <=> f[2] < shard'[f[1]]
      BY DEF Closed, Sealed
    <3>5. CASE f[1] = s
      BY <1>2, <2>1, <3>1, <3>2, <3>3, <3>4, <3>5
    <3>6. CASE f[1] # s
      BY <1>2, <2>1, <3>1, <3>2, <3>3, <3>4, <3>6
    <3> QED
      BY <3>5, <3>6
  <2>3. Open(s) \in Files
    BY OpenShape DEF Block
  <2>4. Closed' = Closed \union {Open(s)}
    BY <2>2, <2>3 DEF Closed
  <2> QED
    BY <1>1, <2>4 DEF Mirror!Seal, Content, Closed
<1>3. CASE UNCHANGED shard
  <2>1. UNCHANGED Closed
    BY <1>3 DEF Closed, Sealed
  <2> QED
    BY <1>1, <2>1, Unseen
<1> QED
  BY <1>2, <1>3 DEF Roll

LEMMA OpenShardStep ==
  ASSUME Block, NEW s \in Streams, OpenShard(s)
  PROVE  Mirror!Write(Open(s)) \/ UNCHANGED Mirror!vars
<1> USE OpenShape DEF Block
<1>1. UNCHANGED <<shard, written, store, full, missed, main>> /\ main = "block"
  BY DEF OpenShard, mlflow
<1>2. UNCHANGED <<Closed, Phase>> /\ Phase = "open" /\ Open(s) \notin Closed
  BY <1>1 DEF Closed, Sealed, Phase
<1>3. CASE files' = files \union {Open(s)}
  <2>1. Open(s) \in Files /\ Open(s) \notin files /\ written[Open(s)] = 0
    BY DEF OpenShard, Shards
  <2>2. Content[Open(s)] + 1 = 0 /\ Content'[Open(s)] = 0
    BY <1>1, <1>3, <2>1 DEF Content
  <2>3. \A f \in Files : f # Open(s) => Content'[f] = Content[f]
    BY <1>1, <1>3 DEF Content
  <2>4. Content' = [Content EXCEPT ![Open(s)] = @ + 1]
    BY <2>2, <2>3 DEF Content
  <2> QED
    BY <1>1, <1>2, <2>4 DEF Mirror!Write, Content, Closed
<1>4. CASE UNCHANGED files
  BY <1>1, <1>2, <1>4, Unseen DEF Content
<1> QED
  BY <1>3, <1>4 DEF OpenShard

LEMMA InHandShape ==
  ASSUME Block, NEW p \in Passes, at[p] = "put"
  PROVE  /\ file[p] \in Files /\ Content[file[p]] = written[file[p]] /\ Phase # "left"
         /\ full[file[p]] <= body[p] /\ body[p] <= written[file[p]]
         /\ full[file[p]] \in Int /\ body[p] \in Int /\ written[file[p]] \in Int
<1>1. file[p] \in files /\ file[p] \in Files
  BY DEF Block, InHand, TypeOK
<1>2. full[file[p]] \in Int /\ body[p] \in Int /\ size[p] \in Int
      /\ written[file[p]] \in Int /\ disk[file[p]] \in Int
  BY <1>1 DEF Block, TypeOK
<1>3. full[file[p]] <= body[p] /\ body[p] <= written[file[p]]
  BY <1>1, <1>2 DEF Block, InHand, Shards
<1>4. Phase # "left"
  BY DEF Block, Turns, Passes, Phase
<1> QED
  BY <1>1, <1>2, <1>3, <1>4 DEF Content

LEMMA ArriveStep ==
  ASSUME Block, NEW p \in Passes, Arrive(p)
  PROVE  Mirror!Arrive(file[p])
<1>1. at[p] = "put"
  BY DEF Arrive
<1>2. PICK n \in 0 .. body[p] - 1 : store' = [store EXCEPT ![file[p]] = n]
  BY DEF Arrive
<1>3. n \in 0 .. Content[file[p]]
  BY <1>1, <1>2, InHandShape
<1>4. UNCHANGED <<Content, Closed, full, missed, Phase>>
  BY DEF Arrive, Content, Closed, Sealed, Phase, logdir
<1> QED
  BY <1>1, <1>2, <1>3, <1>4, InHandShape DEF Mirror!Arrive, Content, Closed

LEMMA PutStep ==
  ASSUME Block, NEW p \in Passes, PutOk(p) \/ PutFail(p)
  PROVE  Mirror!Put(file[p]) \/ Mirror!Miss({file[p]}) \/ UNCHANGED Mirror!vars
<1>1. at[p] = "put"
  BY DEF PutOk, PutFail
<1>2. UNCHANGED <<Content, Closed, Phase>>
  BY DEF PutOk, PutFail, Content, Closed, Sealed, Phase, logdir
<1>3. /\ missed' \in {missed, missed \union {file[p]}}
      /\ missed' # missed => Phase = "leaving"
  BY <1>1 DEF PutOk, PutFail, Block, Turns, Passes, Phase
<1>4. CASE CarriedOut(p)
  <2>1. body[p] \in full[file[p]] .. Content[file[p]]
    BY <1>1, InHandShape
  <2>2. store' = [store EXCEPT ![file[p]] = body[p]] /\ full' = [full EXCEPT ![file[p]] = body[p]]
    BY <1>4 DEF CarriedOut
  <2>3. missed' \in {missed} \union IF Phase = "leaving" THEN {missed \union {file[p]}} ELSE {}
    BY <1>3
  <2> QED
    BY <1>1, <1>2, <2>1, <2>2, <2>3, InHandShape DEF Mirror!Put, Content, Closed
<1>5. CASE UNCHANGED <<store, full>>
  <2>1. CASE UNCHANGED missed
    BY <1>2, <1>5, <2>1, Unseen
  <2>2. CASE ~UNCHANGED missed
    BY <1>2, <1>3, <1>5, <2>2 DEF Mirror!Miss, Content, Closed
  <2> QED
    BY <2>1, <2>2
<1> QED
  BY <1>4, <1>5 DEF PutOk, PutFail

LEMMA LeavingSteps ==
  ASSUME Block
  PROVE  /\ Exit => Mirror!Leave
         /\ Close => \E S \in SUBSET Files : Mirror!Miss(S)
         /\ Remove => Mirror!Finish
<1> USE DEF Block
<1>1. ASSUME Exit PROVE Mirror!Leave
  <2>1. UNCHANGED <<Content, Closed, store, full, missed>>
    BY <1>1 DEF Exit, Content, Closed, Sealed, logdir, mlflow
  <2> QED
    BY <1>1, <2>1 DEF Exit, Phase, Mirror!Leave, Content, Closed
<1>2. ASSUME Close PROVE \E S \in SUBSET Files : Mirror!Miss(S)
  <2>1. UNCHANGED <<Content, Closed, store, full, Phase>> /\ Phase = "leaving"
    BY <1>2 DEF Close, Content, Closed, Sealed, Phase, mlflow
  <2>2. missed = {} /\ missed' \in SUBSET Files
    BY <1>2 DEF Close, Turns, TypeOK
  <2>3. missed' = missed \union missed'
    BY <2>2
  <2> QED
    BY <2>1, <2>2, <2>3 DEF Mirror!Miss, Content, Closed
<1>3. ASSUME Remove PROVE Mirror!Finish
  <2>1. UNCHANGED <<Content, Closed, store, full, missed>>
    BY <1>3 DEF Remove, Content, Closed, Sealed, logdir, mlflow
  <2>2. \A f \in Files \ missed : store[f] = Content[f]
    BY <1>3 DEF Remove, ExitRest, InHand, Content
  <2> QED
    BY <1>3, <2>1, <2>2 DEF Remove, Phase, Mirror!Finish, Content, Closed
<1> QED
  BY <1>1, <1>2, <1>3

(* Every step of the block is one that EventMirror allows, or changes      *)
(* nothing of what the artifacts and the directory hold: uploads that are  *)
(* carried out store ever more of a file, one under way or failed any part *)
(* of it, and all of a file not missed is there when the block was left.   *)
THEOREM MirrorsCorrect == Spec => Mirrors
<1>1. Init => Mirror!Init
  <2> SUFFICES ASSUME Init PROVE Mirror!Init
    OBVIOUS
  <2>1. Content \in [Files -> {-1, 0}] /\ Closed = {} /\ Phase = "open"
    BY FilesShape DEF Init, Content, Closed, Sealed, Phase
  <2> QED
    BY <2>1 DEF Init, Mirror!Init, Content, Closed
<1>2. Block /\ [Next]_vars => [Mirror!Next]_(Mirror!vars)
  <2> SUFFICES ASSUME Block, [Next]_vars PROVE Mirror!Next \/ UNCHANGED Mirror!vars
    OBVIOUS
  <2>1. ASSUME NEW s \in Streams, Write(s) \/ Roll(s) \/ OpenShard(s)
        PROVE  Mirror!Next \/ UNCHANGED Mirror!vars
    <3>1. Open(s) \in Files
      BY OpenShape DEF Block
    <3>2. Mirror!Write(Open(s)) \/ Mirror!Seal(Open(s)) \/ UNCHANGED Mirror!vars
      BY <2>1, WriteStep, RollStep, OpenShardStep
    <3>3. CASE Mirror!Write(Open(s))
      <4>1. \E f \in Files : Mirror!Write(f)
        BY <3>1, <3>3 DEF Mirror!Write
      <4> QED
        BY <4>1 DEF Mirror!Next
    <3>4. CASE Mirror!Seal(Open(s))
      BY <3>1, <3>4 DEF Mirror!Next
    <3> QED
      BY <3>2, <3>3, <3>4
  <2>2. ASSUME NEW p \in Passes, Arrive(p) \/ PutOk(p) \/ PutFail(p)
        PROVE  Mirror!Next \/ UNCHANGED Mirror!vars
    <3>1. file[p] \in Files
      BY <2>2, InHandShape DEF Arrive, PutOk, PutFail
    <3>2. Mirror!Arrive(file[p]) \/ Mirror!Put(file[p]) \/ Mirror!Miss({file[p]})
          \/ UNCHANGED Mirror!vars
      BY <2>2, ArriveStep, PutStep
    <3> QED
      BY <3>1, <3>2 DEF Mirror!Next
  <2>3. CASE Exit \/ Close \/ Remove
    BY <2>3, LeavingSteps DEF Mirror!Next
  <2>4. CASE UNCHANGED vars
    <3>1. UNCHANGED <<Content, Closed, store, full, missed, Phase>>
      BY <2>4 DEF vars, logdir, mlflow, Content, Closed, Sealed, Phase
    <3> QED
      BY <3>1, Unseen
  <2> QED
    BY <2>1, <2>2, <2>3, <2>4, StepKinds, PassSteps
<1> QED
  BY BlockInvariant, <1>1, <1>2, PTL DEF Spec, Mirrors, Mirror!Spec
=============================================================================
