----------------------------- MODULE EventMirror -----------------------------
(***************************************************************************)
(* What `with runsnap.tensorboard() as writer:` promises of the artifacts  *)
(* of the run (_tensorboard.py), whatever its two threads do in between:   *)
(* of each file they hold a beginning of what was written to it, which is  *)
(* short while an upload comes in or after it failed, but with every       *)
(* upload that is carried out no less than with the one before; and when   *)
(* the block has been left all of it, but for files that could not be      *)
(* flushed or uploaded on the way out.                                     *)
(***************************************************************************)
EXTENDS Integers

CONSTANT Files

VARIABLES
  written,   \* events written to each file, or -1 when there is no such file
  sealed,    \* files that are written no more
  store,     \* events of each file in the artifacts, or -1
  full,      \* those the last upload that was carried out left there, or -1
  missed,    \* files refused while the block was being left
  phase      \* "open", "leaving" or "left"

vars == <<written, sealed, store, full, missed, phase>>

Init ==
  /\ written \in [Files -> {-1, 0}] /\ store = [f \in Files |-> -1]
  /\ full = store
  /\ sealed = {} /\ missed = {} /\ phase = "open"

(* The file is created, or gains an event.                                 *)
Write(f) ==
  /\ phase = "open" /\ f \notin sealed
  /\ written' = [written EXCEPT ![f] = @ + 1]
  /\ UNCHANGED <<sealed, store, full, missed, phase>>

Seal(f) ==
  /\ phase = "open" /\ sealed' = sealed \union {f}
  /\ UNCHANGED <<written, store, full, missed, phase>>

(* Some of an upload comes in.                                             *)
Arrive(f) ==
  /\ phase # "left" /\ \E n \in 0 .. written[f] : store' = [store EXCEPT ![f] = n]
  /\ UNCHANGED <<written, sealed, full, missed, phase>>

(* An upload is carried out, even if the block is told that it failed.     *)
Put(f) ==
  /\ phase # "left"
  /\ \E n \in full[f] .. written[f] :
       store' = [store EXCEPT ![f] = n] /\ full' = [full EXCEPT ![f] = n]
  /\ missed' \in {missed} \union IF phase = "leaving" THEN {missed \union {f}} ELSE {}
  /\ UNCHANGED <<written, sealed, phase>>

Leave ==
  /\ phase = "open" /\ phase' = "leaving"
  /\ UNCHANGED <<written, sealed, store, full, missed>>

Miss(S) ==
  /\ phase = "leaving" /\ missed' = missed \union S
  /\ UNCHANGED <<written, sealed, store, full, phase>>

Finish ==
  /\ phase = "leaving" /\ phase' = "left"
  /\ \A f \in Files \ missed : store[f] = written[f]
  /\ UNCHANGED <<written, sealed, store, full, missed>>

Next ==
  \/ \E f \in Files : Write(f) \/ Seal(f) \/ Arrive(f) \/ Put(f)
  \/ Leave \/ Finish \/ \E S \in SUBSET Files : Miss(S)

Spec == Init /\ [][Next]_vars
=============================================================================
