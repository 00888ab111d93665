------------------------------ MODULE ShownRuns ------------------------------
(***************************************************************************)
(* What `runsnap tb` promises of the runs it shows, whatever its passes    *)
(* do in between: the documentation of _LiveWatch in _tb_fetch.py.  A run  *)
(* comes into view live, while it is being written on this host, or as     *)
(* files; a live one turns into files when its writer has left, and never  *)
(* back; it leaves only when it is found deleted, which takes everything   *)
(* kept of it, and stays away for as long as it is deleted.                *)
(***************************************************************************)
CONSTANT Runs

VARIABLES
  view,      \* view[r]: "none", "live" or "files"
  kept,      \* runs of which event files are kept
  away,      \* runs found deleted and not restored since
  writing,   \* runs whose directory exists on this host
  deleted    \* runs deleted in MLflow

shown == <<view, kept, away>>
world == <<writing, deleted>>
vars  == <<shown, world>>

Init ==
  /\ view = [r \in Runs |-> "none"] /\ kept = {} /\ away = {}
  /\ writing \subseteq Runs /\ deleted \subseteq Runs

(* The writers and the users of MLflow.                                    *)
Outside ==
  /\ writing' \subseteq Runs /\ deleted' \subseteq Runs
  /\ away' = away \intersect deleted'
  /\ UNCHANGED <<view, kept>>

Appears(r) == view[r] = "none" /\ (view'[r] = "live" => r \in writing)
TurnsIntoFiles(r) == view[r] = "live" /\ view'[r] = "files" /\ r \notin writing

(* Some runs come into view or turn into files, and of some files arrive.  *)
Show ==
  /\ view' \in [Runs -> {"none", "live", "files"}]
  /\ \A r \in Runs :
       view'[r] # view[r] => r \notin away /\ (Appears(r) \/ TurnsIntoFiles(r))
  /\ kept \subseteq kept' /\ kept' \intersect away = {} /\ kept' \subseteq Runs
  /\ UNCHANGED <<away, world>>

Remove(S) ==
  /\ S \subseteq deleted
  /\ view' = [r \in Runs |-> IF r \in S THEN "none" ELSE view[r]]
  /\ kept' = kept \ S /\ away' = away \union S
  /\ UNCHANGED world

Next == Outside \/ Show \/ \E S \in SUBSET Runs : Remove(S)

Spec == Init /\ [][Next]_vars
=============================================================================
