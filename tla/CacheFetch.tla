----------------------------- MODULE CacheFetch ------------------------------
(***************************************************************************)
(* How the event files of one run reach the disk a dashboard reads         *)
(* (src/runsnap/_tb_fetch.py: fetch_run, _extend_or_replace and, for an    *)
(* artifact root, _copy_scalars), file by file, while the run uploads.     *)
(*                                                                         *)
(* A file is a sequence of its events, and an event is the version of the  *)
(* file it belongs to, so that a file that is written anew under its old   *)
(* name has nothing in common with what it was.                            *)
(***************************************************************************)
EXTENDS Naturals, Sequences, SequencesExt

CONSTANTS
  Light,          \* scalar event files
  Media,          \* the other event files
  Fetchers,       \* dashboards that share the cache
  Rewritten,      \* files that may be written anew
  MaxLen,         \* bound: events of a version of a file
  MaxVersion,     \* bound: versions of a file
  None

Files == Light \cup Media
Events(n, version) == [i \in 1..n |-> version]
Contents == {Events(n, v) : n \in 0..MaxLen, v \in 1..MaxVersion}

ASSUME CacheAssumption ==
  /\ Light \cap Media = {} /\ Rewritten \subseteq Files
  /\ MaxLen \in Nat \ {0} /\ MaxVersion \in Nat \ {0}
  /\ None \notin Contents

VARIABLES
  stored,         \* file -> the lengths its versions reached, the current one last
  remote,         \* file -> how much of it the server has now; less than
                  \* stored while an upload replaces it
  cache,          \* file -> what is here of it, or None
  linked,         \* scalar file -> the link to it: "none", "right" or "wrong"
  copying,        \* the dashboard copies from an artifact root (_copy_scalars)
  fetch,          \* fetcher -> where it is, and its locals
  stable          \* from now on nothing fails and no run is deleted

vars == <<stored, remote, cache, linked, copying, fetch, stable>>

Version(f) == Len(stored[f])
Uploaded(f) == Version(f) > 0
Size(f) == stored[f][Version(f)]
Remote(f) == Events(remote[f], Version(f))

(* `todo` holds what is still to be looked at of the files listed.         *)
Idle == [at |-> "idle", media |-> FALSE, listed |-> [f \in Files |-> 0], todo |-> {},
         file |-> None, got |-> <<>>]

TypeOK ==
  /\ stored \in [Files -> Seq(1..MaxLen)] /\ remote \in [Files -> 0..MaxLen]
  /\ \A f \in Files : /\ Version(f) <= MaxVersion
                      /\ IF Uploaded(f) THEN remote[f] <= Size(f) ELSE remote[f] = 0
  /\ cache \in [Files -> Contents \cup {None}]
  /\ linked \in [Light -> {"none", "right", "wrong"}]
  /\ copying \in BOOLEAN /\ stable \in BOOLEAN
  /\ fetch \in [Fetchers ->
       [at : {"idle", "file", "download", "compare", "append", "replace", "link"},
        media : BOOLEAN, listed : [Files -> 0..MaxLen], todo : SUBSET Files,
        file : Files \cup {None}, got : Contents]]

(* An earlier invocation, with its cache elsewhere, may have left links.   *)
Init ==
  /\ stored = [f \in Files |-> <<>>] /\ remote = [f \in Files |-> 0]
  /\ cache = [f \in Files |-> None]
  /\ linked \in [Light -> {"none", "wrong"}]
  /\ copying \in BOOLEAN
  /\ fetch = [d \in Fetchers |-> Idle]
  /\ stable = FALSE
-----------------------------------------------------------------------------
(* The training process, and the artifact store.                           *)

Local == <<cache, linked, copying, fetch>>

Grow(f) ==
  /\ IF Uploaded(f) THEN Size(f) < MaxLen /\ stored' = [stored EXCEPT ![f][Version(f)] = @ + 1]
     ELSE stored' = [stored EXCEPT ![f] = <<1>>]
  /\ remote' = [remote EXCEPT ![f] = stored'[f][Len(stored'[f])]]
  /\ UNCHANGED <<Local, stable>>

(* An upload of the same or a longer file is under way.  In an artifact    *)
(* root a longer file is moved over the old one.                           *)
Truncated(f, n) ==
  /\ ~copying /\ Uploaded(f) /\ n < remote[f]
  /\ remote' = [remote EXCEPT ![f] = n]
  /\ UNCHANGED <<stored, Local, stable>>
Completed(f) ==
  /\ Uploaded(f) /\ remote[f] < Size(f)
  /\ remote' = [remote EXCEPT ![f] = Size(f)]
  /\ UNCHANGED <<stored, Local, stable>>

Rewrite(f) ==
  /\ f \in Rewritten /\ Uploaded(f) /\ Version(f) < MaxVersion
  /\ stored' = [stored EXCEPT ![f] = Append(@, 1)]
  /\ remote' = [remote EXCEPT ![f] = 1]
  /\ UNCHANGED <<Local, stable>>

Stabilise ==
  /\ ~stable /\ stable' = TRUE
  /\ UNCHANGED <<stored, remote, Local>>
-----------------------------------------------------------------------------
Outside == <<stored, remote, copying, stable>>
At(d, place) == fetch[d].at = place
File(d) == fetch[d].file

(* fetch_run lists the run's event files once, with their sizes, and takes *)
(* the scalar ones, or all with --media.                                   *)
List(d, media) ==
  /\ At(d, "idle")
  /\ media => ~copying
  /\ fetch' = [fetch EXCEPT ![d] =
       [Idle EXCEPT !.at = "file", !.media = media, !.listed = remote,
                    !.todo = {f \in IF media THEN Files ELSE Light : Uploaded(f)}]]
  /\ UNCHANGED <<Outside, cache, linked>>

(* Whether the file is longer than what is here of it: its size as listed, *)
(* or, when copying, as it is now.                                         *)
LongerMutant(n, held) == held = None
Longer(n, held) == held = None \/ n > Len(held)
Look(d, f) ==
  LET size == IF copying THEN remote[f] ELSE fetch[d].listed[f]
  IN /\ At(d, "file") /\ f \in fetch[d].todo
     /\ fetch' = [fetch EXCEPT ![d].file = f,
                               ![d].at = IF Longer(size, cache[f]) THEN "download" ELSE "link"]
     /\ UNCHANGED <<Outside, cache, linked>>

Download(d) ==
  /\ At(d, "download")
  /\ fetch' = [fetch EXCEPT ![d].got = Remote(File(d)), ![d].at = "compare"]
  /\ UNCHANGED <<Outside, cache, linked>>

(* _extend_or_replace: the tail is appended to a file the download begins  *)
(* with, anything else is replaced.                                        *)
ExtendsMutant(held, got) == held # None
Extends(held, got) == held # None /\ IsPrefix(held, got)
TailMutant(held, got) == got
TailAfter(held, got) == SubSeq(got, Len(held) + 1, Len(got))
Compare(d) ==
  LET held == cache[File(d)]
      got == fetch[d].got
  IN /\ At(d, "compare")
     /\ fetch' = [fetch EXCEPT
          ![d].at = IF Extends(held, got) THEN "append" ELSE "replace",
          ![d].got = IF Extends(held, got) THEN TailAfter(held, got) ELSE got]
     /\ UNCHANGED <<Outside, cache, linked>>

Appended(f, tail) == IF cache[f] = None THEN tail ELSE cache[f] \o tail
Write(d) ==
  /\ cache' = [cache EXCEPT ![File(d)] =
       IF At(d, "append") THEN Appended(File(d), fetch[d].got) ELSE fetch[d].got]
  /\ At(d, "append") \/ At(d, "replace")
  /\ fetch' = [fetch EXCEPT ![d].at = "link", ![d].got = <<>>]
  /\ UNCHANGED <<Outside, linked>>

(* The view without media is a directory of links to the scalar files.     *)
LinkedMutant(link) == IF link = "none" THEN "right" ELSE link
Linked(link) == "right"
Link(d) ==
  /\ At(d, "link")
  /\ linked' = IF File(d) \in Light /\ ~copying
               THEN [linked EXCEPT ![File(d)] = Linked(@)] ELSE linked
  /\ fetch' = [fetch EXCEPT ![d].at = "file", ![d].file = None, ![d].todo = @ \ {File(d)}]
  /\ UNCHANGED <<Outside, cache>>

Done(d) ==
  /\ At(d, "file") /\ fetch[d].todo = {}
  /\ fetch' = [fetch EXCEPT ![d] = Idle]
  /\ UNCHANGED <<Outside, cache, linked>>

(* A request or the disk fails, or the dashboard is killed: a write that   *)
(* was under way may have appended some of the tail.                       *)
Stop(d) ==
  /\ ~stable /\ ~At(d, "idle")
  /\ \/ UNCHANGED cache
     \/ /\ At(d, "append")
        /\ \E n \in 0..Len(fetch[d].got) :
             cache' = [cache EXCEPT ![File(d)] = Appended(File(d), SubSeq(fetch[d].got, 1, n))]
  /\ fetch' = [fetch EXCEPT ![d] = Idle]
  /\ UNCHANGED <<Outside, linked>>

(* _remove: MLflow no longer holds the run.                                *)
RemoveRun(d) ==
  /\ ~stable /\ At(d, "idle")
  /\ cache' = [f \in Files |-> None]
  /\ linked' = [f \in Light |-> "none"]
  /\ UNCHANGED <<Outside, fetch>>
-----------------------------------------------------------------------------
Fetch(d) ==
  \/ \E media \in BOOLEAN : List(d, media)
  \/ \E f \in Files : Look(d, f)
  \/ Download(d) \/ Compare(d) \/ Write(d) \/ Link(d) \/ Done(d)

Next ==
  \/ \E f \in Files : \/ Grow(f) \/ Completed(f) \/ Rewrite(f)
                      \/ \E n \in 0..MaxLen : Truncated(f, n)
  \/ Stabilise
  \/ \E d \in Fetchers : Fetch(d) \/ Stop(d) \/ RemoveRun(d)

Spec == Init /\ [][Next]_vars

(* A fetch that has begun goes on, and the watch thread of a dashboard     *)
(* begins another while the run runs and once it ended.                    *)
FairSpec == Spec /\ WF_vars(\E d \in Fetchers : Fetch(d))
-----------------------------------------------------------------------------
(* Whatever is interrupted and however the file changes between its        *)
(* listing and its download, what is here of a file is the beginning of    *)
(* what it is or once was: never a mix, and never events twice.            *)
Genuine ==
  \A f \in Files : cache[f] # None =>
    \E v \in 1..Version(f) : \E n \in 0..stored[f][v] : cache[f] = Events(n, v)

(* A run that was fetched can be viewed: each of its scalar files is here, *)
(* and so is its link, "whatever a previous invocation left in the cache". *)
Viewable(f) == cache[f] # None /\ (f \in Light /\ ~copying => linked[f] = "right")
Served ==
  [][\A d \in Fetchers :
       At(d, "file") /\ Done(d) =>
         \A f \in Files : (f \in Light \/ fetch[d].media) /\ fetch[d].listed[f] > 0 => Viewable(f)]_vars

(* "An interrupted append leaves a prefix of the remote file, which the    *)
(* next fetch completes": once a file is left alone on the server, all of  *)
(* it is here in the end, unless what was here of an older version is as   *)
(* long.                                                                   *)
Whole(f) == stable /\ Uploaded(f) /\ remote[f] = Size(f)
Complete(f) ==
  cache[f] # None /\ (cache[f] = Remote(f) \/ (Len(cache[f]) >= Size(f) /\ ~IsPrefix(Remote(f), cache[f])))
CaughtUp == \A f \in Light : <>[]Whole(f) => <>[]Complete(f)

(* "When a remote file has grown, the cached file SHALL keep its bytes",   *)
(* "A remote copy shorter than the cached one SHALL leave the cached file  *)
(* unchanged": a file that begins with what is here of it is not cut.      *)
KeepsBytes ==
  [][\A f \in Files :
       cache[f] # None /\ cache'[f] # None /\ IsPrefix(cache[f], Events(Size(f), Version(f)))
         => IsPrefix(cache[f], cache'[f])]_vars
=============================================================================
