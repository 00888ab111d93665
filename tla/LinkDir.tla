------------------------------- MODULE LinkDir -------------------------------
(***************************************************************************)
(* The names in the directory `runsnap tb` opens TensorBoard on            *)
(* (_link_names, _distinct_names and the loop of _LiveWatch.link in        *)
(* _tb_fetch.py).  Which runs are linked, and when, is TbWatch's: here any *)
(* runs that are not shown may be.                                         *)
(*                                                                         *)
(* A name is the sequence of its parts: "a-4f-2" is <<"a", "4f", "2">>,     *)
(* also when a user named a run so.                                        *)
(***************************************************************************)
EXTENDS Naturals, FiniteSets, SequencesExt

CONSTANTS
  Runs,        \* run ids
  Short,       \* run id -> its first eight characters
  Numeral,     \* number -> its decimal digits
  Parts,       \* what names are made of
  Given,       \* the names users give runs, as _run_name makes them safe
  MaxRest,     \* bound: directories that cannot be removed (none of links)
  None

Counts == 1..Cardinality(Runs) + MaxRest

(* An id is longer than eight characters.                                  *)
ASSUME LinkDirAssumption ==
  /\ IsFiniteSet(Runs) /\ Runs \subseteq Parts /\ MaxRest \in Nat
  /\ Short \in [Runs -> Parts] /\ \A r \in Runs : Short[r] # r
  /\ Numeral \in [Counts -> Parts] /\ IsInjective(Numeral)
  /\ Given \subseteq Seq(Parts) /\ None \notin Given

VARIABLES
  base,        \* run -> its name in the snapshot _runs has of it
  link,        \* run -> the name of its link, None when it is not shown
  rest         \* names of directories of copies that could not be removed

vars == <<base, link, rest>>

Shown == {r \in Runs : link[r] # None}
Links == {link[r] : r \in Shown}
Taken == Links \cup rest

(* _distinct_names: the n-th name for a run whose own name is shared.      *)
Distinct(r, n) ==
  IF n = 1 THEN Append(base[r], Short[r])
  ELSE IF n = 2 THEN Append(base[r], r)
  ELSE base[r] \o <<r, Numeral[n - 2]>>
FirstFree(r, used) ==
  LET free == {n \in 1..Cardinality(used) + 1 : Distinct(r, n) \notin used}
  IN Distinct(r, CHOOSE n \in free : \A m \in free : n <= m)

(* Whether r, linked with `runs`, is given its own name.                   *)
Alone(r, runs) == \A s \in runs \ {r} : base[s] # base[r]
OwnMutant(r, runs) == Alone(r, runs) /\ base[r] \notin Taken
Own(r, runs) ==
  /\ Alone(r, runs)
  /\ \A s \in Shown : base[s] # base[r]
  /\ base[r] \notin Taken

(* _link_names: the names of the runs in `order`.  Those that keep their   *)
(* own come first; then each of the others gets one, in turn.              *)
UsedMutant(names) == Taken
Used(names) == Taken \cup {names[r] : r \in DOMAIN names}
Keeping(runs) == {r \in runs : Own(r, runs)}
Named(names, r) ==
  IF r \in DOMAIN names THEN names
  ELSE [s \in DOMAIN names \cup {r} |-> IF s = r THEN FirstFree(r, Used(names)) ELSE names[s]]
Naming(order) ==
  LET names[n \in 0..Len(order)] ==
        IF n = 0 THEN [r \in Keeping(ToSet(order)) |-> base[r]]
        ELSE Named(names[n - 1], order[n])
  IN names
LinkNames(order) == Naming(order)[Len(order)]

(* The runs that may be linked next, in any order.                         *)
Orders == UNION {Injection(1..n, Runs \ Shown) : n \in 0..Cardinality(Runs)}

TypeOK ==
  /\ base \in [Runs -> Given] /\ DOMAIN link = Runs
  /\ \A r \in Shown :
       \/ link[r] = base[r]
       \/ \E n \in Counts : link[r] = Distinct(r, n)
  /\ IsFiniteSet(rest) /\ Cardinality(rest) <= MaxRest

Init ==
  /\ base \in [Runs -> Given]
  /\ link = [r \in Runs |-> None] /\ rest = {}

(* A run that is not shown is looked up again, maybe renamed since; the    *)
(* snapshot of a run shown stays as it was linked.                         *)
LookUpMutant(r, n) ==
  /\ n # base[r] /\ base' = [base EXCEPT ![r] = n]
  /\ UNCHANGED <<link, rest>>
LookUp(r, n) ==
  /\ r \notin Shown /\ n # base[r] /\ base' = [base EXCEPT ![r] = n]
  /\ UNCHANGED <<link, rest>>

(* The links are made in the order of the names, up to the first that the  *)
(* disk refuses, or that exists already.                                   *)
Begun(order, done) ==
  LET own == Keeping(ToSet(order))
  IN \A i, j \in DOMAIN order :
       /\ order[j] \in done
       /\ \/ order[i] \in own /\ order[j] \notin own
          \/ (order[i] \in own <=> order[j] \in own) /\ i < j
       => order[i] \in done
Fits(names, done) ==
  \A r \in done : names[r] \notin Taken /\ \A s \in done \ {r} : names[s] # names[r]
Link(order) ==
  LET names == LinkNames(order)
  IN \E done \in SUBSET ToSet(order) :
       /\ done # {} /\ Begun(order, done) /\ Fits(names, done)
       /\ link' = [r \in Runs |-> IF r \in done THEN names[r] ELSE link[r]]
       /\ UNCHANGED <<base, rest>>

(* A link goes; of a directory, what cannot be deleted stays.              *)
Unlink(r) ==
  /\ r \in Shown /\ link' = [link EXCEPT ![r] = None]
  /\ \/ UNCHANGED rest
     \/ Cardinality(rest) < MaxRest /\ rest' = rest \cup {link[r]}
  /\ UNCHANGED base

Next ==
  \/ \E r \in Runs : Unlink(r) \/ \E n \in Given : LookUp(r, n)
  \/ \E order \in Orders : Link(order)

Spec == Init /\ [][Next]_vars
-----------------------------------------------------------------------------
(* No link is refused because of its name: whichever runs are linked, all  *)
(* of them can be, each under a name of its own that no shown run and no   *)
(* leftover directory has, also when runs are named as others are          *)
(* distinguished and when run ids begin alike.                             *)
AllFit == \A order \in Orders : Fits(LinkNames(order), ToSet(order))

(* A run that appears under its plain name shares it with no run shown at  *)
(* that moment, so a plain name never stands for one of several.           *)
PlainIsUnique ==
  [][\A r \in Runs : link[r] = None /\ link'[r] = base[r] =>
       \A s \in Runs \ {r} : link'[s] # None => base[s] # base[r]]_vars
=============================================================================
