---------------------------- MODULE LinkDirProofs ----------------------------
(***************************************************************************)
(* The names of a dashboard's links, for any runs, names and leftovers.    *)
(*                                                                         *)
(* _link_names takes the first name that is free, so it must be known that *)
(* there is one (FirstFreeIs: more candidates than names in use) and what  *)
(* its loop has named after n rounds (NamingIs, Held).   Both rest on the  *)
(* least element of a set of numbers (Least), which follows from strict    *)
(* inclusion between finite sets being well-founded.                       *)
(***************************************************************************)
EXTENDS LinkDir, FiniteSetTheorems, WellFoundedInduction, TLAPS

(* Every set of numbers that is not empty has a least element.             *)
LEMMA Least ==
  ASSUME NEW A \in SUBSET Nat, A # {}
  PROVE  \E m \in A : \A n \in A : m <= n
<1>1. PICK T : T = {1 .. n : n \in A}
  OBVIOUS
<1>2. T \subseteq FiniteSubsetsOf(Nat) /\ T # {}
  <2>1. \A n \in A : IsFiniteSet(1 .. n) /\ 1 .. n \subseteq Nat
    BY FS_Interval
  <2> QED
    BY <1>1, <2>1 DEF FiniteSubsetsOf
<1>3. PICK x \in T : \A y \in T : <<y, x>> \notin StrictSubsetOrdering(Nat)
  BY <1>2, WFMin, FS_StrictSubsetOrderingWellFounded
<1>4. PICK m \in A : x = 1 .. m
  BY <1>1
<1>5. ASSUME NEW n \in A, n < m PROVE FALSE
  <2>1. 1 .. n \in T /\ 1 .. n \subseteq 1 .. m /\ 1 .. m \subseteq Nat
    BY <1>1, <1>5
  <2>2. m \in 1 .. m /\ m \notin 1 .. n
    BY <1>5
  <2>3. <<1 .. n, 1 .. m>> \in StrictSubsetOrdering(Nat)
    BY <2>1, <2>2 DEF StrictSubsetOrdering
  <2> QED
    BY <1>3, <1>4, <2>1, <2>3
<1> QED
  BY <1>5
-----------------------------------------------------------------------------
Bound == Cardinality(Runs) + MaxRest

LEMMA Constant ==
  /\ IsFiniteSet(Runs) /\ Cardinality(Runs) \in Nat /\ MaxRest \in Nat /\ Bound \in Nat
  /\ \A r \in Runs : r \in Parts /\ Short[r] \in Parts /\ Short[r] # r
  /\ \A m, n \in 1 .. Bound : Numeral[m] \in Parts /\ (Numeral[m] = Numeral[n] => m = n)
  /\ \A g \in Given : g \in Seq(Parts) /\ g # None
BY LinkDirAssumption, FS_CardinalityType DEF Bound, Counts, IsInjective

(* The names of a run whose own name is shared: all different, and none is *)
(* its own.                                                                *)
LEMMA Differ ==
  ASSUME NEW r \in Runs, base[r] \in Seq(Parts), NEW n \in 1 .. Bound
  PROVE  /\ Distinct(r, n) \in Seq(Parts) /\ Distinct(r, n) # base[r]
         /\ \A m \in 1 .. Bound : Distinct(r, m) = Distinct(r, n) => m = n
<1>1. PICK own \in Seq(Parts) : own = base[r]
  OBVIOUS
<1> DEFINE Longer(m) == IF m = 1 THEN <<Short[r]>> ELSE IF m = 2 THEN <<r>> ELSE <<r, Numeral[m - 2]>>
<1>2. ASSUME NEW m \in 1 .. Bound
      PROVE  /\ Distinct(r, m) \in Seq(Parts)
             /\ Len(Distinct(r, m)) = IF m \in {1, 2} THEN Len(own) + 1 ELSE Len(own) + 2
             /\ m = 1 => Distinct(r, m)[Len(own) + 1] = Short[r]
             /\ m = 2 => Distinct(r, m)[Len(own) + 1] = r
             /\ m > 2 => Distinct(r, m)[Len(own) + 2] = Numeral[m - 2]
  <2>1. CASE m = 1
    <3>1. PICK short \in Parts : short = Short[r]
      BY Constant
    <3>2. Distinct(r, m) = Append(own, short)
      BY <1>1, <2>1, <3>1 DEF Distinct
    <3> QED
      BY <2>1, <3>1, <3>2
  <2>2. CASE m = 2
    <3>1. r \in Parts /\ Distinct(r, m) = Append(own, r)
      BY <1>1, <2>2, Constant DEF Distinct
    <3> QED
      BY <2>2, <3>1
  <2>3. CASE m > 2
    <3>1. m - 2 \in 1 .. Bound
      BY <2>3, Constant
    <3>2. PICK digits \in Parts : digits = Numeral[m - 2]
      BY <3>1, Constant
    <3>3. Distinct(r, m) = own \o <<r, digits>> /\ r \in Parts
      BY <1>1, <2>3, <3>2, Constant DEF Distinct
    <3>4. <<r, digits>> \in Seq(Parts) /\ Len(<<r, digits>>) = 2 /\ <<r, digits>>[2] = digits
      BY <3>3
    <3>5. /\ own \o <<r, digits>> \in Seq(Parts) /\ Len(own \o <<r, digits>>) = Len(own) + 2
          /\ (own \o <<r, digits>>)[Len(own) + 2] = digits
      BY <3>4
    <3> QED
      BY <2>3, <3>2, <3>3, <3>5
  <2> QED
    BY <2>1, <2>2, <2>3, Constant
<1>3. Len(own) \in Nat /\ Distinct(r, n) # own
  BY <1>2
<1>4. ASSUME NEW m \in 1 .. Bound, Distinct(r, m) = Distinct(r, n) PROVE m = n
  <2>1. m \in {1, 2} <=> n \in {1, 2}
    BY <1>2, <1>3, <1>4
  <2>2. CASE m \in {1, 2}
    BY <1>2, <1>4, <2>1, <2>2, Constant
  <2>3. CASE m \notin {1, 2}
    <3>1. m > 2 /\ n > 2 /\ m - 2 \in 1 .. Bound /\ n - 2 \in 1 .. Bound
      BY <2>1, <2>3, Constant
    <3>2. Numeral[m - 2] = Numeral[n - 2]
      BY <1>2, <1>4, <3>1
    <3>3. m - 2 = n - 2
      BY <3>1, <3>2, Constant
    <3> QED
      BY <3>3, Constant
  <2> QED
    BY <2>2, <2>3
<1> QED
  BY <1>1, <1>2, <1>3, <1>4

(* One of them is free, since there are more of them than names in use.    *)
LEMMA FirstFreeIs ==
  ASSUME NEW r \in Runs, base[r] \in Seq(Parts), NEW used, IsFiniteSet(used),
         Cardinality(used) < Bound
  PROVE  FirstFree(r, used) \notin used /\ \E n \in 1 .. Bound : FirstFree(r, used) = Distinct(r, n)
<1>1. PICK size \in Nat : size = Cardinality(used) /\ size + 1 \in 1 .. Bound
  BY FS_CardinalityType, Constant
<1>2. PICK free : free = {n \in 1 .. size + 1 : Distinct(r, n) \notin used}
  OBVIOUS
<1>3. free # {}
  <2> SUFFICES ASSUME free = {} PROVE FALSE
    OBVIOUS
  <2>1. PICK f : f = [n \in 1 .. size + 1 |-> Distinct(r, n)]
    OBVIOUS
  <2>2. f \in [1 .. size + 1 -> used]
    BY <1>2, <2>1
  <2>3. IsFiniteSet(1 .. size + 1) /\ Cardinality(1 .. size + 1) = size + 1
    BY FS_Interval
  <2>4. PICK m, n \in 1 .. size + 1 : m # n /\ f[m] = f[n]
    BY <1>1, <2>2, <2>3, FS_PigeonHole
  <2>5. m \in 1 .. Bound /\ n \in 1 .. Bound /\ Distinct(r, m) = Distinct(r, n)
    BY <1>1, <2>1, <2>4, Constant
  <2> QED
    BY <2>4, <2>5, Differ
<1>4. PICK n : n = CHOOSE k \in free : \A m \in free : k <= m
  OBVIOUS
<1>5. n \in free
  <2>1. free \in SUBSET Nat
    BY <1>2
  <2>2. \E k \in free : \A m \in free : k <= m
    BY <1>3, <2>1, Least
  <2> QED
    BY <1>4, <2>2
<1>6. FirstFree(r, used) = Distinct(r, n)
  BY <1>1, <1>2, <1>4 DEF FirstFree
<1> QED
  BY <1>1, <1>2, <1>5, <1>6, Constant
-----------------------------------------------------------------------------
(* The loop of _link_names: its names after n rounds come from those after *)
(* one round less.                                                         *)
LEMMA NamingIs ==
  ASSUME NEW order, Len(order) \in Nat
  PROVE  Naming(order) =
           [n \in 0 .. Len(order) |->
              IF n = 0 THEN [r \in Keeping(ToSet(order)) |-> base[r]]
              ELSE Named(Naming(order)[n - 1], order[n])]
<1>1. PICK size \in Nat : size = Len(order)
  OBVIOUS
<1>2. PICK own : own = [r \in Keeping(ToSet(order)) |-> base[r]]
  OBVIOUS
<1> DEFINE Rounds(f, k) ==
             f = [n \in 0 .. k |-> IF n = 0 THEN own ELSE Named(f[n - 1], order[n])]
<1> HIDE DEF Rounds
<1>3. \A k \in 0 .. size : \E f : Rounds(f, k)
  <2> SUFFICES ASSUME NEW bad, bad = {k \in 0 .. size : ~\E f : Rounds(f, k)}, bad # {}
               PROVE  FALSE
    OBVIOUS
  <2>1. PICK k \in bad : \A m \in bad : k <= m
    <3>1. bad \in SUBSET Nat
      OBVIOUS
    <3> QED
      BY <3>1, Least
  <2>2. CASE k = 0
    <3>1. PICK f : f = [n \in 0 .. 0 |-> own]
      OBVIOUS
    <3>2. f = [n \in 0 .. 0 |-> IF n = 0 THEN own ELSE Named(f[n - 1], order[n])]
      BY <3>1
    <3> QED
      BY <2>1, <2>2, <3>2 DEF Rounds
  <2>3. CASE k # 0
    <3>1. k \in 1 .. size /\ k - 1 \in 0 .. size /\ k - 1 \notin bad
      BY <2>1, <2>3
    <3>2. PICK f : Rounds(f, k - 1)
      BY <3>1
    <3>3. PICK g : g = [n \in 0 .. k |-> IF n = k THEN Named(f[k - 1], order[k]) ELSE f[n]]
      OBVIOUS
    <3>4. \A n \in 0 .. k - 1 : f[n] = IF n = 0 THEN own ELSE Named(f[n - 1], order[n])
      BY <3>2 DEF Rounds
    <3>5. ASSUME NEW n \in 0 .. k
          PROVE  g[n] = IF n = 0 THEN own ELSE Named(g[n - 1], order[n])
      <4>1. CASE n = k
        <5>1. g[n] = Named(f[k - 1], order[k]) /\ g[n - 1] = f[k - 1]
          BY <3>1, <3>3, <4>1
        <5> QED
          BY <3>1, <4>1, <5>1
      <4>2. CASE n # k
        <5>1. n \in 0 .. k - 1 /\ g[n] = f[n] /\ (n # 0 => g[n - 1] = f[n - 1])
          BY <3>1, <3>3, <4>2
        <5> QED
          BY <3>4, <5>1
      <4> QED
        BY <4>1, <4>2
    <3>6. g = [n \in 0 .. k |-> IF n = 0 THEN own ELSE Named(g[n - 1], order[n])]
      BY <3>3, <3>5
    <3> QED
      BY <2>1, <3>6 DEF Rounds
  <2> QED
    BY <2>2, <2>3
<1>4. PICK f : Rounds(f, size)
  BY <1>3
<1>5. Naming(order) = CHOOSE g : g = [n \in 0 .. Len(order) |->
                                       IF n = 0 THEN [r \in Keeping(ToSet(order)) |-> base[r]]
                                       ELSE Named(g[n - 1], order[n])]
  BY DEF Naming
<1>6. \E g : g = [n \in 0 .. Len(order) |->
                   IF n = 0 THEN [r \in Keeping(ToSet(order)) |-> base[r]]
                   ELSE Named(g[n - 1], order[n])]
  BY <1>1, <1>2, <1>4 DEF Rounds
<1> QED
  BY <1>5, <1>6
-----------------------------------------------------------------------------
(* A run that has no name yet leaves room for one.                         *)
LEMMA Room ==
  ASSUME TypeOK, NEW names, DOMAIN names \subseteq Runs \ Shown,
         NEW r \in Runs \ Shown, r \notin DOMAIN names
  PROVE  IsFiniteSet(Used(names)) /\ Cardinality(Used(names)) < Bound
<1>1. PICK of : of = Shown \cup DOMAIN names
  OBVIOUS
<1>2. PICK as : as = Links \cup {names[s] : s \in DOMAIN names}
  OBVIOUS
<1>3. PICK f : f = [s \in of |-> IF s \in Shown THEN link[s] ELSE names[s]]
  OBVIOUS
<1>4. IsFiniteSet(of) /\ Cardinality(of) \in Nat /\ Cardinality(of) <= Cardinality(Runs) - 1
  <2>1. /\ IsFiniteSet(Runs \ {r}) /\ Cardinality(Runs \ {r}) = Cardinality(Runs) - 1
    BY Constant, FS_RemoveElement
  <2>2. of \in SUBSET (Runs \ {r})
    BY <1>1 DEF Shown
  <2> QED
    BY <2>1, <2>2, FS_Subset, FS_CardinalityType
<1>5. f \in Surjection(of, as)
  <2>1. \A s \in of : f[s] \in as
    BY <1>1, <1>2, <1>3 DEF Links
  <2>2. \A x \in as : \E s \in of : f[s] = x
    <3> SUFFICES ASSUME NEW x \in as PROVE \E s \in of : f[s] = x
      OBVIOUS
    <3>1. CASE x \in Links
      BY <1>1, <1>3, <3>1 DEF Links
    <3>2. CASE x \in {names[s] : s \in DOMAIN names}
      BY <1>1, <1>3, <3>2
    <3> QED
      BY <1>2, <3>1, <3>2
  <2> QED
    BY <1>3, <2>1, <2>2 DEF Surjection
<1>6. IsFiniteSet(as) /\ Cardinality(as) <= Cardinality(of) /\ Cardinality(as) \in Nat
  BY <1>4, <1>5, FS_Surjection, FS_CardinalityType
<1>7. IsFiniteSet(rest) /\ Cardinality(rest) \in Nat /\ Cardinality(rest) <= MaxRest
  BY FS_CardinalityType DEF TypeOK
<1>8. /\ IsFiniteSet(as \cup rest) /\ Cardinality(as \cap rest) \in Nat
      /\ Cardinality(as \cup rest) = Cardinality(as) + Cardinality(rest) - Cardinality(as \cap rest)
  BY <1>6, <1>7, FS_Union, FS_Intersection, FS_CardinalityType
<1>9. Used(names) = as \cup rest
  BY <1>2 DEF Used, Taken
<1>10. Cardinality(as \cup rest) \in Nat
  BY <1>8, FS_CardinalityType
<1>11. ASSUME NEW runs \in Nat, NEW o \in Nat, NEW a \in Nat, NEW b \in Nat, NEW c \in Nat,
              NEW most \in Nat, NEW all \in Nat,
              a <= o, o <= runs - 1, b <= most, all = a + b - c
       PROVE  all < runs + most
  BY ONLY <1>11
<1>12. Cardinality(as \cup rest) < Cardinality(Runs) + MaxRest
  BY <1>4, <1>6, <1>7, <1>8, <1>10, <1>11, Constant
<1> QED
  BY ONLY <1>8, <1>9, <1>12 DEF Bound

LEMMA OrderIs ==
  ASSUME NEW order \in Orders
  PROVE  /\ Len(order) \in Nat /\ DOMAIN order = 1 .. Len(order)
         /\ \A i \in 1 .. Len(order) : order[i] \in Runs \ Shown
         /\ ToSet(order) \subseteq Runs \ Shown
         /\ ToSet(order) = {order[i] : i \in 1 .. Len(order)}
<1>1. PICK n \in 0 .. Cardinality(Runs) : order \in Injection(1 .. n, Runs \ Shown)
  BY DEF Orders
<1>2. n \in Nat /\ order \in [1 .. n -> Runs \ Shown]
  BY <1>1, Constant DEF Injection
<1>3. Len(order) = n
  BY <1>2
<1> QED
  BY <1>2, <1>3 DEF ToSet

(* What the loop has named after n rounds: those that keep their own name  *)
(* and the first n runs, all differently, and as nothing is yet.           *)
Held(order, n) ==
  LET names == Naming(order)[n]
      own == Keeping(ToSet(order))
  IN /\ DOMAIN names = own \cup {order[i] : i \in 1 .. n}
     /\ \A r \in DOMAIN names :
          /\ names[r] \notin Taken
          /\ r \in own => names[r] = base[r]
          /\ r \notin own => \E k \in 1 .. Bound : names[r] = Distinct(r, k)
     /\ \A r, s \in DOMAIN names : names[r] = names[s] => r = s

LEMMA NamingHolds ==
  ASSUME TypeOK, NEW order \in Orders
  PROVE  \A n \in 0 .. Len(order) : Held(order, n)
<1>1. PICK size \in Nat : size = Len(order)
  BY OrderIs
<1>2. PICK own : own = Keeping(ToSet(order))
  OBVIOUS
<1>3. /\ Naming(order)[0] = [r \in own |-> base[r]]
      /\ \A n \in 1 .. size : Naming(order)[n] = Named(Naming(order)[n - 1], order[n])
  BY <1>1, <1>2, NamingIs
<1>4. own \subseteq Runs \ Shown
  BY <1>2, OrderIs DEF Keeping
<1>5. Held(order, 0)
  <2>1. \A r \in own : base[r] \notin Taken /\ \A s \in own \ {r} : base[s] # base[r]
    BY <1>2 DEF Keeping, Own, Alone
  <2> QED
    BY <1>2, <1>3, <2>1 DEF Held
<1>6. ASSUME NEW n \in 1 .. size, Held(order, n - 1)
      PROVE  Held(order, n)
  <2>1. PICK names : names = Naming(order)[n - 1]
    OBVIOUS
  <2>2. PICK r \in Runs \ Shown : r = order[n]
    BY <1>1, OrderIs
  <2>3. Naming(order)[n] = Named(names, r)
    BY <1>3, <2>1, <2>2
  <2>4. {order[i] : i \in 1 .. n} = {order[i] : i \in 1 .. n - 1} \cup {r}
    <3>1. 1 .. n = 1 .. n - 1 \cup {n}
      BY <1>1
    <3> QED
      BY <2>2, <3>1
  <2>5. /\ DOMAIN names = own \cup {order[i] : i \in 1 .. n - 1}
        /\ \A s \in DOMAIN names :
             /\ names[s] \notin Taken
             /\ s \in own => names[s] = base[s]
             /\ s \notin own => \E k \in 1 .. Bound : names[s] = Distinct(s, k)
        /\ \A s, t \in DOMAIN names : names[s] = names[t] => s = t
    BY <1>2, <1>6, <2>1 DEF Held
  <2>6. CASE r \in DOMAIN names
    <3>1. Naming(order)[n] = names /\ DOMAIN names = own \cup {order[i] : i \in 1 .. n}
      BY <2>3, <2>4, <2>5, <2>6 DEF Named
    <3> QED
      BY <1>2, <2>5, <3>1 DEF Held
  <2>7. CASE r \notin DOMAIN names
    <3>1. PICK free : free = FirstFree(r, Used(names))
      OBVIOUS
    <3>2. DOMAIN names \subseteq Runs \ Shown
      <4>1. \A i \in 1 .. n - 1 : order[i] \in Runs \ Shown
        BY <1>1, OrderIs
      <4> QED
        BY <1>4, <2>5, <4>1
    <3>3. free \notin Used(names) /\ \E k \in 1 .. Bound : free = Distinct(r, k)
      <4>1. base[r] \in Seq(Parts)
        BY Constant DEF TypeOK
      <4> QED
        BY <2>7, <3>1, <3>2, <4>1, Room, FirstFreeIs
    <3>4. free \notin Taken /\ \A s \in DOMAIN names : names[s] # free
      BY <3>3 DEF Used
    <3>5. PICK more : more = [s \in DOMAIN names \cup {r} |-> IF s = r THEN free ELSE names[s]]
      OBVIOUS
    <3>6. Naming(order)[n] = more /\ r \notin own
      BY <2>3, <2>5, <2>7, <3>1, <3>5 DEF Named
    <3>7. DOMAIN more = own \cup {order[i] : i \in 1 .. n}
      BY <2>4, <2>5, <3>5
    <3>8. ASSUME NEW s \in DOMAIN more
          PROVE  /\ more[s] \notin Taken
                 /\ s \in own => more[s] = base[s]
                 /\ s \notin own => \E k \in 1 .. Bound : more[s] = Distinct(s, k)
                 /\ \A t \in DOMAIN more : more[s] = more[t] => s = t
      <4>1. CASE s = r
        BY <2>5, <3>3, <3>4, <3>5, <3>6, <4>1
      <4>2. CASE s # r
        BY <2>5, <3>4, <3>5, <4>2
      <4> QED
        BY <4>1, <4>2
    <3> QED
      BY <1>2, <3>6, <3>7, <3>8 DEF Held
  <2> QED
    BY <2>6, <2>7
<1>7. ASSUME NEW bad, bad = {n \in 0 .. size : ~Held(order, n)}, bad # {}
      PROVE  FALSE
  <2>1. PICK n \in bad : \A m \in bad : n <= m
    <3>1. bad \in SUBSET Nat
      BY <1>7
    <3> QED
      BY <1>7, <3>1, Least
  <2>2. n \in 1 .. size
    BY <1>5, <1>7, <2>1
  <2>3. n - 1 \in 0 .. size /\ n - 1 \notin bad
    BY <2>1, <2>2
  <2> QED
    BY <1>6, <1>7, <2>1, <2>2, <2>3
<1> QED
  BY <1>1, <1>7

(* The names of the runs of a link() call.                                 *)
LEMMA LinkNamesAre ==
  ASSUME TypeOK, NEW order \in Orders
  PROVE  LET names == LinkNames(order)
         IN /\ DOMAIN names = ToSet(order)
            /\ \A r \in ToSet(order) :
                 /\ names[r] \notin Taken
                 /\ r \in Keeping(ToSet(order)) => names[r] = base[r]
                 /\ r \notin Keeping(ToSet(order)) =>
                      \E k \in 1 .. Bound : names[r] = Distinct(r, k)
            /\ \A r, s \in ToSet(order) : names[r] = names[s] => r = s
<1>1. Held(order, Len(order))
  BY NamingHolds, OrderIs
<1>2. Keeping(ToSet(order)) \cup {order[i] : i \in 1 .. Len(order)} = ToSet(order)
  BY OrderIs DEF Keeping
<1> QED
  BY <1>1, <1>2 DEF Held, LinkNames
-----------------------------------------------------------------------------
LEMMA Start == Init => TypeOK
<1>1. \A x : IsFiniteSet({}) /\ Cardinality({}) = 0
  BY FS_EmptySet
<1> QED
  BY <1>1, Constant DEF Init, TypeOK, Shown

(* What linking a list of runs, or as many as the disk lets, does.         *)
LEMMA LinkIs ==
  ASSUME TypeOK, NEW order \in Orders, Link(order)
  PROVE  \E done \in SUBSET ToSet(order) :
           /\ base' = base /\ rest' = rest /\ DOMAIN link' = Runs
           /\ done \subseteq Runs \ Shown
           /\ \A r \in Runs \ done : link'[r] = link[r]
           /\ \A r \in done :
                \/ r \in Keeping(ToSet(order)) /\ link'[r] = base[r]
                \/ r \notin Keeping(ToSet(order)) /\ \E k \in 1 .. Bound : link'[r] = Distinct(r, k)
<1>1. PICK names : names = LinkNames(order)
  OBVIOUS
<1>2. PICK done \in SUBSET ToSet(order) :
        /\ link' = [r \in Runs |-> IF r \in done THEN names[r] ELSE link[r]]
        /\ base' = base /\ rest' = rest
  BY <1>1 DEF Link
<1>3. done \subseteq Runs \ Shown
  BY <1>2, OrderIs
<1>4. \A r \in done : /\ r \in Keeping(ToSet(order)) => names[r] = base[r]
                      /\ r \notin Keeping(ToSet(order)) => \E k \in 1 .. Bound : names[r] = Distinct(r, k)
  BY <1>1, <1>2, LinkNamesAre
<1> QED
  BY <1>2, <1>3, <1>4

LEMMA Step == TypeOK /\ [Next]_vars => TypeOK'
<1> SUFFICES ASSUME TypeOK, [Next]_vars PROVE TypeOK'
  OBVIOUS
<1>1. ASSUME NEW r \in Runs, Unlink(r) PROVE TypeOK'
  <2>1. base' = base /\ DOMAIN link' = Runs /\ Shown' \subseteq Shown /\ \A s \in Shown' : link'[s] = link[s]
    BY <1>1 DEF Unlink, Shown, TypeOK
  <2>2. IsFiniteSet(rest') /\ Cardinality(rest') <= MaxRest
    <3>1. CASE rest' = rest
      BY <3>1 DEF TypeOK
    <3>2. CASE Cardinality(rest) < MaxRest /\ rest' = rest \cup {link[r]}
      <4>1. IsFiniteSet(rest) /\ Cardinality(rest) \in Nat
        BY FS_CardinalityType DEF TypeOK
      <4>2. /\ IsFiniteSet(rest \cup {link[r]})
            /\ \/ Cardinality(rest \cup {link[r]}) = Cardinality(rest)
               \/ Cardinality(rest \cup {link[r]}) = Cardinality(rest) + 1
        BY <4>1, FS_AddElement
      <4> QED
        BY <3>2, <4>1, <4>2, Constant
    <3> QED
      BY <1>1, <3>1, <3>2 DEF Unlink
  <2> QED
    BY <2>1, <2>2 DEF TypeOK, Distinct
<1>2. ASSUME NEW r \in Runs, NEW n \in Given, LookUp(r, n) PROVE TypeOK'
  <2>1. /\ base' \in [Runs -> Given] /\ rest' = rest /\ link' = link
        /\ \A s \in Shown : base'[s] = base[s]
    BY <1>2 DEF LookUp, TypeOK
  <2>2. Shown' = Shown
    BY <2>1 DEF Shown
  <2>3. \A s \in Shown, k \in Counts : Distinct(s, k)' = Distinct(s, k)
    BY <2>1 DEF Distinct
  <2> QED
    BY <2>1, <2>2, <2>3 DEF TypeOK, Counts
<1>3. ASSUME NEW order \in Orders, Link(order) PROVE TypeOK'
  <2>1. PICK done \in SUBSET ToSet(order) :
          /\ base' = base /\ rest' = rest /\ DOMAIN link' = Runs /\ done \subseteq Runs \ Shown
          /\ \A r \in Runs \ done : link'[r] = link[r]
          /\ \A r \in done : link'[r] = base[r] \/ \E k \in 1 .. Bound : link'[r] = Distinct(r, k)
    BY <1>3, LinkIs
  <2>2. Shown' \subseteq Shown \cup done
    BY <2>1 DEF Shown
  <2>3. \A r \in Shown' : link'[r] = base[r] \/ \E k \in 1 .. Bound : link'[r] = Distinct(r, k)
    BY <2>1, <2>2 DEF TypeOK, Bound, Counts, Shown
  <2>4. \A r, k : Distinct(r, k)' = Distinct(r, k)
    BY <2>1 DEF Distinct
  <2> QED
    BY <2>1, <2>3, <2>4 DEF TypeOK, Bound, Counts
<1>4. CASE UNCHANGED vars
  BY <1>4 DEF vars, TypeOK, Shown, Distinct
<1> QED
  BY <1>1, <1>2, <1>3, <1>4 DEF Next

(* A link's name is its run's own or one of those it is distinguished by,  *)
(* and at most MaxRest directories are left over.                          *)
THEOREM TypeCorrect == Spec => []TypeOK
BY Start, Step, PTL DEF Spec

(* Whichever runs are linked, in whichever order, all of them can be, each *)
(* under a name no other has: symlink_to and mkdir find no name taken.     *)
THEOREM AllFitCorrect == Spec => []AllFit
<1>1. TypeOK => AllFit
  BY LinkNamesAre DEF AllFit, Fits
<1> QED
  BY <1>1, TypeCorrect, PTL

(* A run that appears under its plain name shares it with no run shown.    *)
THEOREM PlainIsUniqueCorrect == Spec => PlainIsUnique
<1>1. ASSUME TypeOK, Next, NEW r \in Runs, link[r] = None, link'[r] = base[r],
             NEW s \in Runs \ {r}, link'[s] # None
      PROVE  base[s] # base[r]
  <2>1. base[r] \in Given /\ base[r] # None
    BY <1>1, Constant DEF TypeOK
  <2>2. PICK order \in Orders : Link(order)
    <3>1. ASSUME NEW t \in Runs, Unlink(t) PROVE FALSE
      <4>1. link' = [link EXCEPT ![t] = None] /\ t \in Shown
        BY <3>1 DEF Unlink
      <4>2. r # t
        BY <1>1, <4>1 DEF Shown
      <4> QED
        BY <1>1, <2>1, <4>1, <4>2 DEF TypeOK
    <3>2. ASSUME NEW t \in Runs, NEW n \in Given, LookUp(t, n) PROVE FALSE
      BY <1>1, <2>1, <3>2 DEF LookUp
    <3> QED
      BY <1>1, <3>1, <3>2 DEF Next
  <2>3. PICK done \in SUBSET ToSet(order) :
          /\ \A t \in Runs \ done : link'[t] = link[t]
          /\ \A t \in done :
               \/ t \in Keeping(ToSet(order)) /\ link'[t] = base[t]
               \/ t \notin Keeping(ToSet(order)) /\ \E k \in 1 .. Bound : link'[t] = Distinct(t, k)
    BY <1>1, <2>2, LinkIs
  <2>4. r \in done
    BY <1>1, <2>1, <2>3
  <2>5. r \in Keeping(ToSet(order))
    <3>1. base[r] \in Seq(Parts)
      BY <2>1, Constant
    <3> QED
      BY <1>1, <2>3, <2>4, <3>1, Differ
  <2>6. s \in done \/ s \in Shown
    BY <1>1, <2>3 DEF Shown
  <2> QED
    BY <2>3, <2>5, <2>6 DEF Keeping, Own, Alone
<1>2. TypeOK /\ [Next]_vars =>
        [\A r \in Runs : link[r] = None /\ link'[r] = base[r] =>
           \A s \in Runs \ {r} : link'[s] # None => base[s] # base[r]]_vars
  BY <1>1
<1> QED
  BY <1>2, TypeCorrect, PTL DEF Spec, PlainIsUnique
=============================================================================
