-------------------------- MODULE CacheFetchProofs ---------------------------
(***************************************************************************)
(* What is here of a file, and what a fetch has made of the files it       *)
(* listed, for any files, any lengths and versions of them, and whatever   *)
(* is interrupted between the listing and the last write.                  *)
(*                                                                         *)
(* Genuine is not inductive: what is appended was compared a step earlier, *)
(* so what a fetch has in hand must fit what is here (InHand).  That is so *)
(* because nobody else writes to the cache (OneFetcher): two dashboards    *)
(* that share it may both append what follows the same prefix.  Served     *)
(* rests on what a fetch is done with (Reached).                           *)
(***************************************************************************)
EXTENDS CacheFetch, SequenceTheorems, TLAPS

OneFetcher == \A d, e \in Fetchers : d = e

(* s is the beginning of a version of f.                                   *)
Past(f, s) == \E v \in 1 .. Version(f) : \E n \in 0 .. stored[f][v] : s = Events(n, v)

(* s is, and with t it is a longer one.                                    *)
Continues(f, s, t) ==
  \E v \in 1 .. Version(f) : \E m, n \in Nat :
    s = Events(m, v) /\ t = Events(n, v) /\ m + n <= stored[f][v]

InHand ==
  \A d \in Fetchers :
    LET f == File(d)
        got == fetch[d].got
    IN /\ \A g \in fetch[d].todo : Uploaded(g)
       /\ ~At(d, "idle") /\ ~At(d, "file") => f \in fetch[d].todo
       /\ At(d, "compare") \/ At(d, "replace") => Past(f, got)
       /\ At(d, "append") => cache[f] # None /\ Continues(f, cache[f], got)
       /\ At(d, "link") => cache[f] # None

Reached ==
  \A d \in Fetchers : ~At(d, "idle") =>
    \A f \in Files : (f \in Light \/ fetch[d].media) /\ fetch[d].listed[f] > 0 =>
      f \in fetch[d].todo \/ Viewable(f)

Sound == TypeOK /\ Genuine /\ InHand
-----------------------------------------------------------------------------
(* Events of one version: their beginning, their end, their concatenation. *)

LEMMA EventsAre ==
  ASSUME NEW n \in Nat, NEW v
  PROVE  /\ Len(Events(n, v)) = n /\ Events(n, v) \in Seq({v}) /\ DOMAIN Events(n, v) = 1 .. n
         /\ \A i \in 1 .. n : Events(n, v)[i] = v
BY DEF Events

LEMMA EventsOnly ==
  ASSUME NEW v, NEW s \in Seq({v})
  PROVE  Len(s) \in Nat /\ s = Events(Len(s), v)
<1>1. Len(s) \in Nat /\ \A i \in 1 .. Len(s) : s[i] = v
  BY ElementOfSeq
<1> QED
  BY <1>1, EventsAre, SeqEqual

LEMMA EventsPart ==
  ASSUME NEW n \in Nat, NEW i \in 1 .. n + 1, NEW j \in 0 .. n, i <= j + 1, NEW v
  PROVE  SubSeq(Events(n, v), i, j) = Events(j - i + 1, v)
<1> DEFINE s == Events(n, v)
           sub == SubSeq(s, i, j)
<1>1. \A k \in i .. j : s[k] \in {v}
  <2>1. \A k \in 1 .. n : s[k] = v
    BY EventsAre
  <2> HIDE DEF s
  <2> QED
    BY <2>1
<1>2. i \in Int /\ j \in Int
  OBVIOUS
<1>3. sub \in Seq({v}) /\ Len(sub) = IF i <= j THEN j - i + 1 ELSE 0
  <2> HIDE DEF s
  <2> QED
    BY <1>1, <1>2, SubSeqProperties
<1> HIDE DEF sub
<1>4. Len(sub) = j - i + 1
  BY <1>3
<1>5. sub = Events(Len(sub), v)
  BY <1>3, EventsOnly
<1> QED
  BY <1>4, <1>5 DEF sub

LEMMA EventsBegin ==
  ASSUME NEW k \in Nat, NEW n \in Nat, n <= k, NEW v
  PROVE  SubSeq(Events(k, v), 1, n) = Events(n, v)
<1>1. 1 \in 1 .. k + 1 /\ n \in 0 .. k /\ 1 <= n + 1 /\ n - 1 + 1 = n
  OBVIOUS
<1>2. SubSeq(Events(k, v), 1, n) = Events(n - 1 + 1, v)
  BY ONLY <1>1, k \in Nat, EventsPart
<1> QED
  BY <1>1, <1>2

LEMMA EventsJoin ==
  ASSUME NEW n \in Nat, NEW m \in Nat, NEW v
  PROVE  Events(m, v) \o Events(n, v) = Events(m + n, v)
<1>1. /\ Events(m, v) \in Seq({v}) /\ Len(Events(m, v)) = m
      /\ Events(n, v) \in Seq({v}) /\ Len(Events(n, v)) = n
  BY EventsAre
<1>2. /\ Events(m, v) \o Events(n, v) \in Seq({v})
      /\ Len(Events(m, v) \o Events(n, v)) = m + n
  BY <1>1, ConcatProperties
<1> QED
  BY <1>2, EventsOnly

LEMMA EventsPrefix ==
  ASSUME NEW n \in Nat, NEW m \in Nat, NEW v, NEW w, IsPrefix(Events(m, w), Events(n, v))
  PROVE  m <= n /\ Events(m, w) = Events(m, v)
<1>1. m <= n /\ SubSeq(Events(m, w), 1, m) = SubSeq(Events(n, v), 1, m)
  BY EventsAre DEF IsPrefix
<1>2. 1 \in 1 .. m + 1 /\ 1 \in 1 .. n + 1 /\ m \in 0 .. n /\ m \in 0 .. m /\ 1 <= m + 1
      /\ m - 1 + 1 = m
  BY <1>1
<1>3. SubSeq(Events(m, w), 1, m) = Events(m - 1 + 1, w)
  BY ONLY <1>2, m \in Nat, EventsPart
<1>4. SubSeq(Events(n, v), 1, m) = Events(m - 1 + 1, v)
  BY ONLY <1>2, m \in Nat, n \in Nat, EventsPart
<1> QED
  BY <1>1, <1>2, <1>3, <1>4
-----------------------------------------------------------------------------
(* The server.                                                             *)

LEMMA StoredGrows ==
  ASSUME TypeOK, Next
  PROVE  /\ stored' \in [Files -> Seq(1 .. MaxLen)]
         /\ \A f \in Files :
              /\ Len(stored[f]) \in Nat /\ Len(stored'[f]) \in Nat
              /\ Len(stored[f]) <= Len(stored'[f]) /\ Len(stored'[f]) <= MaxVersion
              /\ \A v \in 1 .. Len(stored[f]) :
                   /\ stored[f][v] \in 1 .. MaxLen /\ stored'[f][v] \in 1 .. MaxLen
                   /\ stored[f][v] <= stored'[f][v]
<1> USE CacheAssumption DEF TypeOK
<1>0. \A f \in Files : stored[f] \in Seq(1 .. MaxLen) /\ Len(stored[f]) \in Nat
                       /\ Len(stored[f]) <= MaxVersion
  BY DEF Version
<1>1. CASE UNCHANGED stored
  <2>1. \A f \in Files : \A v \in 1 .. Len(stored[f]) :
          stored[f][v] \in 1 .. MaxLen /\ stored[f][v] <= stored[f][v]
    BY <1>0
  <2> QED
    BY <1>0, <1>1, <2>1
<1>2. ASSUME NEW g \in Files, NEW s \in Seq(1 .. MaxLen), stored' = [stored EXCEPT ![g] = s],
             Len(stored[g]) <= Len(s), Len(s) <= MaxVersion,
             \A v \in 1 .. Len(stored[g]) : stored[g][v] <= s[v]
      PROVE  /\ stored' \in [Files -> Seq(1 .. MaxLen)]
             /\ \A f \in Files :
                  /\ Len(stored[f]) \in Nat /\ Len(stored'[f]) \in Nat
                  /\ Len(stored[f]) <= Len(stored'[f]) /\ Len(stored'[f]) <= MaxVersion
                  /\ \A v \in 1 .. Len(stored[f]) :
                       /\ stored[f][v] \in 1 .. MaxLen /\ stored'[f][v] \in 1 .. MaxLen
                       /\ stored[f][v] <= stored'[f][v]
  <2>1. stored' \in [Files -> Seq(1 .. MaxLen)]
    BY <1>2
  <2>2. \A f \in Files : \A v \in 1 .. Len(stored[f]) :
          stored[f][v] \in 1 .. MaxLen /\ stored[f][v] <= stored[f][v]
    BY <1>0
  <2>3. \A v \in 1 .. Len(stored[g]) : v \in 1 .. Len(s) /\ s[v] \in 1 .. MaxLen
    BY <1>0, <1>2
  <2>4. stored'[g] = s /\ \A f \in Files : f # g => stored'[f] = stored[f]
    BY <1>2
  <2> QED
    BY <1>0, <1>2, <2>1, <2>2, <2>3, <2>4
<1>3. ASSUME NEW g \in Files, Grow(g), Uploaded(g)
      PROVE  \E s \in Seq(1 .. MaxLen) :
               /\ stored' = [stored EXCEPT ![g] = s]
               /\ Len(stored[g]) <= Len(s) /\ Len(s) <= MaxVersion
               /\ \A v \in 1 .. Len(stored[g]) : stored[g][v] <= s[v]
  <2> DEFINE s == [stored[g] EXCEPT ![Version(g)] = @ + 1]
  <2>1. stored' = [stored EXCEPT ![g] = s]
    BY <1>3 DEF Grow
  <2>2. Version(g) \in 1 .. Len(stored[g]) /\ stored[g][Version(g)] + 1 \in 1 .. MaxLen
    BY <1>0, <1>3 DEF Grow, Size, Uploaded, Version
  <2>3. s \in Seq(1 .. MaxLen) /\ Len(s) = Len(stored[g])
    BY <1>0, <2>2
  <2>4. \A v \in 1 .. Len(stored[g]) : stored[g][v] <= s[v]
    BY <1>0, <2>2
  <2>5. Len(stored[g]) <= Len(stored[g]) /\ Len(stored[g]) <= MaxVersion
    BY <1>0
  <2> HIDE DEF s
  <2> QED
    BY <2>1, <2>3, <2>4, <2>5
<1>4. ASSUME NEW g \in Files, Grow(g), ~Uploaded(g)
      PROVE  \E s \in Seq(1 .. MaxLen) :
               /\ stored' = [stored EXCEPT ![g] = s]
               /\ Len(stored[g]) <= Len(s) /\ Len(s) <= MaxVersion
               /\ \A v \in 1 .. Len(stored[g]) : stored[g][v] <= s[v]
  <2>1. stored' = [stored EXCEPT ![g] = <<1>>] /\ Len(stored[g]) = 0
    BY <1>0, <1>4 DEF Grow, Uploaded, Version
  <2>2. <<1>> \in Seq(1 .. MaxLen) /\ Len(<<1>>) = 1
    OBVIOUS
  <2>3. 0 <= 1 /\ 1 <= MaxVersion /\ 1 .. Len(stored[g]) = {}
    BY <2>1
  <2> QED
    BY ONLY <2>1, <2>2, <2>3
<1>5. ASSUME NEW g \in Files, Rewrite(g)
      PROVE  \E s \in Seq(1 .. MaxLen) :
               /\ stored' = [stored EXCEPT ![g] = s]
               /\ Len(stored[g]) <= Len(s) /\ Len(s) <= MaxVersion
               /\ \A v \in 1 .. Len(stored[g]) : stored[g][v] <= s[v]
  <2> DEFINE s == Append(stored[g], 1)
  <2>1. stored' = [stored EXCEPT ![g] = s] /\ Len(stored[g]) < MaxVersion
    BY <1>5 DEF Rewrite, Version
  <2>2. s \in Seq(1 .. MaxLen) /\ Len(s) = Len(stored[g]) + 1
        /\ \A v \in 1 .. Len(stored[g]) : s[v] = stored[g][v] /\ stored[g][v] \in Nat
    BY <1>0
  <2>3. /\ Len(stored[g]) <= Len(s) /\ Len(s) <= MaxVersion
        /\ \A v \in 1 .. Len(stored[g]) : stored[g][v] <= s[v]
    BY <1>0, <2>1, <2>2
  <2> HIDE DEF s
  <2> QED
    BY <2>1, <2>2, <2>3
<1> QED
  BY <1>1, <1>2, <1>3, <1>4, <1>5
  DEF Next, Fetch, Completed, Truncated, Stabilise, List, Look, Download, Compare, Write, Link,
      Done, Stop, RemoveRun, Outside

LEMMA Lengths ==
  ASSUME TypeOK, NEW f \in Files, NEW v \in 1 .. Version(f)
  PROVE  /\ v \in 1 .. MaxVersion /\ stored[f][v] \in 1 .. MaxLen /\ stored[f][v] \in Nat
         /\ MaxLen \in Nat
<1>1. stored[f] \in Seq(1 .. MaxLen) /\ Len(stored[f]) \in Nat /\ Len(stored[f]) <= MaxVersion
  BY DEF TypeOK, Version
<1>2. v \in 1 .. Len(stored[f])
  BY DEF Version
<1>3. stored[f][v] \in 1 .. MaxLen
  BY <1>1, <1>2, ElementOfSeq
<1> QED
  BY <1>1, <1>2, <1>3, CacheAssumption

(* What was the beginning of a version stays one.                          *)
LEMMA PastStays ==
  ASSUME TypeOK, Next, NEW f \in Files, NEW s, NEW t
  PROVE  /\ Past(f, s) => Past(f, s)'
         /\ Continues(f, s, t) => Continues(f, s, t)'
         /\ Uploaded(f) => Uploaded(f)'
<1>1. /\ Len(stored[f]) \in Nat /\ Len(stored'[f]) \in Nat /\ Len(stored[f]) <= Len(stored'[f])
      /\ \A v \in 1 .. Len(stored[f]) :
           /\ stored[f][v] \in Nat /\ stored'[f][v] \in Nat /\ stored[f][v] <= stored'[f][v]
  BY StoredGrows
<1>2. \A v \in 1 .. Len(stored[f]) :
        v \in 1 .. Len(stored'[f]) /\ \A n \in 0 .. stored[f][v] : n \in 0 .. stored'[f][v]
  BY <1>1
<1>3. Past(f, s) => Past(f, s)'
  BY <1>2 DEF Past, Version
<1>4. ASSUME Continues(f, s, t) PROVE Continues(f, s, t)'
  <2>1. PICK v \in 1 .. Len(stored[f]), m \in Nat, n \in Nat :
          s = Events(m, v) /\ t = Events(n, v) /\ m + n <= stored[f][v]
    BY <1>4 DEF Continues, Version
  <2>2. m + n <= stored'[f][v]
    BY <1>1, <2>1
  <2> QED
    BY <1>2, <2>1, <2>2 DEF Continues, Version
<1>5. Uploaded(f) => Uploaded(f)'
  BY <1>1 DEF Uploaded, Version
<1> QED
  BY <1>3, <1>4, <1>5

(* ... and has the length of one.                                          *)
LEMMA PastContents ==
  ASSUME TypeOK, NEW f \in Files, NEW s, Past(f, s)
  PROVE  s \in Contents
<1>1. PICK v \in 1 .. Version(f) : \E n \in 0 .. stored[f][v] : s = Events(n, v)
  BY DEF Past
<1>2. PICK n \in 0 .. stored[f][v] : s = Events(n, v)
  BY <1>1
<1>3. /\ stored[f] \in Seq(1 .. MaxLen) /\ Version(f) = Len(stored[f]) /\ Version(f) <= MaxVersion
      /\ MaxLen \in Nat /\ MaxVersion \in Nat
  BY CacheAssumption DEF TypeOK, Version
<1>4. stored[f][v] \in 1 .. MaxLen /\ v \in 1 .. MaxVersion
  BY <1>1, <1>3
<1>5. n \in 0 .. MaxLen
  BY <1>2, <1>3, <1>4
<1> QED
  BY <1>2, <1>4, <1>5 DEF Contents

LEMMA NothingYet == <<>> \in Contents
<1>1. Events(0, 1) = <<>>
  BY EventsAre, EmptySeq
<1> QED
  BY <1>1, CacheAssumption DEF Contents

(* What the server has of an uploaded file.                                *)
LEMMA RemotePast ==
  ASSUME TypeOK, NEW f \in Files, Uploaded(f)
  PROVE  Past(f, Remote(f))
<1>1. Version(f) \in 1 .. Version(f) /\ remote[f] \in 0 .. stored[f][Version(f)]
  BY CacheAssumption DEF TypeOK, Version, Uploaded, Size
<1> QED
  BY <1>1 DEF Past, Remote

(* The tail of a download that begins with what is here.                   *)
LEMMA TailContinues ==
  ASSUME TypeOK, NEW f \in Files, NEW held \in Contents, NEW got, Past(f, got), IsPrefix(held, got)
  PROVE  Continues(f, held, TailAfter(held, got))
<1>1. PICK v \in 1 .. Version(f) : \E n \in 0 .. stored[f][v] : got = Events(n, v)
  BY DEF Past
<1>2. PICK n \in 0 .. stored[f][v] : got = Events(n, v)
  BY <1>1
<1>3. PICK m \in 0 .. MaxLen, w \in 1 .. MaxVersion : held = Events(m, w)
  BY DEF Contents
<1>4. stored[f][v] \in Nat /\ n \in Nat /\ m \in Nat /\ n <= stored[f][v]
  <2>1. stored[f][v] \in Nat /\ MaxLen \in Nat
    BY <1>1, Lengths
  <2> QED
    BY <1>2, <1>3, <2>1
<1>5. m <= n /\ held = Events(m, v)
  BY <1>2, <1>3, <1>4, EventsPrefix
<1>6. Len(held) = m /\ Len(got) = n
  BY <1>2, <1>3, <1>4, EventsAre
<1>7. n - m \in Nat /\ m + (n - m) = n /\ m + (n - m) <= n
  BY <1>4, <1>5
<1>8. SubSeq(Events(n, v), m + 1, n) = Events(n - (m + 1) + 1, v)
  <2>1. m + 1 \in 1 .. n + 1 /\ n \in 0 .. n /\ m + 1 <= n + 1
    BY <1>4, <1>5
  <2> QED
    BY ONLY <1>4, <2>1, EventsPart
<1>9. TailAfter(held, got) = Events(n - m, v)
  <2>1. n - (m + 1) + 1 = n - m
    BY <1>4
  <2> QED
    BY <1>2, <1>6, <1>8, <2>1 DEF TailAfter
<1>10. m + (n - m) <= stored[f][v]
  BY <1>4, <1>7
<1> QED
  BY <1>1, <1>4, <1>5, <1>7, <1>9, <1>10 DEF Continues

(* ... which may be appended as far as one likes.                          *)
LEMMA AppendedPast ==
  ASSUME TypeOK, NEW f \in Files, NEW held, NEW tail, Continues(f, held, tail),
         NEW n \in 0 .. Len(tail)
  PROVE  Past(f, held \o SubSeq(tail, 1, n)) /\ Past(f, held \o tail) /\ tail \in Contents
<1>1. PICK v \in 1 .. Version(f), m \in Nat, k \in Nat :
        held = Events(m, v) /\ tail = Events(k, v) /\ m + k <= stored[f][v]
  BY DEF Continues
<1>2. Len(tail) = k /\ stored[f][v] \in Nat /\ k \in Nat /\ m \in Nat
  <2>1. stored[f][v] \in Nat
    BY <1>1, Lengths
  <2> QED
    BY <1>1, <2>1, EventsAre
<1>3. /\ n \in Nat /\ n <= k
      /\ m + n \in 0 .. stored[f][v] /\ m + k \in 0 .. stored[f][v] /\ k \in 0 .. stored[f][v]
  BY <1>1, <1>2
<1>4. SubSeq(tail, 1, n) = Events(n, v)
  <2>1. SubSeq(Events(k, v), 1, n) = Events(n, v)
    BY ONLY <1>2, <1>3, EventsBegin
  <2> QED
    BY <1>1, <2>1
<1>5. held \o SubSeq(tail, 1, n) = Events(m + n, v) /\ held \o tail = Events(m + k, v)
  <2>1. Events(m, v) \o Events(n, v) = Events(m + n, v)
    BY ONLY <1>2, <1>3, EventsJoin
  <2>2. Events(m, v) \o Events(k, v) = Events(m + k, v)
    BY ONLY <1>2, EventsJoin
  <2> QED
    BY <1>1, <1>4, <2>1, <2>2
<1>6. Past(f, tail)
  BY <1>1, <1>3 DEF Past
<1> QED
  BY <1>3, <1>5, <1>6, PastContents DEF Past
-----------------------------------------------------------------------------
(* The cache.                                                              *)

Steps == {"idle", "file", "download", "compare", "append", "replace", "link"}
FetchRecord ==
  [at : Steps,
   media : BOOLEAN, listed : [Files -> 0 .. MaxLen], todo : SUBSET Files,
   file : Files \cup {None}, got : Contents]

Rec(at, media, listed, todo, file, got) ==
  [at |-> at, media |-> media, listed |-> listed, todo |-> todo, file |-> file, got |-> got]

LEMMA IdleType == Idle \in FetchRecord
BY NothingYet, CacheAssumption DEF Idle, FetchRecord, Steps

LEMMA Fields ==
  /\ \A r \in FetchRecord :
       /\ r.at \in Steps /\ r.media \in BOOLEAN /\ r.listed \in [Files -> 0 .. MaxLen]
       /\ r.todo \in SUBSET Files /\ r.file \in Files \cup {None} /\ r.got \in Contents
  /\ \A at \in Steps, media \in BOOLEAN, listed \in [Files -> 0 .. MaxLen], todo \in SUBSET Files,
       file \in Files \cup {None}, got \in Contents :
       Rec(at, media, listed, todo, file, got) \in FetchRecord
<1>1. \A r \in FetchRecord :
       /\ r.at \in Steps /\ r.media \in BOOLEAN /\ r.listed \in [Files -> 0 .. MaxLen]
       /\ r.todo \in SUBSET Files /\ r.file \in Files \cup {None} /\ r.got \in Contents
  BY DEF FetchRecord
<1>2. \A at \in Steps, media \in BOOLEAN, listed \in [Files -> 0 .. MaxLen], todo \in SUBSET Files,
       file \in Files \cup {None}, got \in Contents :
       Rec(at, media, listed, todo, file, got) \in FetchRecord
  BY DEF FetchRecord, Rec
<1> QED
  BY <1>1, <1>2

LEMMA RecFields ==
  \A at, media, listed, todo, file, got :
    LET r == Rec(at, media, listed, todo, file, got)
    IN r.media = media /\ r.listed = listed /\ r.todo = todo
BY DEF Rec

LEMMA ServerTypes ==
  ASSUME TypeOK, NEW f \in Files, NEW n \in 0 .. MaxLen,
         Grow(f) \/ Completed(f) \/ Rewrite(f) \/ Truncated(f, n)
  PROVE  TypeOK'
<1> USE CacheAssumption DEF TypeOK
<1>0. Next
  BY DEF Next
<1>1. /\ stored' \in [Files -> Seq(1 .. MaxLen)]
      /\ \A g \in Files : Version(g)' <= MaxVersion /\ Version(g)' \in Nat /\ Version(g) \in Nat
      /\ \A g \in Files : Uploaded(g) => Uploaded(g)'
  BY <1>0, StoredGrows, PastStays DEF Version
<1>2. \A g \in Files : Uploaded(g) => Size(g) \in 1 .. MaxLen
  <2> SUFFICES ASSUME NEW g \in Files, Uploaded(g) PROVE Size(g) \in 1 .. MaxLen
    OBVIOUS
  <2>1. Version(g) \in 1 .. Version(g)
    BY <1>1 DEF Uploaded
  <2> QED
    BY <2>1, Lengths DEF Size
<1>3. /\ remote' \in [Files -> 0 .. MaxLen]
      /\ \A g \in Files : IF Uploaded(g)' THEN remote'[g] <= Size(g)' ELSE remote'[g] = 0
  <2>1. CASE Grow(f) \/ Rewrite(f)
    <3>1. \A g \in Files : g # f => stored'[g] = stored[g] /\ remote'[g] = remote[g]
      BY <2>1 DEF Grow, Rewrite
    <3>2. stored'[f] \in Seq(1 .. MaxLen) /\ Len(stored'[f]) \in Nat /\ Len(stored'[f]) > 0
      <4>1. stored'[f] \in Seq(1 .. MaxLen) /\ Len(stored'[f]) \in Nat
        BY <1>1
      <4>2. CASE Uploaded(f)
        BY <1>1, <4>1, <4>2 DEF Uploaded, Version
      <4>3. CASE ~Uploaded(f)
        <5>1. stored' = [stored EXCEPT ![f] = <<1>>]
          BY <2>1, <4>3 DEF Grow, Rewrite
        <5>2. stored'[f] = <<1>>
          BY <5>1
        <5> QED
          BY <4>1, <5>2
      <4> QED
        BY <4>1, <4>2, <4>3
    <3>3. stored'[f][Len(stored'[f])] \in 1 .. MaxLen
      BY <3>2, ElementOfSeq
    <3>4. remote' = [remote EXCEPT ![f] = stored'[f][Len(stored'[f])]]
      <4>1. CASE Grow(f)
        BY <4>1 DEF Grow
      <4>2. CASE Rewrite(f)
        <5>1. stored'[f] = Append(stored[f], 1)
          BY <4>2 DEF Rewrite
        <5>2. stored'[f][Len(stored'[f])] = 1
          BY <5>1
        <5> QED
          BY <4>2, <5>2 DEF Rewrite
      <4> QED
        BY <2>1, <4>1, <4>2
    <3>5. remote' \in [Files -> 0 .. MaxLen] /\ remote'[f] = Size(f)' /\ Uploaded(f)'
      BY <3>2, <3>3, <3>4 DEF Size, Version, Uploaded
    <3>6. remote'[f] <= remote'[f]
      BY <3>3, <3>4
    <3> QED
      BY <3>1, <3>5, <3>6 DEF Uploaded, Version, Size
  <2>2. CASE Completed(f)
    BY <1>2, <2>2 DEF Completed, Uploaded, Version, Size
  <2>3. CASE Truncated(f, n)
    <3>1. Size(f) \in 1 .. MaxLen /\ n <= Size(f)
      BY <1>2, <2>3 DEF Truncated
    <3> QED
      BY <2>3, <3>1 DEF Truncated, Uploaded, Version, Size
  <2> QED
    BY <2>1, <2>2, <2>3
<1> QED
  BY <1>1, <1>3 DEF Grow, Completed, Rewrite, Truncated, Local

(* What a step makes of the fetch, field by field.                         *)
LEMMA OthersStay ==
  ASSUME fetch \in [Fetchers -> FetchRecord], NEW d \in Fetchers, Fetch(d) \/ Stop(d) \/ RemoveRun(d)
  PROVE  /\ fetch' = [e \in Fetchers |-> fetch'[e]]
         /\ \A e \in Fetchers \ {d} : fetch'[e] = fetch[e]
BY DEF Fetch, List, Look, Download, Compare, Write, Link, Done, Stop, RemoveRun, Outside

LEMMA Listed ==
  ASSUME fetch \in [Fetchers -> FetchRecord], NEW d \in Fetchers, NEW media \in BOOLEAN,
         List(d, media)
  PROVE  fetch'[d] = Rec("file", media, remote,
                      {f \in IF media THEN Files ELSE Light : Uploaded(f)},
                      None, <<>>)
BY DEF List, Idle, FetchRecord, Rec

LEMMA Looked ==
  ASSUME fetch \in [Fetchers -> FetchRecord], NEW d \in Fetchers, NEW f \in Files, Look(d, f)
  PROVE  \E at \in {"download", "link"} :
           fetch'[d] = Rec(at, fetch[d].media, fetch[d].listed,
                        fetch[d].todo, f, fetch[d].got)
BY ZenonT(60) DEF Look, FetchRecord, Rec

LEMMA Downloaded ==
  ASSUME fetch \in [Fetchers -> FetchRecord], NEW d \in Fetchers, Download(d)
  PROVE  fetch'[d] = Rec("compare", fetch[d].media, fetch[d].listed,
                      fetch[d].todo, fetch[d].file, Remote(File(d)))
BY DEF Download, FetchRecord, Rec

LEMMA ComparedWith ==
  ASSUME fetch \in [Fetchers -> FetchRecord], NEW d \in Fetchers, Compare(d)
  PROVE  LET fits == Extends(cache[File(d)], fetch[d].got)
         IN fetch'[d] = Rec(IF fits THEN "append" ELSE "replace", fetch[d].media,
                         fetch[d].listed, fetch[d].todo,
                         fetch[d].file,
                         IF fits THEN TailAfter(cache[File(d)], fetch[d].got)
                                 ELSE fetch[d].got)
BY DEF Compare, FetchRecord, Rec

LEMMA Written ==
  ASSUME fetch \in [Fetchers -> FetchRecord], NEW d \in Fetchers, Write(d)
  PROVE  fetch'[d] = Rec("link", fetch[d].media, fetch[d].listed,
                      fetch[d].todo, fetch[d].file, <<>>)
BY DEF Write, FetchRecord, Rec

LEMMA LinkMade ==
  ASSUME fetch \in [Fetchers -> FetchRecord], NEW d \in Fetchers, Link(d)
  PROVE  fetch'[d] = Rec("file", fetch[d].media, fetch[d].listed,
                      fetch[d].todo \ {File(d)}, None, fetch[d].got)
BY ZenonT(60) DEF Link, FetchRecord, File, Rec

(* What is written is the beginning of a version.                          *)
LEMMA WrittenPast ==
  ASSUME Sound, NEW d \in Fetchers, Write(d)
  PROVE  /\ File(d) \in Files
         /\ \E s \in Contents : Past(File(d), s) /\ cache' = [cache EXCEPT ![File(d)] = s]
<1>1. At(d, "append") \/ At(d, "replace")
  BY DEF Write
<1>2. File(d) \in Files
  <2>1. fetch[d].todo \in SUBSET Files
    BY DEF Sound, TypeOK
  <2> QED
    BY <1>1, <2>1 DEF Sound, InHand, At
<1>3. CASE At(d, "append")
  <2> DEFINE f == File(d)
             got == fetch[d].got
  <2>1. cache[f] # None /\ Continues(f, cache[f], got)
    BY <1>3 DEF Sound, InHand
  <2>2. 0 \in 0 .. Len(got)
    BY <2>1, EventsAre DEF Continues
  <2>3. Past(f, cache[f] \o got)
    BY <1>2, <2>1, <2>2, AppendedPast DEF Sound
  <2>4. cache[f] \o got \in Contents
    BY <1>2, <2>3, PastContents DEF Sound
  <2>5. cache' = [cache EXCEPT ![f] = cache[f] \o got]
    BY <1>3, <2>1 DEF Write, Appended
  <2> QED
    BY <1>2, <2>3, <2>4, <2>5
<1>4. CASE At(d, "replace")
  <2>1. Past(File(d), fetch[d].got)
    BY <1>4 DEF Sound, InHand
  <2>2. fetch[d].got \in Contents
    BY <1>2, <2>1, PastContents DEF Sound
  <2>3. cache' = [cache EXCEPT ![File(d)] = fetch[d].got]
    BY <1>4 DEF Write, At
  <2> QED
    BY <1>2, <2>1, <2>2, <2>3
<1> QED
  BY <1>1, <1>3, <1>4, <1>2

LEMMA StoppedPast ==
  ASSUME Sound, NEW d \in Fetchers, Stop(d)
  PROVE  \/ UNCHANGED cache
         \/ /\ File(d) \in Files
            /\ \E s \in Contents : Past(File(d), s) /\ cache' = [cache EXCEPT ![File(d)] = s]
<1> SUFFICES ASSUME At(d, "append"), NEW n \in 0 .. Len(fetch[d].got),
               cache' = [cache EXCEPT ![File(d)] = Appended(File(d), SubSeq(fetch[d].got, 1, n))]
             PROVE  /\ File(d) \in Files
                    /\ \E s \in Contents :
                         Past(File(d), s) /\ cache' = [cache EXCEPT ![File(d)] = s]
  BY DEF Stop
<1> DEFINE f == File(d)
           part == SubSeq(fetch[d].got, 1, n)
<1>1. f \in Files
  <2>1. fetch[d].todo \in SUBSET Files
    BY DEF Sound, TypeOK
  <2> QED
    BY <2>1 DEF Sound, InHand, At
<1>2. cache[f] # None /\ Continues(f, cache[f], fetch[d].got)
  BY DEF Sound, InHand
<1>3. Past(f, cache[f] \o part)
  BY <1>1, <1>2, AppendedPast DEF Sound
<1>4. cache[f] \o part \in Contents
  BY <1>1, <1>3, PastContents DEF Sound
<1>5. cache' = [cache EXCEPT ![f] = cache[f] \o part]
  BY <1>2 DEF Appended
<1> QED
  BY <1>1, <1>3, <1>4, <1>5

LEMMA FetchTypes ==
  ASSUME Sound, NEW d \in Fetchers, Fetch(d) \/ Stop(d) \/ RemoveRun(d)
  PROVE  TypeOK'
<1>1. UNCHANGED <<stored, remote, copying, stable>>
  BY DEF Fetch, List, Look, Download, Compare, Write, Link, Done, Stop, RemoveRun, Outside
<1>2. /\ cache \in [Files -> Contents \cup {None}] /\ fetch \in [Fetchers -> FetchRecord]
      /\ linked \in [Light -> {"none", "right", "wrong"}] /\ remote \in [Files -> 0 .. MaxLen]
  BY DEF Sound, TypeOK, FetchRecord, Steps
<1>3. fetch[d] \in FetchRecord
  BY <1>2
<1>4. ASSUME cache' \in [Files -> Contents \cup {None}],
             linked' \in [Light -> {"none", "right", "wrong"}],
             fetch'[d] \in FetchRecord
      PROVE  TypeOK'
  <2>1. fetch' \in [Fetchers -> FetchRecord]
    BY <1>2, <1>4, OthersStay
  <2> QED
    BY <1>1, <1>4, <2>1 DEF Sound, TypeOK, FetchRecord, Steps, Version, Uploaded, Size
<1>5. ~At(d, "idle") /\ ~At(d, "file") => File(d) \in Files /\ Uploaded(File(d))
  BY <1>3, Fields DEF Sound, InHand, File
<1>6. ASSUME NEW media \in BOOLEAN, List(d, media) PROVE TypeOK'
  <2>1. fetch'[d] \in FetchRecord
    <3> DEFINE todo == {f \in IF media THEN Files ELSE Light : Uploaded(f)}
    <3>1. todo \in SUBSET Files /\ "file" \in Steps /\ None \in Files \cup {None}
      BY DEF Files, Steps
    <3>2. fetch'[d] = Rec("file", media, remote, todo, None, <<>>)
      BY <1>2, <1>6, Listed
    <3> HIDE DEF todo
    <3>3. Rec("file", media, remote, todo, None, <<>>) \in FetchRecord
      BY <1>2, <3>1, NothingYet, Fields
    <3> QED
      BY <3>2, <3>3
  <2> QED
    BY <1>2, <1>4, <1>6, <2>1 DEF List
<1>7. ASSUME NEW f \in Files, Look(d, f) PROVE TypeOK'
  <2>1. fetch'[d] \in FetchRecord
    BY <1>2, <1>3, <1>7, Looked, Fields DEF Steps
  <2> QED
    BY <1>2, <1>4, <1>7, <2>1 DEF Look
<1>8. CASE Download(d)
  <2>1. Remote(File(d)) \in Contents
    BY <1>5, <1>8, RemotePast, PastContents DEF Sound, Download, At
  <2>2. fetch'[d] \in FetchRecord
    BY <1>2, <1>3, <1>8, <2>1, Downloaded, Fields DEF Steps
  <2> QED
    BY <1>2, <1>4, <1>8, <2>2 DEF Download
<1>9. CASE Compare(d)
  <2> DEFINE held == cache[File(d)]
             got == fetch[d].got
             tail == TailAfter(held, got)
  <2>1. got \in Contents /\ File(d) \in Files /\ Past(File(d), got)
    BY <1>3, <1>5, <1>9, Fields DEF Compare, At, Sound, InHand
  <2>2. Extends(held, got) => tail \in Contents
    <3> SUFFICES ASSUME Extends(held, got) PROVE tail \in Contents
      OBVIOUS
    <3>1. held \in Contents /\ IsPrefix(held, got)
      BY <1>2, <2>1 DEF Extends
    <3>2. Continues(File(d), held, tail)
      BY <2>1, <3>1, TailContinues DEF Sound
    <3>3. 0 \in 0 .. Len(tail)
      BY <3>2, EventsAre DEF Continues
    <3> QED
      BY <2>1, <3>2, <3>3, AppendedPast DEF Sound
  <2> HIDE DEF tail, held, got
  <2>3. fetch'[d] \in FetchRecord
    BY <1>2, <1>3, <1>9, <2>1, <2>2, ComparedWith, Fields DEF Steps, held, got, tail
  <2> QED
    BY <1>2, <1>4, <1>9, <2>3 DEF Compare
<1>10. CASE Write(d)
  <2>1. fetch'[d] \in FetchRecord
    <3>1. /\ fetch[d].media \in BOOLEAN /\ fetch[d].listed \in [Files -> 0 .. MaxLen]
          /\ fetch[d].todo \in SUBSET Files /\ fetch[d].file \in Files \cup {None}
      BY <1>3, Fields
    <3>2. "link" \in Steps
      BY DEF Steps
    <3>3. Rec("link", fetch[d].media, fetch[d].listed, fetch[d].todo, fetch[d].file, <<>>)
            \in FetchRecord
      BY <3>1, <3>2, NothingYet, Fields
    <3> QED
      BY <1>2, <1>10, <3>3, Written
  <2>2. cache' \in [Files -> Contents \cup {None}]
    BY <1>2, <1>10, WrittenPast
  <2> QED
    BY <1>2, <1>4, <1>10, <2>1, <2>2 DEF Write
<1>11. CASE Link(d)
  <2>1. fetch'[d] \in FetchRecord
    <3>1. /\ fetch[d].media \in BOOLEAN /\ fetch[d].listed \in [Files -> 0 .. MaxLen]
          /\ fetch[d].todo \in SUBSET Files /\ fetch[d].got \in Contents
      BY <1>3, Fields
    <3>2. "file" \in Steps /\ None \in Files \cup {None}
          /\ fetch[d].todo \ {File(d)} \in SUBSET Files
      BY <3>1 DEF Steps
    <3>3. Rec("file", fetch[d].media, fetch[d].listed, fetch[d].todo \ {File(d)}, None,
              fetch[d].got) \in FetchRecord
      BY <3>1, <3>2, Fields
    <3> QED
      BY <1>2, <1>11, <3>3, LinkMade
  <2>2. linked' \in [Light -> {"none", "right", "wrong"}]
    BY <1>2, <1>11 DEF Link, Linked, File
  <2> QED
    BY <1>2, <1>4, <1>11, <2>1, <2>2 DEF Link
<1>12. CASE Done(d)
  <2>1. fetch'[d] \in FetchRecord
    BY <1>2, <1>12, IdleType DEF Done
  <2> QED
    BY <1>2, <1>4, <1>12, <2>1 DEF Done
<1>13. CASE Stop(d)
  <2>1. fetch'[d] \in FetchRecord
    BY <1>2, <1>13, IdleType DEF Stop
  <2>2. cache' \in [Files -> Contents \cup {None}]
    BY <1>2, <1>13, StoppedPast
  <2> QED
    BY <1>2, <1>4, <1>13, <2>1, <2>2 DEF Stop
<1>14. CASE RemoveRun(d)
  BY <1>2, <1>3, <1>4, <1>14 DEF RemoveRun
<1> QED
  BY <1>6, <1>7, <1>8, <1>9, <1>10, <1>11, <1>12, <1>13, <1>14 DEF Fetch
-----------------------------------------------------------------------------
(* What is here stays genuine, and what is in hand fits it.                *)

LEMMA ServerKeeps ==
  ASSUME Sound, Next, UNCHANGED <<cache, fetch>>
  PROVE  Genuine' /\ InHand'
<1>1. Genuine'
  <2>1. \A f \in Files : cache[f] # None => Past(f, cache[f])
    BY DEF Sound, Genuine, Past
  <2>2. ASSUME NEW f \in Files, NEW s, s = cache[f], s # None PROVE Past(f, s)'
    BY <2>1, <2>2, PastStays DEF Sound
  <2> QED
    BY <2>2 DEF Genuine, Past, Version
<1>2. InHand'
  <2> SUFFICES ASSUME NEW d \in Fetchers
               PROVE  LET f == File(d)
                          got == fetch[d].got
                      IN /\ \A g \in fetch[d].todo : Uploaded(g)'
                         /\ ~At(d, "idle") /\ ~At(d, "file") => f \in fetch[d].todo
                         /\ At(d, "compare") \/ At(d, "replace") =>
                              \A h, t : h = f /\ t = got => Past(h, t)'
                         /\ At(d, "append") => /\ cache[f] # None
                              /\ \A h, s, t : h = f /\ s = cache[f] /\ t = got => Continues(h, s, t)'
                         /\ At(d, "link") => cache[f] # None
    BY DEF InHand, At, File, Past, Continues, Uploaded, Version
  <2> DEFINE f == File(d)
             got == fetch[d].got
  <2>1. fetch[d].todo \in SUBSET Files
    BY DEF Sound, TypeOK
  <2>2. \A g \in fetch[d].todo : Uploaded(g)'
    BY <2>1, PastStays DEF Sound, InHand
  <2>3. ASSUME At(d, "compare") \/ At(d, "replace"), NEW h, NEW t, h = f, t = got
        PROVE  Past(h, t)'
    <3>1. h \in Files /\ Past(h, t)
      BY <2>1, <2>3 DEF Sound, InHand, At
    <3> QED
      BY <3>1, PastStays DEF Sound
  <2>4. ASSUME At(d, "append"), NEW h, NEW s, NEW t, h = f, s = cache[f], t = got
        PROVE  Continues(h, s, t)'
    <3>1. h \in Files /\ Continues(h, s, t)
      BY <2>1, <2>4 DEF Sound, InHand, At
    <3> QED
      BY <3>1, PastStays DEF Sound
  <2>5. /\ ~At(d, "idle") /\ ~At(d, "file") => f \in fetch[d].todo
        /\ At(d, "append") \/ At(d, "link") => cache[f] # None
    BY DEF Sound, InHand
  <2> QED
    BY <2>2, <2>3, <2>4, <2>5
<1> QED
  BY <1>1, <1>2

LEMMA CacheGenuine ==
  ASSUME Genuine, UNCHANGED stored,
         \A f \in Files : \/ cache'[f] = None \/ cache'[f] = cache[f]
                          \/ \E s : cache'[f] = s /\ Past(f, s)
  PROVE  Genuine'
BY DEF Genuine, Past, Version

LEMMA HandOf ==
  ASSUME OneFetcher, UNCHANGED stored, NEW d \in Fetchers,
         NEW at, NEW media, NEW listed, NEW todo, NEW file, NEW got,
         fetch'[d] = Rec(at, media, listed, todo, file, got),
         \A g \in todo : Uploaded(g),
         at \notin {"idle", "file"} => file \in todo,
         at \in {"compare", "replace"} => Past(file, got),
         at = "append" => \E held : held = cache'[file] /\ held # None /\ Continues(file, held, got),
         at = "link" => cache'[file] # None
  PROVE  InHand'
<1>1. \A e \in Fetchers : e = d
  BY DEF OneFetcher
<1>2. /\ fetch'[d].at = at /\ fetch'[d].todo = todo /\ fetch'[d].file = file
      /\ fetch'[d].got = got
  BY DEF Rec
<1> QED
  BY <1>1, <1>2 DEF InHand, At, File, Past, Continues, Uploaded, Version

LEMMA FetchKeeps ==
  ASSUME OneFetcher, Sound, NEW d \in Fetchers, Fetch(d) \/ Stop(d) \/ RemoveRun(d)
  PROVE  Genuine' /\ InHand'
<1>1. /\ fetch \in [Fetchers -> FetchRecord] /\ cache \in [Files -> Contents \cup {None}]
      /\ Genuine /\ TypeOK /\ InHand
  BY DEF Sound, TypeOK, FetchRecord, Steps
<1>2. UNCHANGED stored
  BY DEF Fetch, List, Look, Download, Compare, Write, Link, Done, Stop, RemoveRun, Outside
<1>3. /\ \A g \in fetch[d].todo : Uploaded(g)
      /\ ~At(d, "idle") /\ ~At(d, "file") => fetch[d].file \in fetch[d].todo
      /\ fetch[d].todo \in SUBSET Files
  BY <1>1 DEF InHand, File, TypeOK
<1>4. ASSUME UNCHANGED cache PROVE Genuine'
  BY <1>1, <1>2, <1>4, CacheGenuine
<1>5. ASSUME fetch'[d] = Idle PROVE InHand'
  <2>1. fetch'[d].at = "idle" /\ fetch'[d].todo = {} /\ \A e \in Fetchers : e = d
    BY <1>5 DEF Idle, OneFetcher
  <2> QED
    BY <2>1 DEF InHand, At
<1>6. ASSUME NEW media \in BOOLEAN, List(d, media) PROVE Genuine' /\ InHand'
  <2> DEFINE todo == {f \in IF media THEN Files ELSE Light : Uploaded(f)}
  <2>1. fetch'[d] = Rec("file", media, remote, todo, None, <<>>)
    BY <1>1, <1>6, Listed
  <2>2. \A g \in todo : Uploaded(g)
    OBVIOUS
  <2> HIDE DEF todo
  <2>3. InHand'
    BY <1>2, <2>1, <2>2, HandOf
  <2> QED
    BY <1>4, <1>6, <2>3 DEF List
<1>7. ASSUME NEW f \in Files, Look(d, f) PROVE Genuine' /\ InHand'
  <2>1. PICK at \in {"download", "link"} :
          fetch'[d] = Rec(at, fetch[d].media, fetch[d].listed, fetch[d].todo, f, fetch[d].got)
    BY <1>1, <1>7, Looked
  <2>2. f \in fetch[d].todo /\ UNCHANGED cache
    BY <1>7 DEF Look
  <2>3. at = "link" => cache[f] # None
    BY <1>1, <1>7, <2>1 DEF Look, Longer, Rec
  <2>4. InHand'
    BY <1>2, <1>3, <2>1, <2>2, <2>3, HandOf
  <2> QED
    BY <1>4, <2>2, <2>4
<1>8. CASE Download(d)
  <2>1. Past(fetch[d].file, Remote(File(d))) /\ fetch[d].file \in fetch[d].todo
    BY <1>1, <1>3, <1>8, RemotePast DEF Download, At, File
  <2>2. InHand'
    BY <1>1, <1>2, <1>3, <1>8, <2>1, Downloaded, HandOf
  <2> QED
    BY <1>4, <1>8, <2>2 DEF Download
<1>9. CASE Compare(d)
  <2> DEFINE held == cache[File(d)]
             got == fetch[d].got
  <2>1. File(d) \in Files /\ Past(File(d), got) /\ fetch[d].file \in fetch[d].todo
    BY <1>1, <1>3, <1>9 DEF Compare, At, InHand, File
  <2>2. UNCHANGED cache
    BY <1>9 DEF Compare
  <2>3. CASE Extends(held, got)
    <3>1. held \in Contents /\ held # None /\ IsPrefix(held, got)
      BY <1>1, <2>1, <2>3 DEF Extends
    <3>2. Continues(File(d), held, TailAfter(held, got))
      BY <1>1, <2>1, <3>1, TailContinues
    <3>3. fetch'[d] = Rec("append", fetch[d].media, fetch[d].listed, fetch[d].todo,
                          fetch[d].file, TailAfter(held, got))
      BY <1>1, <1>9, <2>3, ComparedWith
    <3>4. held = cache'[fetch[d].file] /\ File(d) = fetch[d].file
      BY <2>2 DEF File
    <3> HIDE DEF held, got
    <3> QED
      BY <1>2, <1>3, <1>4, <2>1, <2>2, <3>1, <3>2, <3>3, <3>4, HandOf
  <2>4. CASE ~Extends(held, got)
    <3>1. fetch'[d] = Rec("replace", fetch[d].media, fetch[d].listed, fetch[d].todo,
                          fetch[d].file, got)
      BY <1>1, <1>9, <2>4, ComparedWith
    <3>2. File(d) = fetch[d].file
      BY DEF File
    <3> HIDE DEF held, got
    <3> QED
      BY <1>2, <1>3, <1>4, <2>1, <2>2, <3>1, <3>2, HandOf
  <2> QED
    BY <2>3, <2>4
<1>10. CASE Write(d)
  <2>1. File(d) \in Files /\ File(d) = fetch[d].file /\ fetch[d].file \in fetch[d].todo
    BY <1>3, <1>10, WrittenPast DEF Write, At, File
  <2>2. PICK s \in Contents : Past(File(d), s) /\ cache' = [cache EXCEPT ![File(d)] = s]
    BY <1>10, WrittenPast
  <2>3. cache'[File(d)] = s /\ \A f \in Files \ {File(d)} : cache'[f] = cache[f]
    BY <1>1, <2>1, <2>2
  <2>4. s # None
    BY CacheAssumption
  <2>5. Genuine'
    BY <1>1, <1>2, <2>2, <2>3, CacheGenuine
  <2>6. InHand'
    BY <1>1, <1>2, <1>3, <1>10, <2>1, <2>3, <2>4, Written, HandOf
  <2> QED
    BY <2>5, <2>6
<1>11. CASE Link(d)
  <2> DEFINE todo == fetch[d].todo \ {File(d)}
  <2>1. fetch'[d] = Rec("file", fetch[d].media, fetch[d].listed, todo, None, fetch[d].got)
    BY <1>1, <1>11, LinkMade
  <2>2. \A g \in todo : Uploaded(g)
    BY <1>3
  <2> HIDE DEF todo
  <2>3. InHand'
    BY <1>2, <2>1, <2>2, HandOf
  <2> QED
    BY <1>4, <1>11, <2>3 DEF Link
<1>12. CASE Done(d)
  BY <1>1, <1>4, <1>5, <1>12 DEF Done
<1>13. CASE Stop(d)
  <2>1. InHand'
    BY <1>1, <1>5, <1>13 DEF Stop
  <2>2. CASE UNCHANGED cache
    BY <1>4, <2>1, <2>2
  <2>3. ASSUME File(d) \in Files, NEW s \in Contents, Past(File(d), s),
               cache' = [cache EXCEPT ![File(d)] = s]
        PROVE  Genuine'
    <3>1. cache'[File(d)] = s /\ \A f \in Files \ {File(d)} : cache'[f] = cache[f]
      BY <1>1, <2>3
    <3> QED
      BY <1>1, <1>2, <2>3, <3>1, CacheGenuine
  <2> QED
    BY <1>13, <2>1, <2>2, <2>3, StoppedPast
<1>14. CASE RemoveRun(d)
  <2>1. Genuine'
    BY <1>14 DEF RemoveRun, Genuine
  <2>2. \A e \in Fetchers : e = d /\ fetch'[e] = fetch[e]
    BY <1>14 DEF RemoveRun, OneFetcher
  <2>3. InHand'
    BY <1>1, <1>2, <1>14, <2>2
    DEF RemoveRun, InHand, At, File, Uploaded, Version
  <2> QED
    BY <2>1, <2>3
<1> QED
  BY <1>6, <1>7, <1>8, <1>9, <1>10, <1>11, <1>12, <1>13, <1>14 DEF Fetch
-----------------------------------------------------------------------------
(* What a fetch is done with can be viewed.                                *)

(* What is here, and the links to it, stay while a fetch goes on.          *)
LEMMA ViewableStays ==
  ASSUME NEW f \in Files, Viewable(f), UNCHANGED copying,
         cache[f] # None => cache'[f] # None,
         f \in Light => linked'[f] = linked[f] \/ linked'[f] = "right"
  PROVE  Viewable(f)'
BY DEF Viewable

LEMMA ReachedOf ==
  ASSUME OneFetcher, Reached, UNCHANGED copying, NEW d \in Fetchers,
         ~At(d, "idle"), fetch'[d].media = fetch[d].media, fetch'[d].listed = fetch[d].listed,
         \A f \in Files : f \in fetch[d].todo => f \in fetch'[d].todo \/ Viewable(f)',
         \A f \in Files : cache[f] # None => cache'[f] # None,
         \A f \in Light : linked'[f] = linked[f] \/ linked'[f] = "right"
  PROVE  Reached'
<1> SUFFICES ASSUME NEW f \in Files, f \in Light \/ fetch'[d].media, fetch'[d].listed[f] > 0
             PROVE  f \in fetch'[d].todo \/ Viewable(f)'
  <2>1. \A e \in Fetchers : e = d
    BY DEF OneFetcher
  <2> QED
    BY <2>1 DEF Reached, Viewable
<1>1. f \in fetch[d].todo \/ Viewable(f)
  BY DEF Reached
<1>2. Viewable(f) => Viewable(f)'
  BY ViewableStays
<1> QED
  BY <1>1, <1>2

LEMMA StepReached ==
  ASSUME OneFetcher, Sound, Reached, [Next]_vars
  PROVE  Reached'
<1>1. /\ fetch \in [Fetchers -> FetchRecord] /\ cache \in [Files -> Contents \cup {None}]
      /\ linked \in [Light -> {"none", "right", "wrong"}]
  BY DEF Sound, TypeOK, FetchRecord, Steps
<1>2. ASSUME UNCHANGED Local PROVE Reached'
  BY <1>2 DEF Local, Reached, At, Viewable
<1>3. ASSUME NEW d \in Fetchers, At(d, "idle")' PROVE Reached'
  BY <1>3 DEF OneFetcher, Reached, At
<1>4. ASSUME NEW d \in Fetchers, NEW media \in BOOLEAN, List(d, media) PROVE Reached'
  <2> DEFINE todo == {f \in IF media THEN Files ELSE Light : Uploaded(f)}
  <2>1. fetch'[d] = Rec("file", media, remote, todo, None, <<>>)
    BY <1>1, <1>4, Listed
  <2>2. \A f \in Files : (f \in Light \/ media) /\ remote[f] > 0 => f \in todo
    <3>1. \A f \in Files : ~Uploaded(f) => remote[f] = 0
      BY DEF Sound, TypeOK
    <3> QED
      BY <3>1
  <2> HIDE DEF todo
  <2>3. fetch'[d].media = media /\ fetch'[d].listed = remote /\ fetch'[d].todo = todo
    BY <2>1 DEF Rec
  <2> QED
    BY <2>2, <2>3 DEF OneFetcher, Reached
<1>5. ASSUME NEW d \in Fetchers, NEW f \in Files, Look(d, f) PROVE Reached'
  <2>1. fetch'[d].media = fetch[d].media /\ fetch'[d].listed = fetch[d].listed
        /\ fetch'[d].todo = fetch[d].todo
    BY <1>1, <1>5, Looked, RecFields
  <2> QED
    BY <1>5, <2>1, ReachedOf DEF Look, Outside, At
<1>6. ASSUME NEW d \in Fetchers, Download(d) PROVE Reached'
  <2>1. fetch'[d].media = fetch[d].media /\ fetch'[d].listed = fetch[d].listed
        /\ fetch'[d].todo = fetch[d].todo
    BY <1>1, <1>6, Downloaded, RecFields
  <2> QED
    BY <1>6, <2>1, ReachedOf DEF Download, Outside, At
<1>7. ASSUME NEW d \in Fetchers, Compare(d) PROVE Reached'
  <2>1. fetch'[d].media = fetch[d].media /\ fetch'[d].listed = fetch[d].listed
        /\ fetch'[d].todo = fetch[d].todo
    BY <1>1, <1>7, ComparedWith, RecFields
  <2> QED
    BY <1>7, <2>1, ReachedOf DEF Compare, Outside, At
<1>8. ASSUME NEW d \in Fetchers, Write(d) PROVE Reached'
  <2>1. fetch'[d].media = fetch[d].media /\ fetch'[d].listed = fetch[d].listed
        /\ fetch'[d].todo = fetch[d].todo
    BY <1>1, <1>8, Written, RecFields
  <2>2. \A f \in Files : cache[f] # None => cache'[f] # None
    <3>1. PICK s \in Contents : cache' = [cache EXCEPT ![File(d)] = s]
      BY <1>8, WrittenPast
    <3>2. s # None
      BY CacheAssumption
    <3> QED
      BY <1>1, <3>1, <3>2
  <2> QED
    BY <1>8, <2>1, <2>2, ReachedOf DEF Write, Outside, At
<1>9. ASSUME NEW d \in Fetchers, Link(d) PROVE Reached'
  <2>1. fetch'[d].media = fetch[d].media /\ fetch'[d].listed = fetch[d].listed
        /\ fetch'[d].todo = fetch[d].todo \ {File(d)}
    <3>1. fetch'[d] = Rec("file", fetch[d].media, fetch[d].listed, fetch[d].todo \ {File(d)},
                          None, fetch[d].got)
      BY <1>1, <1>9, LinkMade
    <3> QED
      BY ONLY <3>1, RecFields
  <2>2. cache[File(d)] # None /\ UNCHANGED <<cache, copying>>
    BY <1>9 DEF Link, Outside, Sound, InHand
  <2>3. File(d) \in Light /\ ~copying => linked'[File(d)] = "right"
    BY <1>1, <1>9 DEF Link, Linked
  <2>4. \A f \in Light : linked'[f] = linked[f] \/ linked'[f] = "right"
    BY <1>1, <1>9 DEF Link, Linked
  <2>5. \A f \in Files : f \in fetch[d].todo => f \in fetch'[d].todo \/ Viewable(f)'
    BY <2>1, <2>2, <2>3 DEF Viewable
  <2> QED
    BY <1>9, <2>1, <2>2, <2>4, <2>5, ReachedOf DEF Link, At
<1>10. ASSUME NEW d \in Fetchers, Done(d) \/ Stop(d) \/ RemoveRun(d) PROVE Reached'
  BY <1>1, <1>3, <1>10 DEF Done, Stop, RemoveRun, Idle, At
<1>11. CASE Next
  BY <1>2, <1>4, <1>5, <1>6, <1>7, <1>8, <1>9, <1>10, <1>11
  DEF Next, Fetch, Grow, Completed, Rewrite, Truncated, Stabilise
<1> QED
  BY <1>2, <1>11 DEF vars, Local
-----------------------------------------------------------------------------
LEMMA InitSound == Init => Sound /\ Reached
<1> SUFFICES ASSUME Init PROVE Sound /\ Reached
  OBVIOUS
<1>1. \A f \in Files : Version(f) = 0 /\ remote[f] = 0 /\ cache[f] = None
  BY DEF Init, Version
<1>2. \A d \in Fetchers : fetch[d].at = "idle" /\ fetch[d].todo = {}
  BY DEF Init, Idle
<1>3. TypeOK
  <2>1. fetch \in [Fetchers -> FetchRecord]
    BY IdleType DEF Init
  <2>2. stored \in [Files -> Seq(1 .. MaxLen)] /\ remote \in [Files -> 0 .. MaxLen]
    <3>1. 0 \in 0 .. MaxLen /\ <<>> \in Seq(1 .. MaxLen)
      BY CacheAssumption
    <3>2. [f \in Files |-> <<>>] \in [Files -> Seq(1 .. MaxLen)]
      BY <3>1
    <3>3. [f \in Files |-> 0] \in [Files -> 0 .. MaxLen]
      BY <3>1
    <3> QED
      BY <3>2, <3>3 DEF Init
  <2>3. \A f \in Files : /\ Version(f) <= MaxVersion
                         /\ IF Uploaded(f) THEN remote[f] <= Size(f) ELSE remote[f] = 0
    BY <1>1, CacheAssumption DEF Uploaded
  <2>4. /\ cache \in [Files -> Contents \cup {None}]
        /\ linked \in [Light -> {"none", "right", "wrong"}]
        /\ copying \in BOOLEAN /\ stable \in BOOLEAN
    BY DEF Init
  <2> QED
    BY <2>1, <2>2, <2>3, <2>4 DEF TypeOK, FetchRecord, Steps
<1> QED
  BY <1>1, <1>2, <1>3 DEF Sound, Genuine, InHand, Reached, At

LEMMA StepSound ==
  ASSUME OneFetcher, Sound, [Next]_vars
  PROVE  Sound'
<1>1. ASSUME NEW f \in Files, NEW n \in 0 .. MaxLen,
             Grow(f) \/ Completed(f) \/ Rewrite(f) \/ Truncated(f, n)
      PROVE  Sound'
  <2>1. TypeOK'
    BY <1>1, ServerTypes DEF Sound
  <2>2. Next /\ UNCHANGED <<cache, fetch>>
    BY <1>1 DEF Next, Grow, Completed, Rewrite, Truncated, Local
  <2> QED
    BY <2>1, <2>2, ServerKeeps DEF Sound
<1>2. CASE Stabilise
  <2>1. TypeOK'
    BY <1>2 DEF Stabilise, Sound, TypeOK, Local, Version, Uploaded, Size
  <2>2. Next /\ UNCHANGED <<cache, fetch>>
    BY <1>2 DEF Next, Stabilise, Local
  <2> QED
    BY <2>1, <2>2, ServerKeeps DEF Sound
<1>3. ASSUME NEW d \in Fetchers, Fetch(d) \/ Stop(d) \/ RemoveRun(d) PROVE Sound'
  BY <1>3, FetchTypes, FetchKeeps DEF Sound
<1>4. CASE UNCHANGED vars
  BY <1>4
  DEF vars, Sound, TypeOK, Genuine, InHand, Version, Uploaded, Size, At, File, Past, Continues
<1>5. 0 \in 0 .. MaxLen
  BY CacheAssumption
<1> QED
  BY <1>1, <1>2, <1>3, <1>4, <1>5 DEF Next

LEMMA CacheInvariant ==
  ASSUME OneFetcher
  PROVE  Spec => [](Sound /\ Reached)
<1>1. Sound /\ Reached /\ [Next]_vars => (Sound /\ Reached)'
  BY StepSound, StepReached
<1> QED
  BY InitSound, <1>1, PTL DEF Spec

(* The files that are here, and what a fetch holds, are what they should   *)
(* be: in particular a tail that is appended is the end of a download.     *)
THEOREM TypeCorrect ==
  ASSUME OneFetcher
  PROVE  Spec => []TypeOK
<1>1. Sound => TypeOK
  BY DEF Sound
<1> QED
  BY <1>1, CacheInvariant, PTL

(* What is here of a file is always the beginning of a version of it,      *)
(* whatever fails and however the file changes while it is fetched.        *)
THEOREM GenuineCorrect ==
  ASSUME OneFetcher
  PROVE  Spec => []Genuine
<1>1. Sound => Genuine
  BY DEF Sound
<1> QED
  BY <1>1, CacheInvariant, PTL

(* When a fetch is done, each file it listed is here and is linked.        *)
THEOREM ServedCorrect ==
  ASSUME OneFetcher
  PROVE  Spec => Served
<1>1. Reached =>
        [\A d \in Fetchers :
           At(d, "file") /\ Done(d) =>
             \A f \in Files : (f \in Light \/ fetch[d].media) /\ fetch[d].listed[f] > 0
               => Viewable(f)]_vars
  BY DEF Reached, Done, At
<1> QED
  BY <1>1, CacheInvariant, PTL DEF Served
=============================================================================
