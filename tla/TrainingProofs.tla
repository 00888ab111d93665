--------------------------- MODULE TrainingProofs ----------------------------
(***************************************************************************)
(* How runs end and what a session holds, for any runs, models, threads    *)
(* and bounds.                                                             *)
(*                                                                         *)
(* The blocks of a thread and MLflow's stack move apart, but the runs that *)
(* did not go astray are on both, in the same order (Owned, InOrder): so a *)
(* block that finds its own run on top ends it, and what its body logs     *)
(* goes there.  Causes says which cause a run may carry while its block is *)
(* left.  SessionHonest rests on what a call has done by each of its steps *)
(* (Calls), and on the order in which a claim marks and then copies (Kept).*)
(* Walked holds of every well-typed state; Chain is the invariant of the   *)
(* loop that walks, over its rounds (Least).                               *)
(***************************************************************************)
EXTENDS Training, FiniteSetTheorems, SequenceTheorems, WellFoundedInduction, TLAPS

(* What is on the stack runs; what has an open block was not left.         *)
StackRuns == \A i \in 1 .. Len(stack) : status[stack[i]] = "RUNNING"
BlocksOpen == \A i \in 1 .. Len(blocks) : left[blocks[i]] = "open"

Ended ==
  {<<"open", "none">>, <<"normal", "FINISHED">>, <<"error", "FAILED">>, <<"interrupt", "KILLED">>}
Owned ==
  \A r \in Runs \ astray :
    IF Contains(blocks, r) THEN Contains(stack, r) ELSE <<left[r], status[r]>> \in Ended

InOrder ==
  \A i, j \in 1 .. Len(blocks) : \A k, l \in 1 .. Len(stack) :
    /\ i < j /\ blocks[i] = stack[k] /\ blocks[j] = stack[l]
    /\ blocks[i] \notin astray /\ blocks[j] \notin astray
    => k < l

Exits ==
  /\ exiting # "no" => blocks # <<>>
  /\ exiting = "cause" => raised # None
  /\ exiting = "end" /\ raised # None => cause[Inner] = raised \/ Inner \in refused

Causes ==
  \A r \in Runs :
    /\ left[r] \in Exceptions => cause[r] = left[r] \/ r \in refused
    /\ starts[r] = 0 => ~Contains(blocks, r) /\ left[r] = "open"
    /\ starts[r] <= 1 /\ left[r] \in {"open", "normal"} =>
         cause[r] = None \/ (exiting = "end" /\ raised # None /\ r = Inner)

LInv == TypeOK /\ StackRuns /\ BlocksOpen /\ Owned /\ InOrder /\ Exits /\ Causes
-----------------------------------------------------------------------------
Sent(r, m) == \A b \in 1 .. Batches[m] : <<r, m, b>> \in params

(* The artifact of a model's name is on the server, the model's or another *)
(* that was logged under the name.                                         *)
There(r, m) == \E x \in Models : Name[x] = Name[m] /\ <<r, x>> \in artifacts
Lasting == \A r \in Runs, m \in Models : There(r, m) => There(r, m)'
OnePerName ==
  /\ artifacts \subseteq Runs \X Models
  /\ \A a, b \in artifacts : a[1] = b[1] /\ Name[a[2]] = Name[b[2]] => a = b

Calls ==
  \A t \in Threads :
    LET at == call[t].at
        r == call[t].run
        m == call[t].model
    IN /\ at = "send" => \A b \in 1 .. call[t].batch - 1 : <<r, m, b>> \in params
       /\ at \in {"artifact", "remember", "check"} => Sent(r, m)
       /\ at \in {"remember", "check"} => There(r, m)
       /\ at = "check" => m \in sessions[r]
       /\ at = "copy" => r \in claimed

Kept ==
  /\ \A r \in Runs : \A m \in sessions[r] : There(r, m) /\ Sent(r, m)
  /\ \A l \in logged : l.model \in sessions[l.run]
  /\ \A s \in taken : s[1] \in claimed

PInv == P!TypeOK /\ Calls /\ Kept /\ SessionHonest

(* The blocks wait while their thread is in a call.                        *)
Waiting == call[Main].at # "idle" => Running

TInv ==
  /\ LInv /\ PInv /\ Waiting /\ LandsInBlock
  /\ callsLeft \in [Threads -> 0 .. MaxCalls] /\ body \subseteq Runs \X Runs
-----------------------------------------------------------------------------
(* Sequences that lose or gain their last element.                         *)

LEMMA Pushed ==
  ASSUME NEW S, NEW s \in Seq(S), NEW e \in S
  PROVE  /\ Append(s, e) \in Seq(S) /\ Len(s) \in Nat /\ Len(Append(s, e)) = Len(s) + 1
         /\ \A i \in 1 .. Len(s) : Append(s, e)[i] = s[i] /\ s[i] \in S
         /\ Append(s, e)[Len(s) + 1] = e
         /\ \A i \in 1 .. Len(s) + 1 : i \in 1 .. Len(s) \/ i = Len(s) + 1
         /\ \A x : Contains(Append(s, e), x) <=> Contains(s, x) \/ x = e
<1>1. /\ Append(s, e) \in Seq(S) /\ Len(s) \in Nat /\ Len(Append(s, e)) = Len(s) + 1
      /\ \A i \in 1 .. Len(s) : Append(s, e)[i] = s[i] /\ s[i] \in S
      /\ Append(s, e)[Len(s) + 1] = e
  OBVIOUS
<1>2. \A i \in 1 .. Len(s) + 1 : i \in 1 .. Len(s) \/ i = Len(s) + 1
  BY <1>1
<1>3. Len(s) + 1 \in 1 .. Len(s) + 1 /\ \A i \in 1 .. Len(s) : i \in 1 .. Len(s) + 1
  BY <1>1
<1> QED
  BY <1>1, <1>2, <1>3 DEF Contains

LEMMA Popped ==
  ASSUME NEW S, NEW s \in Seq(S), s # <<>>
  PROVE  /\ Front(s) \in Seq(S) /\ Len(s) \in Nat \ {0} /\ Len(Front(s)) = Len(s) - 1
         /\ \A i \in 1 .. Len(s) - 1 : i \in 1 .. Len(s) /\ i # Len(s) /\ Front(s)[i] = s[i]
         /\ Last(s) \in S /\ Len(s) \in 1 .. Len(s)
         /\ \A i \in 1 .. Len(s) : i \in 1 .. Len(s) - 1 \/ i = Len(s)
<1>1. Len(s) \in Nat \ {0}
  BY EmptySeq
<1>2. \A i \in 1 .. Len(s) - 1 : s[i] \in S
  BY <1>1
<1>3. /\ Front(s) \in Seq(S)
      /\ Len(Front(s)) = IF 1 <= Len(s) - 1 THEN Len(s) - 1 - 1 + 1 ELSE 0
      /\ \A i \in 1 .. Len(s) - 1 - 1 + 1 : Front(s)[i] = s[1 + i - 1]
  BY <1>1, <1>2, SubSeqProperties DEF Front
<1>4. Last(s) \in S
  BY <1>1 DEF Last
<1>5. /\ Len(s) \in 1 .. Len(s)
      /\ \A i \in 1 .. Len(s) : i \in 1 .. Len(s) - 1 \/ i = Len(s)
      /\ Len(s) - 1 = IF 1 <= Len(s) - 1 THEN Len(s) - 1 - 1 + 1 ELSE 0
  <2>1. \A n \in Nat \ {0} :
          /\ n \in 1 .. n /\ \A i \in 1 .. n : i \in 1 .. n - 1 \/ i = n
          /\ n - 1 = IF 1 <= n - 1 THEN n - 1 - 1 + 1 ELSE 0
    OBVIOUS
  <2> QED
    BY ONLY <1>1, <2>1
<1>6. \A i \in 1 .. Len(s) - 1 :
        i \in 1 .. Len(s) /\ i # Len(s) /\ i \in 1 .. Len(s) - 1 - 1 + 1 /\ 1 + i - 1 = i
  BY <1>1
<1> QED
  BY <1>1, <1>3, <1>4, <1>5, <1>6

LEMMA PoppedContains ==
  ASSUME NEW S, NEW s \in Seq(S), s # <<>>, IsInjective(s)
  PROVE  /\ IsInjective(Front(s))
         /\ \A x : Contains(s, x) <=> Contains(Front(s), x) \/ x = Last(s)
         /\ ~Contains(Front(s), Last(s))
<1>1. \A i, j \in 1 .. Len(s) : s[i] = s[j] => i = j
  BY Popped DEF IsInjective
<1>2. IsInjective(Front(s))
  <2>1. DOMAIN Front(s) = 1 .. Len(s) - 1
    BY Popped
  <2>2. \A i, j \in 1 .. Len(s) - 1 : Front(s)[i] = Front(s)[j] => i = j
    BY <1>1, Popped
  <2> HIDE DEF IsInjective
  <2> QED
    BY ONLY <2>1, <2>2 DEF IsInjective
<1> QED
  BY <1>1, <1>2, Popped DEF Contains, Last

LEMMA PushedInjective ==
  ASSUME NEW S, NEW s \in Seq(S), NEW e \in S, IsInjective(s), ~Contains(s, e)
  PROVE  IsInjective(Append(s, e))
<1>1. \A i, j \in 1 .. Len(s) : s[i] = s[j] => i = j
  BY DEF IsInjective
<1>2. DOMAIN Append(s, e) = 1 .. Len(s) + 1
  BY Pushed
<1> QED
  BY <1>1, <1>2, Pushed DEF IsInjective, Contains
-----------------------------------------------------------------------------
(* The blocks and MLflow's stack.                                          *)

LEMMA Types ==
  ASSUME LInv
  PROVE  /\ stack \in Seq(Runs) /\ blocks \in Seq(Runs) /\ IsInjective(stack) /\ IsInjective(blocks)
         /\ Len(stack) \in Nat /\ Len(blocks) \in Nat
         /\ DOMAIN status = Runs /\ DOMAIN cause = Runs /\ DOMAIN left = Runs /\ DOMAIN starts = Runs
         /\ \A r \in Runs : starts[r] \in Nat
         /\ None \notin Runs /\ None \notin Exceptions
         /\ \A r : Contains(stack, r) => r \in Runs /\ status[r] = "RUNNING"
         /\ \A r : Contains(blocks, r) => r \in Runs /\ left[r] = "open"
<1>1. /\ stack \in Seq(Runs) /\ blocks \in Seq(Runs) /\ IsInjective(stack) /\ IsInjective(blocks)
      /\ DOMAIN status = Runs /\ DOMAIN cause = Runs /\ DOMAIN left = Runs /\ DOMAIN starts = Runs
  BY DEF LInv, TypeOK
<1>2. \A r \in Runs : starts[r] \in Nat
  BY LifecycleAssumption DEF LInv, TypeOK
<1>3. \A r : Contains(stack, r) => r \in Runs /\ status[r] = "RUNNING"
  BY <1>1 DEF Contains, LInv, StackRuns
<1>4. \A r : Contains(blocks, r) => r \in Runs /\ left[r] = "open"
  BY <1>1 DEF Contains, LInv, BlocksOpen
<1> QED
  BY <1>1, <1>2, <1>3, <1>4, LifecycleAssumption

LEMMA StartKeeps ==
  ASSUME LInv, NEW r \in Runs, NEW a \in Named \cup {None}, NEW entered \in BOOLEAN,
         Start(r, a, entered)
  PROVE  LInv'
<1> DEFINE m == Len(stack)
           n == Len(blocks)
<1>1. /\ exiting = "no" /\ exiting' = "no" /\ raised = None
      /\ cause' = cause /\ refused' = refused
      /\ status[r] # "RUNNING" /\ ~Contains(blocks, r) /\ starts[r] < MaxStarts
      /\ stack' = Append(stack, r)
      /\ blocks' = IF entered THEN Append(blocks, r) ELSE blocks
      /\ astray' = IF entered THEN astray \ {r} ELSE astray \cup {r}
  BY DEF Start, Running, causes
<1>2. /\ status' = [status EXCEPT ![r] = "RUNNING"] /\ left' = [left EXCEPT ![r] = "open"]
      /\ starts' = [starts EXCEPT ![r] = @ + 1]
  BY DEF Start
<1>3. /\ status'[r] = "RUNNING" /\ left'[r] = "open" /\ starts'[r] = starts[r] + 1
      /\ \A q \in Runs \ {r} :
           status'[q] = status[q] /\ left'[q] = left[q] /\ starts'[q] = starts[q]
  BY <1>2, Types
<1>4. ~Contains(stack, r) /\ m \in Nat /\ n \in Nat
  BY <1>1, Types
<1>5. /\ stack' \in Seq(Runs) /\ Len(stack') = m + 1 /\ stack'[m + 1] = r
      /\ \A i \in 1 .. m : stack'[i] = stack[i] /\ stack[i] \in Runs /\ stack[i] # r
      /\ \A i \in 1 .. m + 1 : i \in 1 .. m \/ i = m + 1
      /\ \A q : Contains(stack', q) <=> Contains(stack, q) \/ q = r
  BY <1>1, <1>4, Types, Pushed DEF Contains
<1>6. /\ blocks' \in Seq(Runs)
      /\ \A i \in 1 .. n : blocks'[i] = blocks[i] /\ blocks[i] \in Runs /\ blocks[i] # r
      /\ \A q : Contains(blocks', q) <=> Contains(blocks, q) \/ (entered /\ q = r)
      /\ entered => Len(blocks') = n + 1 /\ blocks'[n + 1] = r
                    /\ \A i \in 1 .. n + 1 : i \in 1 .. n \/ i = n + 1
      /\ ~entered => Len(blocks') = n
  <2>1. CASE entered
    BY <1>1, <2>1, Types, Pushed DEF Contains
  <2>2. CASE ~entered
    BY <1>1, <2>2, Types DEF Contains
  <2> QED
    BY <2>1, <2>2
<1> HIDE DEF m, n
<1>7. TypeOK'
  <2>1. IsInjective(stack') /\ IsInjective(blocks')
    BY <1>1, <1>4, Types, PushedInjective
  <2>2. /\ status' \in [Runs -> {"none", "RUNNING", "FINISHED", "FAILED", "KILLED"}]
        /\ left' \in [Runs -> Exceptions \cup {"open", "normal", "cut"}]
    BY <1>2 DEF LInv, TypeOK
  <2>3. starts' \in [Runs -> 0 .. MaxStarts]
    <3>1. starts[r] \in 0 .. MaxStarts /\ starts \in [Runs -> 0 .. MaxStarts]
      BY DEF LInv, TypeOK
    <3>2. starts[r] + 1 \in 0 .. MaxStarts
      BY <1>1, <3>1, LifecycleAssumption
    <3> QED
      BY <1>2, <3>1, <3>2
  <2>4. continues' \in [Runs -> Named \cup {None}]
    <3>1. continues \in [Runs -> Named \cup {None}]
      BY DEF LInv, TypeOK
    <3>2. PICK tag \in Named \cup {None} : continues' = [continues EXCEPT ![r] = tag]
      BY <3>1 DEF Start
    <3> QED
      BY <3>1, <3>2
  <2>5. raised' \in Exceptions \cup {None} /\ astray' \subseteq Runs
    BY <1>1 DEF Start, Exceptions, LInv, TypeOK
  <2>6. stack' \in Seq(Runs) /\ blocks' \in Seq(Runs)
    BY <1>5, <1>6
  <2>7. /\ cause' \in [Runs -> Exceptions \cup {None}] /\ refused' \subseteq Runs
        /\ exiting' \in {"no", "cause", "end"}
    BY <1>1 DEF LInv, TypeOK
  <2> QED
    BY <2>1, <2>2, <2>3, <2>4, <2>5, <2>6, <2>7 DEF TypeOK
<1>8. StackRuns' /\ BlocksOpen'
  <2>1. StackRuns'
    BY <1>3, <1>5 DEF LInv, StackRuns, m
  <2>2. BlocksOpen'
    BY <1>3, <1>6 DEF LInv, BlocksOpen, n
  <2> QED
    BY <2>1, <2>2
<1>9. Owned'
  BY <1>1, <1>3, <1>5, <1>6 DEF LInv, Owned
<1>10. InOrder'
  <2> SUFFICES ASSUME NEW i \in 1 .. Len(blocks'), NEW j \in 1 .. Len(blocks'),
                      NEW k \in 1 .. Len(stack'), NEW l \in 1 .. Len(stack'),
                      i < j, blocks'[i] = stack'[k], blocks'[j] = stack'[l],
                      blocks'[i] \notin astray', blocks'[j] \notin astray'
               PROVE  k < l
    BY DEF InOrder
  <2>1. i \in 1 .. n
    BY <1>4, <1>6
  <2>2. k \in 1 .. m /\ blocks[i] = stack[k] /\ blocks[i] \notin astray
    BY <1>1, <1>5, <1>6, <2>1
  <2>3. CASE j \in 1 .. n
    <3>1. l \in 1 .. m /\ blocks[j] = stack[l] /\ blocks[j] \notin astray
      BY <1>1, <1>5, <1>6, <2>3
    <3> QED
      BY <2>1, <2>2, <2>3, <3>1 DEF LInv, InOrder, m, n
  <2>4. CASE j \notin 1 .. n
    <3>1. l = m + 1
      BY <1>5, <1>6, <2>4
    <3> QED
      BY <1>4, <2>2, <3>1
  <2> QED
    BY <2>3, <2>4
<1>11. Exits' /\ Causes'
  <2>1. \A q \in Runs : starts[q] \in Nat
    BY Types
  <2>2. Exits'
    BY <1>1 DEF Exits
  <2>3. ASSUME NEW q \in Runs, q # r
        PROVE  /\ left'[q] \in Exceptions => cause'[q] = left'[q] \/ q \in refused'
               /\ starts'[q] = 0 => ~Contains(blocks, q)' /\ left'[q] = "open"
               /\ starts'[q] <= 1 /\ left'[q] \in {"open", "normal"} => cause'[q] = None
    BY <1>1, <1>3, <1>6, <2>3 DEF LInv, Causes
  <2>4. /\ left'[r] \notin Exceptions /\ starts'[r] # 0
        /\ starts'[r] <= 1 => cause'[r] = None
    BY <1>1, <1>3, <2>1 DEF LInv, Causes, Exceptions
  <2> QED
    BY <2>2, <2>3, <2>4 DEF Causes
<1> QED
  BY <1>7, <1>8, <1>9, <1>10, <1>11 DEF LInv

(* The order stays when either loses its end.                              *)
LEMMA OrderStays ==
  ASSUME LInv, astray \subseteq astray', Len(blocks') \in Nat, Len(stack') \in Nat,
         Len(blocks') <= Len(blocks), \A i \in 1 .. Len(blocks') : blocks'[i] = blocks[i],
         Len(stack') <= Len(stack), \A i \in 1 .. Len(stack') : stack'[i] = stack[i]
  PROVE  InOrder'
<1>1. /\ \A i \in 1 .. Len(blocks') : i \in 1 .. Len(blocks)
      /\ \A i \in 1 .. Len(stack') : i \in 1 .. Len(stack)
  BY Types
<1>2. SUFFICES ASSUME NEW i \in 1 .. Len(blocks'), NEW j \in 1 .. Len(blocks'),
                      NEW k \in 1 .. Len(stack'), NEW l \in 1 .. Len(stack'),
                      i < j, blocks'[i] = stack'[k], blocks'[j] = stack'[l],
                      blocks'[i] \notin astray', blocks'[j] \notin astray'
               PROVE  k < l
  BY DEF InOrder
<1>3. /\ i \in 1 .. Len(blocks) /\ j \in 1 .. Len(blocks)
      /\ k \in 1 .. Len(stack) /\ l \in 1 .. Len(stack)
      /\ blocks[i] = stack[k] /\ blocks[j] = stack[l]
      /\ blocks[i] \notin astray /\ blocks[j] \notin astray
  BY <1>1, <1>2
<1> QED
  BY <1>2, <1>3 DEF LInv, InOrder

LEMMA PoppedStack ==
  ASSUME LInv, stack # <<>>, stack' = Front(stack)
  PROVE  /\ Active \in Runs /\ Contains(stack, Active)
         /\ stack' \in Seq(Runs) /\ IsInjective(stack')
         /\ Len(stack') \in Nat /\ Len(stack') <= Len(stack)
         /\ \A i \in 1 .. Len(stack') : stack'[i] = stack[i] /\ stack'[i] # Active
         /\ \A q : Contains(stack, q) <=> Contains(stack', q) \/ q = Active
<1> DEFINE n == Len(stack)
<1>1. Active = Last(stack)
  BY DEF Active
<1>2. /\ stack' \in Seq(Runs) /\ n \in Nat \ {0} /\ Len(stack') = n - 1
      /\ \A i \in 1 .. n - 1 : stack'[i] = stack[i]
      /\ Last(stack) \in Runs /\ n \in 1 .. n
  BY Types, Popped
<1>3. /\ IsInjective(stack') /\ ~Contains(stack', Last(stack))
      /\ \A q : Contains(stack, q) <=> Contains(stack', q) \/ q = Last(stack)
  BY Types, PoppedContains
<1>4. n - 1 \in Nat /\ n - 1 <= n
  BY <1>2
<1> HIDE DEF n
<1> QED
  BY <1>1, <1>2, <1>3, <1>4 DEF Contains, n

LEMMA LeaveFacts ==
  ASSUME LInv, exiting # "no", NEW how, Leave(how)
  PROVE  /\ Inner \in Runs /\ Contains(blocks, Inner) /\ left[Inner] = "open"
         /\ exiting' = "no" /\ left' = [left EXCEPT ![Inner] = how]
         /\ left'[Inner] = how /\ \A q \in Runs \ {Inner} : left'[q] = left[q]
         /\ blocks' \in Seq(Runs) /\ IsInjective(blocks')
         /\ Len(blocks') \in Nat /\ Len(blocks') <= Len(blocks)
         /\ \A i \in 1 .. Len(blocks') : blocks'[i] = blocks[i] /\ blocks'[i] # Inner
         /\ \A q : Contains(blocks, q) <=> Contains(blocks', q) \/ q = Inner
         /\ ~Contains(blocks', Inner)
<1> DEFINE n == Len(blocks)
<1>1. blocks # <<>> /\ Inner = Last(blocks) /\ blocks' = Front(blocks) /\ exiting' = "no"
  BY DEF LInv, Exits, Inner, Leave
<1>2. /\ blocks' \in Seq(Runs) /\ n \in Nat \ {0} /\ Len(blocks') = n - 1
      /\ \A i \in 1 .. n - 1 : blocks'[i] = blocks[i]
      /\ Inner \in Runs
  BY <1>1, Types, Popped
<1>3. /\ IsInjective(blocks') /\ ~Contains(blocks', Inner)
      /\ \A q : Contains(blocks, q) <=> Contains(blocks', q) \/ q = Inner
  BY <1>1, Types, PoppedContains
<1>4. n - 1 \in Nat /\ n - 1 <= n
  BY <1>2
<1>5. left[Inner] = "open" /\ left' = [left EXCEPT ![Inner] = how]
  BY <1>3, Types DEF Leave
<1>6. left'[Inner] = how /\ \A q \in Runs \ {Inner} : left'[q] = left[q]
  BY <1>2, <1>5, Types
<1> HIDE DEF n
<1>7. \A i \in 1 .. Len(blocks') : blocks'[i] = blocks[i] /\ blocks'[i] # Inner
  BY <1>2, <1>3 DEF Contains
<1> QED
  BY <1>1, <1>2, <1>3, <1>4, <1>5, <1>6, <1>7 DEF n

(* What a run is left with when its block is.                              *)
LEMMA LeaveKeeps ==
  ASSUME LInv, exiting # "no", NEW how \in Exceptions \cup {"normal", "cut"}, Leave(how),
         UNCHANGED <<causes, starts>>,
         how \in Exceptions => how = raised /\ exiting = "end",
         how = "normal" => raised = None
  PROVE  BlocksOpen' /\ Exits' /\ Causes' /\ left' \in [Runs -> Exceptions \cup {"open", "normal", "cut"}]
<1>1. BlocksOpen'
  <2> SUFFICES ASSUME NEW i \in 1 .. Len(blocks') PROVE left'[blocks'[i]] = "open"
    BY DEF BlocksOpen
  <2>1. blocks'[i] = blocks[i] /\ blocks'[i] # Inner /\ blocks'[i] \in Runs /\ i \in 1 .. Len(blocks)
    BY LeaveFacts, Types
  <2> QED
    BY <2>1, LeaveFacts DEF LInv, BlocksOpen
<1>2. Exits'
  BY LeaveFacts DEF Exits
<1>3. cause' = cause /\ refused' = refused /\ starts' = starts
  BY DEF causes
<1>4. Causes'
  <2>1. ASSUME NEW q \in Runs, q # Inner
        PROVE  /\ left'[q] \in Exceptions => cause'[q] = left'[q] \/ q \in refused'
               /\ starts'[q] = 0 => ~Contains(blocks, q)' /\ left'[q] = "open"
               /\ starts'[q] <= 1 /\ left'[q] \in {"open", "normal"} => cause'[q] = None
    BY <1>3, <2>1, LeaveFacts DEF LInv, Causes
  <2>2. /\ how \in Exceptions => cause[Inner] = how \/ Inner \in refused
        /\ starts[Inner] # 0
        /\ starts[Inner] <= 1 /\ how = "normal" => cause[Inner] = None
        /\ how # "open"
    BY LeaveFacts, Types DEF LInv, Causes, Exits, Exceptions
  <2>3. Inner \in Runs /\ left'[Inner] = how
    BY LeaveFacts
  <2>4. /\ left'[Inner] \in Exceptions => cause'[Inner] = left'[Inner] \/ Inner \in refused'
        /\ starts'[Inner] # 0
        /\ starts'[Inner] <= 1 /\ left'[Inner] \in {"open", "normal"} => cause'[Inner] = None
    BY <1>3, <2>2, <2>3
  <2>5. \A q \in Runs :
          /\ left'[q] \in Exceptions => cause'[q] = left'[q] \/ q \in refused'
          /\ starts'[q] = 0 => ~Contains(blocks, q)' /\ left'[q] = "open"
          /\ starts'[q] <= 1 /\ left'[q] \in {"open", "normal"} => cause'[q] = None
    BY <2>1, <2>3, <2>4
  <2> QED
    BY <2>5 DEF Causes
<1>5. left' \in [Runs -> Exceptions \cup {"open", "normal", "cut"}]
  <2>1. PICK Ways : Ways = Exceptions \cup {"open", "normal", "cut"}
    OBVIOUS
  <2>2. left' = [left EXCEPT ![Inner] = how]
    BY LeaveFacts
  <2>3. left \in [Runs -> Ways] /\ how \in Ways
    <3>1. TypeOK /\ how \in Exceptions \cup {"normal", "cut"}
      BY DEF LInv
    <3>2. left \in [Runs -> Exceptions \cup {"open", "normal", "cut"}]
      BY ONLY <3>1 DEF TypeOK
    <3> QED
      BY ONLY <2>1, <3>1, <3>2
  <2>4. left' \in [Runs -> Ways]
    BY ONLY <2>2, <2>3
  <2> QED
    BY ONLY <2>1, <2>4
<1> QED
  BY <1>1, <1>2, <1>4, <1>5

LEMMA EndByHandKeeps ==
  ASSUME LInv, EndByHand
  PROVE  LInv'
<1>1. /\ stack # <<>> /\ stack' = Front(stack) /\ astray' = astray \cup {Active}
      /\ status' = [status EXCEPT ![Active] = "FINISHED"]
      /\ UNCHANGED <<blocks, cause, refused, continues, raised, exiting, left, starts>>
      /\ exiting = "no"
  BY DEF EndByHand, Terminated, causes, Running
<1>2. \A q \in Runs \ {Active} : status'[q] = status[q]
  BY <1>1, Types
<1>3. TypeOK'
  BY <1>1, PoppedStack DEF LInv, TypeOK
<1>4. StackRuns'
  <2> SUFFICES ASSUME NEW i \in 1 .. Len(stack') PROVE status'[stack'[i]] = "RUNNING"
    BY DEF StackRuns
  <2>1. stack'[i] = stack[i] /\ stack'[i] # Active /\ stack'[i] \in Runs /\ i \in 1 .. Len(stack)
    <3>1. /\ stack'[i] = stack[i] /\ stack'[i] # Active /\ stack' \in Seq(Runs)
          /\ Len(stack') \in Nat /\ Len(stack') <= Len(stack)
      BY <1>1, PoppedStack
    <3>2. i \in 1 .. Len(stack') /\ Len(stack) \in Nat
      BY Types
    <3> QED
      BY ONLY <3>1, <3>2
  <2> QED
    BY <1>2, <2>1 DEF LInv, StackRuns
<1>5. Owned'
  BY <1>1, <1>2, PoppedStack DEF LInv, Owned
<1>6. InOrder'
  BY <1>1, PoppedStack, OrderStays, Types
<1> QED
  BY <1>1, <1>3, <1>4, <1>5, <1>6 DEF LInv, BlocksOpen, Exits, Causes, Inner

LEMMA ExitKeeps ==
  ASSUME LInv, Exit
  PROVE  LInv'
<1> DEFINE x == Inner
           how == IF raised = None THEN "normal" ELSE raised
<1>1. /\ exiting = "end" /\ Leave(how) /\ astray' = astray \cup Misled
      /\ UNCHANGED <<causes, continues, raised, starts>>
  BY DEF Exit
<1>2. how \in Exceptions \cup {"normal", "cut"}
      /\ (how \in Exceptions => how = raised) /\ (how = "normal" => raised = None)
  BY LifecycleAssumption DEF LInv, TypeOK, Exceptions
<1>3. /\ BlocksOpen' /\ Exits' /\ Causes'
      /\ left' \in [Runs -> Exceptions \cup {"open", "normal", "cut"}]
  <2> HIDE DEF how
  <2> QED
    BY <1>1, <1>2, LeaveKeeps
<1>4. /\ x \in Runs /\ Contains(blocks, x) /\ left'[x] = how
      /\ \A q \in Runs \ {x} : left'[q] = left[q]
      /\ \A q : Contains(blocks, q) <=> Contains(blocks', q) \/ q = x
      /\ ~Contains(blocks', x)
      /\ blocks' \in Seq(Runs) /\ IsInjective(blocks') /\ exiting' = "no"
      /\ Len(blocks') \in Nat /\ Len(blocks') <= Len(blocks)
      /\ \A i \in 1 .. Len(blocks') : blocks'[i] = blocks[i]
  BY <1>1, LeaveFacts
<1>5. CASE Ends
  <2>1. /\ stack # <<>> /\ stack' = Front(stack) /\ status' = [status EXCEPT ![Active] = As]
        /\ Active # x => Contains(stack, x)
    <3>1. stack = <<>> => ~Contains(stack, x) /\ Active = None
      BY DEF Contains, Active
    <3> QED
      BY <1>1, <1>4, <1>5, <3>1, LifecycleAssumption DEF Exit, Ends, Killed, Terminated
  <2>2. /\ As \in {"KILLED", "FINISHED", "FAILED"}
        /\ Active = x => <<how, As>> \in Ended
    <3>1. As \in {"KILLED", "FINISHED", "FAILED"}
      BY DEF As
    <3>2. raised \in {"error", "interrupt", None} /\ None \notin {"error", "interrupt"}
      BY LifecycleAssumption DEF LInv, TypeOK, Exceptions
    <3>3. ASSUME Active = x PROVE <<how, As>> \in Ended
      <4>1. CASE raised = None
        BY <3>2, <4>1 DEF As, Killed, Ended
      <4>2. CASE raised = "error"
        BY <3>2, <4>2 DEF As, Killed, Ended
      <4>3. CASE raised = "interrupt"
        BY <3>2, <3>3, <4>3 DEF As, Killed, Ended
      <4> QED
        BY <3>2, <4>1, <4>2, <4>3
    <3> QED
      BY <3>1, <3>3
  <2>3. Misled \subseteq Runs /\ (Active # x => x \in Misled /\ Active \in Misled)
    BY <1>4, <2>1, PoppedStack DEF Misled
  <2>4. status'[Active] = As /\ \A q \in Runs \ {Active} : status'[q] = status[q]
    BY <2>1, PoppedStack, Types
  <2>5. TypeOK'
    <3>1. status' \in [Runs -> {"none", "RUNNING", "FINISHED", "FAILED", "KILLED"}]
      BY <2>1, <2>2 DEF LInv, TypeOK
    <3> QED
      BY <1>1, <1>3, <1>4, <2>1, <2>3, <3>1, PoppedStack DEF LInv, TypeOK, causes
  <2>6. StackRuns'
    <3> SUFFICES ASSUME NEW i \in 1 .. Len(stack') PROVE status'[stack'[i]] = "RUNNING"
      BY DEF StackRuns
    <3>1. /\ stack'[i] = stack[i] /\ stack'[i] # Active /\ stack'[i] \in Runs
          /\ i \in 1 .. Len(stack)
      BY <2>1, PoppedStack, Types
    <3> QED
      BY <2>4, <3>1 DEF LInv, StackRuns
  <2>7. Owned'
    <3> HIDE DEF how
    <3> SUFFICES ASSUME NEW q \in Runs, q \notin astray'
                 PROVE  IF Contains(blocks', q) THEN Contains(stack', q)
                        ELSE <<left'[q], status'[q]>> \in Ended
      BY DEF Owned, Contains
    <3>1. q \notin astray /\ q \notin Misled
      BY <1>1
    <3>2. CASE q = x
      BY <1>4, <2>2, <2>3, <2>4, <3>1, <3>2
    <3>3. CASE q # x
      <4>1. q # Active
        BY <2>3, <3>1, <3>3
      <4> QED
        BY <1>4, <2>1, <2>4, <3>1, <3>3, <4>1, PoppedStack DEF LInv, Owned
    <3> QED
      BY <3>2, <3>3
  <2>8. InOrder'
    BY <1>1, <1>4, <2>1, PoppedStack, OrderStays
  <2> QED
    BY <1>3, <2>5, <2>6, <2>7, <2>8 DEF LInv
<1>6. CASE ~Ends
  <2>1. UNCHANGED <<stack, status>> /\ ~Contains(stack, x)
    BY <1>6 DEF Exit, Ends
  <2>2. x \in astray /\ astray' = astray
    BY <1>1, <1>4, <2>1 DEF LInv, Owned, Misled
  <2>3. TypeOK'
    BY <1>1, <1>3, <1>4, <2>1, <2>2 DEF LInv, TypeOK, causes
  <2>4. Owned'
    BY <1>4, <2>1, <2>2 DEF LInv, Owned, Contains
  <2>5. InOrder'
    BY <1>4, <2>1, <2>2, OrderStays, Types
  <2> QED
    BY <1>3, <2>1, <2>3, <2>4, <2>5 DEF LInv, StackRuns
<1> QED
  BY <1>5, <1>6

(* end_run took a run off the stack and did not come to its end.           *)
CutShort ==
  /\ exiting = "end" /\ Ends /\ Leave("cut") /\ raised' \in Exceptions
  /\ stack' = Front(stack) /\ status' \in {status, Terminated(As)}
  /\ astray' = astray \cup {Inner, Active}
  /\ UNCHANGED <<causes, continues, starts>>

LEMMA CutShortKeeps ==
  ASSUME LInv, CutShort
  PROVE  LInv'
<1>1. /\ exiting = "end" /\ Leave("cut") /\ astray' = astray \cup {Inner, Active}
      /\ stack' = Front(stack) /\ raised' \in Exceptions
      /\ UNCHANGED <<causes, continues, starts>>
  BY DEF CutShort
<1>2. "cut" \notin Exceptions /\ "cut" # "normal"
  BY DEF Exceptions
<1>3. /\ BlocksOpen' /\ Exits' /\ Causes'
      /\ left' \in [Runs -> Exceptions \cup {"open", "normal", "cut"}]
  BY <1>1, <1>2, LeaveKeeps
<1>4. /\ Inner \in Runs
      /\ \A q \in Runs \ {Inner} : left'[q] = left[q]
      /\ \A q : Contains(blocks, q) <=> Contains(blocks', q) \/ q = Inner
      /\ blocks' \in Seq(Runs) /\ IsInjective(blocks') /\ exiting' = "no"
      /\ Len(blocks') \in Nat /\ Len(blocks') <= Len(blocks)
      /\ \A i \in 1 .. Len(blocks') : blocks'[i] = blocks[i]
  BY <1>1, LeaveFacts
<1>5. stack # <<>> /\ (Active # Inner => Contains(stack, Inner))
  <2>1. stack = <<>> => ~Contains(stack, Inner) /\ Active = None
    BY DEF Contains, Active
  <2> QED
    BY <1>4, <2>1, LifecycleAssumption DEF CutShort, Ends, Killed
<1>6. /\ status' \in [Runs -> {"none", "RUNNING", "FINISHED", "FAILED", "KILLED"}]
      /\ \A q \in Runs \ {Active} : status'[q] = status[q]
  <2>1. PICK as \in {"KILLED", "FINISHED", "FAILED"} : as = As
    BY DEF As
  <2>2. Active \in Runs
    BY <1>1, <1>5, PoppedStack
  <2>3. status' = status \/ status' = [status EXCEPT ![Active] = as]
    BY <2>1 DEF CutShort, Terminated
  <2>4. status \in [Runs -> {"none", "RUNNING", "FINISHED", "FAILED", "KILLED"}]
    BY DEF LInv, TypeOK
  <2> QED
    BY <2>1, <2>2, <2>3, <2>4
<1>7. TypeOK'
  <2>1. /\ stack' \in Seq(Runs) /\ IsInjective(stack') /\ blocks' \in Seq(Runs)
        /\ IsInjective(blocks') /\ Active \in Runs
    BY <1>1, <1>4, <1>5, PoppedStack
  <2>2. raised' \in Exceptions \cup {None} /\ exiting' \in {"no", "cause", "end"}
    BY <1>1, <1>4 DEF Exceptions
  <2>3. astray' \subseteq Runs
    BY <1>1, <1>4, <2>1 DEF LInv, TypeOK
  <2>4. UNCHANGED <<cause, refused, continues, starts>>
    BY <1>1 DEF causes
  <2>5. /\ cause \in [Runs -> Exceptions \cup {None}] /\ continues \in [Runs -> Named \cup {None}]
        /\ refused \subseteq Runs /\ starts \in [Runs -> 0..MaxStarts]
    BY DEF LInv, TypeOK
  <2> QED
    BY ONLY <1>3, <1>6, <2>1, <2>2, <2>3, <2>4, <2>5 DEF TypeOK
<1>8. StackRuns'
  <2>1. \A i \in 1 .. Len(stack') :
          i \in 1 .. Len(stack) /\ stack'[i] = stack[i] /\ stack'[i] # Active
    BY <1>1, <1>5, PoppedStack, Types
  <2>2. \A i \in 1 .. Len(stack) : status[stack[i]] = "RUNNING" /\ stack[i] \in Runs
    BY Types DEF LInv, StackRuns
  <2> QED
    BY <1>6, <2>1, <2>2 DEF StackRuns
<1>9. Owned'
  <2>1. Inner \in astray' /\ Active \in astray' /\ astray \subseteq astray'
    BY <1>1
  <2>2. \A q : Contains(stack, q) <=> Contains(stack', q) \/ q = Active
    BY <1>1, <1>5, PoppedStack
  <2> QED
    BY <1>4, <1>6, <2>1, <2>2 DEF LInv, Owned
<1>10. InOrder'
  <2>1. astray \subseteq astray'
    BY <1>1
  <2> QED
    BY <1>1, <1>4, <1>5, <2>1, PoppedStack, OrderStays
<1> QED
  BY <1>3, <1>7, <1>8, <1>9, <1>10 DEF LInv

LEMMA ExitFailsKeeps ==
  ASSUME LInv, ExitFails
  PROVE  LInv'
<1>1. Misled \cup {Active} = {Inner, Active}
  <2>1. Active # Inner => Contains(stack, Inner)
    BY DEF ExitFails, Ends, Killed
  <2> QED
    BY <2>1 DEF Misled
<1> QED
  BY <1>1, CutShortKeeps DEF ExitFails, CutShort, Exceptions

LEMMA NotBegunKeeps ==
  ASSUME LInv, ExitInterrupted, UNCHANGED <<stack, status>>, astray' = astray \cup {Inner}
  PROVE  LInv'
<1>1. /\ exiting # "no" /\ Leave("cut") /\ astray' = astray \cup {Inner} /\ raised' = "interrupt"
      /\ UNCHANGED <<stack, status, causes, continues, starts>>
  BY DEF ExitInterrupted
<1>2. "cut" \notin Exceptions /\ "cut" # "normal"
  BY DEF Exceptions
<1>3. /\ BlocksOpen' /\ Exits' /\ Causes'
      /\ left' \in [Runs -> Exceptions \cup {"open", "normal", "cut"}]
  BY <1>1, <1>2, LeaveKeeps
<1>4. /\ Inner \in Runs
      /\ \A q \in Runs \ {Inner} : left'[q] = left[q]
      /\ \A q : Contains(blocks, q) <=> Contains(blocks', q) \/ q = Inner
      /\ blocks' \in Seq(Runs) /\ IsInjective(blocks') /\ exiting' = "no"
      /\ Len(blocks') \in Nat /\ Len(blocks') <= Len(blocks)
      /\ \A i \in 1 .. Len(blocks') : blocks'[i] = blocks[i]
  BY <1>1, LeaveFacts
<1>5. TypeOK'
  BY <1>1, <1>3, <1>4 DEF LInv, TypeOK, causes, Exceptions
<1>6. Owned'
  BY <1>1, <1>4 DEF LInv, Owned, Contains
<1>7. InOrder'
  <2>1. /\ astray \subseteq astray' /\ Len(stack') \in Nat /\ Len(stack') <= Len(stack)
        /\ \A i \in 1 .. Len(stack') : stack'[i] = stack[i]
    BY <1>1, Types
  <2> QED
    BY <1>4, <2>1, OrderStays
<1> QED
  BY <1>1, <1>3, <1>5, <1>6, <1>7 DEF LInv, StackRuns

LEMMA ExitInterruptedKeeps ==
  ASSUME LInv, ExitInterrupted
  PROVE  LInv'
<1>1. CASE UNCHANGED <<stack, status>> /\ astray' = astray \cup {Inner}
  BY <1>1, NotBegunKeeps
<1>2. CASE CutShort
  BY <1>2, CutShortKeeps
<1> QED
  BY <1>1, <1>2 DEF ExitInterrupted, CutShort, Exceptions

(* Exceptions come and go while no block is being left.                    *)
LEMMA RaisedKeeps ==
  ASSUME LInv, exiting = "no", raised' \in Exceptions \cup {None},
         UNCHANGED <<stack, blocks, status, causes, continues, exiting, left, astray, starts>>
  PROVE  LInv'
<1>1. TypeOK' /\ StackRuns' /\ BlocksOpen' /\ Owned' /\ InOrder'
  BY DEF LInv, TypeOK, StackRuns, BlocksOpen, Owned, InOrder, Contains, causes
<1>2. Exits' /\ Causes'
  BY DEF LInv, Exits, Causes, causes, Contains
<1> QED
  BY <1>1, <1>2 DEF LInv

LEMMA ExitingKeeps ==
  ASSUME LInv, BeginExit \/ RecordCause
  PROVE  LInv'
<1>1. /\ UNCHANGED <<stack, blocks, status, continues, raised, left, astray, starts>>
      /\ blocks # <<>> /\ exiting' \in {"cause", "end"}
  BY DEF BeginExit, RecordCause, LInv, Exits
<1>2. Inner \in Runs /\ Inner' = Inner /\ left[Inner] = "open" /\ starts[Inner] # 0
  <2>1. Inner \in Runs /\ Contains(blocks, Inner)
    BY <1>1, Types, PoppedContains, Popped DEF Inner
  <2> QED
    BY <1>1, <2>1, Types DEF Inner, LInv, Causes
<1>3. CASE BeginExit
  <2>1. UNCHANGED causes /\ exiting = "no" /\ exiting' = IF raised = None THEN "end" ELSE "cause"
    BY <1>3 DEF BeginExit
  <2> QED
    BY <1>1, <1>2, <2>1
    DEF LInv, TypeOK, StackRuns, BlocksOpen, Owned, InOrder, Contains, causes, Exits, Causes
<1>4. CASE RecordCause
  <2>1. exiting = "cause" /\ exiting' = "end" /\ raised # None /\ raised \in Exceptions
    BY <1>4 DEF RecordCause, LInv, Exits, TypeOK
  <2>2. \/ cause' = [cause EXCEPT ![Inner] = raised] /\ UNCHANGED refused
        \/ UNCHANGED cause /\ refused' = refused \cup {Inner}
    BY <1>4 DEF RecordCause, Cause
  <2>3. /\ \A q \in Runs \ {Inner} : cause'[q] = cause[q]
        /\ cause'[Inner] = raised \/ Inner \in refused'
        /\ refused \subseteq refused' /\ refused' \subseteq Runs
        /\ cause' \in [Runs -> Exceptions \cup {None}]
    BY <1>2, <2>1, <2>2 DEF LInv, TypeOK
  <2>4. TypeOK' /\ StackRuns' /\ BlocksOpen' /\ Owned' /\ InOrder' /\ Exits'
    <3>1. TypeOK' /\ StackRuns' /\ BlocksOpen'
      BY <1>1, <2>1, <2>3 DEF LInv, TypeOK, StackRuns, BlocksOpen
    <3>2. Owned' /\ InOrder'
      BY <1>1 DEF LInv, Owned, InOrder, Contains
    <3>3. Exits'
      BY <1>1, <1>2, <2>1, <2>3 DEF LInv, Exits
    <3> QED
      BY <3>1, <3>2, <3>3
  <2>5. Causes'
    BY <1>1, <1>2, <2>1, <2>3 DEF LInv, Causes, Contains, Exceptions
  <2> QED
    BY <2>4, <2>5 DEF LInv
<1> QED
  BY <1>3, <1>4

LEMMA LifecycleKeeps ==
  ASSUME LInv, Next
  PROVE  LInv'
<1>1. ASSUME NEW e \in Exceptions, Raise(e) PROVE LInv'
  BY <1>1, RaisedKeeps DEF Raise, Running
<1>2. CASE Catch
  BY <1>2, RaisedKeeps DEF Catch
<1> QED
  BY <1>1, <1>2, StartKeeps, EndByHandKeeps, ExitingKeeps, ExitKeeps, ExitFailsKeeps,
     ExitInterruptedKeeps DEF Next

LEMMA LifecycleBegins == Init => LInv
<1> SUFFICES ASSUME Init PROVE LInv
  OBVIOUS
<1>1. <<>> \in Seq(Runs) /\ Len(<<>>) = 0 /\ IsInjective(<<>>) /\ \A q : ~Contains(<<>>, q)
  BY DEF IsInjective, Contains
<1>2. 0 \in 0 .. MaxStarts
  BY LifecycleAssumption
<1>3. TypeOK
  BY <1>1, <1>2 DEF Init, TypeOK
<1> QED
  BY <1>1, <1>3
  DEF Init, LInv, StackRuns, BlocksOpen, Owned, InOrder, Exits, Causes, Ended, Exceptions
-----------------------------------------------------------------------------
(* Calls of log_params() and claim_session().                              *)

CallRecord ==
  [at : {"idle", "send", "artifact", "remember", "check", "copy"},
   run : Runs \cup {None}, model : Models \cup {None}, batch : Nat]
Doing(at, run, model, batch) == [at |-> at, run |-> run, model |-> model, batch |-> batch]

LEMMA CallFields ==
  /\ \A c \in CallRecord :
       /\ c.at \in {"idle", "send", "artifact", "remember", "check", "copy"}
       /\ c.run \in Runs \cup {None} /\ c.model \in Models \cup {None} /\ c.batch \in Nat
  /\ \A at \in {"idle", "send", "artifact", "remember", "check", "copy"},
       run \in Runs \cup {None}, model \in Models \cup {None}, batch \in Nat :
       Doing(at, run, model, batch) \in CallRecord
  /\ \A at, run, model, batch :
       LET c == Doing(at, run, model, batch)
       IN c.at = at /\ c.run = run /\ c.model = model /\ c.batch = batch
<1>1. \A c \in CallRecord :
        /\ c.at \in {"idle", "send", "artifact", "remember", "check", "copy"}
        /\ c.run \in Runs \cup {None} /\ c.model \in Models \cup {None} /\ c.batch \in Nat
  BY DEF CallRecord
<1>2. \A at \in {"idle", "send", "artifact", "remember", "check", "copy"},
        run \in Runs \cup {None}, model \in Models \cup {None}, batch \in Nat :
        Doing(at, run, model, batch) \in CallRecord
  BY DEF CallRecord, Doing
<1>3. \A at, run, model, batch :
        LET c == Doing(at, run, model, batch)
        IN c.at = at /\ c.run = run /\ c.model = model /\ c.batch = batch
  BY DEF Doing
<1> QED
  BY <1>1, <1>2, <1>3

LEMMA DoingIs ==
  ASSUME NEW at \in {"idle", "send", "artifact", "remember", "check", "copy"},
         NEW run \in Runs \cup {None}, NEW model \in Models \cup {None}, NEW batch \in Nat,
         NEW c, c = Doing(at, run, model, batch)
  PROVE  c \in CallRecord /\ c.at = at /\ c.run = run /\ c.model = model /\ c.batch = batch
BY DEF CallRecord, Doing

(* What one call is committed to at each of its steps.                     *)
Due(c) ==
  /\ c \in CallRecord
  /\ c.at # "idle" => c.run # None
  /\ c.at \notin {"idle", "copy"} => c.model # None
  /\ c.at = "send" => /\ c.batch \in 1 .. Batches[c.model]
                      /\ \A b \in 1 .. c.batch - 1 : <<c.run, c.model, b>> \in params
  /\ c.at \in {"artifact", "remember", "check"} => Sent(c.run, c.model)
  /\ c.at \in {"remember", "check"} => There(c.run, c.model)
  /\ c.at = "check" => c.model \in sessions[c.run]
  /\ c.at = "copy" => c.run \in claimed

LEMMA CallsDue ==
  ASSUME PInv
  PROVE  call \in [Threads -> CallRecord] /\ \A t \in Threads : Due(call[t])
<1>1. call \in [Threads -> CallRecord]
  BY DEF PInv, P!TypeOK, CallRecord
<1> QED
  BY <1>1 DEF PInv, P!TypeOK, Calls, Due

(* The server forgets nothing, nor do the dictionaries.                    *)
LEMMA DueStays ==
  ASSUME NEW c, Due(c), params \subseteq params', Lasting,
         claimed \subseteq claimed', \A r \in Runs : sessions[r] \subseteq sessions'[r]
  PROVE  Due(c)'
<1>1. /\ c.at = "check" => c.run \in Runs
      /\ c.at \in {"remember", "check"} => c.run \in Runs /\ c.model \in Models
  BY CallFields DEF Due
<1>2. c.at \in {"remember", "check"} => There(c.run, c.model)'
  BY <1>1 DEF Due, Lasting
<1> QED
  BY <1>1, <1>2 DEF Due, Sent

LEMMA DueOf ==
  ASSUME PInv, NEW t \in Threads, NEW c, call' = [call EXCEPT ![t] = c], Due(c)',
         params \subseteq params', Lasting,
         claimed \subseteq claimed', \A r \in Runs : sessions[r] \subseteq sessions'[r],
         params' \subseteq {p \in Runs \X Models \X Nat : p[3] \in 1 .. Batches[p[2]]},
         OnePerName', sessions' \in [Runs -> SUBSET Models],
         claimed' \subseteq Runs, taken' \subseteq Runs \X SUBSET Models,
         logged' \subseteq [run : Runs, model : Models, warned : BOOLEAN]
  PROVE  P!TypeOK' /\ Calls'
<1>1. call \in [Threads -> CallRecord] /\ \A u \in Threads : Due(call[u])
  BY CallsDue
<1>2. \A u \in Threads \ {t} : call'[u] = call[u]
  BY <1>1
<1>3. call'[t] = c /\ c \in CallRecord
  BY <1>1 DEF Due
<1>4. ASSUME NEW u \in Threads, NEW d, d = call'[u] PROVE Due(d)'
  BY <1>1, <1>2, <1>3, <1>4, DueStays
<1>5. call' \in [Threads -> CallRecord]
  BY <1>1, <1>3
<1> QED
  BY <1>4, <1>5 DEF P!TypeOK, Calls, Due, CallRecord, Sent, OnePerName

LEMMA Bags ==
  ASSUME PInv
  PROVE  /\ params \subseteq {p \in Runs \X Models \X Nat : p[3] \in 1 .. Batches[p[2]]}
         /\ OnePerName
         /\ sessions \in [Runs -> SUBSET Models] /\ claimed \subseteq Runs
         /\ taken \subseteq Runs \X SUBSET Models
         /\ logged \subseteq [run : Runs, model : Models, warned : BOOLEAN]
BY DEF PInv, P!TypeOK, OnePerName

(* What is as it was stays, and what is written takes the place of what    *)
(* was there under the name.                                               *)
LEMMA StillThere ==
  ASSUME artifacts' = artifacts
  PROVE  /\ Lasting /\ (OnePerName => OnePerName')
         /\ \A r, m : There(r, m)' <=> There(r, m)
BY DEF Lasting, OnePerName, There

LEMMA Overwrites ==
  ASSUME OnePerName, NEW r \in Runs, NEW m \in Models,
         artifacts' = (artifacts \ {a \in artifacts : a[1] = r /\ Name[a[2]] = Name[m]})
                        \cup {<<r, m>>}
  PROVE  Lasting /\ OnePerName' /\ There(r, m)'
<1>1. OnePerName'
  BY DEF OnePerName
<1>2. There(r, m)'
  BY DEF There
<1>3. ASSUME NEW q \in Runs, NEW y \in Models, There(q, y) PROVE There(q, y)'
  <2>1. PICK x \in Models : Name[x] = Name[y] /\ <<q, x>> \in artifacts
    BY <1>3 DEF There
  <2>2. CASE q = r /\ Name[x] = Name[m]
    BY <2>1, <2>2 DEF There
  <2>3. CASE ~(q = r /\ Name[x] = Name[m])
    BY <2>1, <2>3 DEF There
  <2> QED
    BY <2>2, <2>3
<1> QED
  BY <1>1, <1>2, <1>3 DEF Lasting

LEMMA RecordsKept ==
  ASSUME PInv, params \subseteq params', Lasting, claimed \subseteq claimed',
         UNCHANGED <<sessions, taken, logged>>
  PROVE  Kept' /\ SessionHonest'
<1>1. \A r \in Runs : \A m \in sessions[r] : m \in Models
  BY Bags
<1>2. Kept'
  BY <1>1 DEF PInv, Kept, Sent, Lasting
<1>3. ASSUME NEW s \in taken, NEW m \in s[2]
      PROVE  There(s[1], m)' /\ Sent(s[1], m)'
  <2>1. s[1] \in Runs /\ m \in Models
    BY <1>3, Bags
  <2> QED
    BY <1>3, <2>1 DEF PInv, SessionHonest, P!SessionHonest, Lasting, There, Sent
<1> QED
  BY <1>2, <1>3 DEF PInv, SessionHonest, P!SessionHonest, There, Sent

LEMMA IdleDue == Due(P!Idle) /\ Due(P!Idle)' /\ P!Idle = Doing("idle", None, None, 0)
<1>1. P!Idle = Doing("idle", None, None, 0)
  BY DEF P!Idle, Doing
<1>2. Doing("idle", None, None, 0) \in CallRecord
  BY CallFields
<1>3. Doing("idle", None, None, 0).at = "idle"
  BY CallFields
<1> QED
  BY <1>1, <1>2, <1>3 DEF Due

LEMMA BeginKeeps ==
  ASSUME PInv, NEW t \in Threads, NEW named \in Runs \cup {None}, Active \in Runs \cup {None},
         P!Begin(t, named)
  PROVE  PInv'
<1>1. P!Resolved(t, named) \in Runs \cup {None}
  BY DEF P!Resolved, ActiveOf
<1>2. ASSUME NEW model \in Models, P!LogParams(t, named, model) PROVE PInv'
  <2>1. PICK r : r = P!Resolved(t, named) /\ r \in Runs
    BY <1>1, <1>2 DEF P!LogParams
  <2>2. PICK c : c = Doing(P!Sending(1, model), r, model, 1)
    OBVIOUS
  <2>3. call' = [call EXCEPT ![t] = c]
    BY <1>2, <2>1, <2>2 DEF P!LogParams, Doing
  <2>4. UNCHANGED <<params, artifacts, sessions, claimed, taken, logged>>
    BY <1>2 DEF P!LogParams, P!server, P!history
  <2>5. Due(c)'
    <3>1. Batches[model] \in Nat /\ 1 \in Nat /\ P!Sending(1, model) \in {"send", "artifact"}
      BY TrainingAssumption DEF P!Sending
    <3>2. c \in CallRecord /\ c.at = P!Sending(1, model) /\ c.run = r /\ c.model = model /\ c.batch = 1
      BY <2>1, <2>2, <3>1, CallFields
    <3>3. r # None /\ model # None
      BY <2>1, LifecycleAssumption, TrainingAssumption
    <3>4. P!Sending(1, model) = "send" => 1 \in 1 .. Batches[model] /\ 1 .. 1 - 1 = {}
      BY <3>1 DEF P!Sending
    <3>5. P!Sending(1, model) = "artifact" => 1 .. Batches[model] = {}
      BY <3>1 DEF P!Sending
    <3>6. Due(c)
      BY <3>1, <3>2, <3>3, <3>4, <3>5 DEF Due, Sent
    <3> QED
      BY <2>4, <3>6, DueStays, StillThere
  <2> QED
    BY <2>3, <2>4, <2>5, Bags, DueOf, RecordsKept, StillThere DEF PInv
<1>3. CASE P!Claim(t, named)
  <2>1. PICK r : r = P!Resolved(t, named) /\ r \in Runs
    BY <1>1, <1>3 DEF P!Claim
  <2>2. PICK c : c = Doing("copy", r, None, 0)
    OBVIOUS
  <2>3. call' = [call EXCEPT ![t] = c]
    BY <1>3, <2>1, <2>2 DEF P!Claim, Doing
  <2>4. UNCHANGED <<params, artifacts, sessions, taken, logged>> /\ claimed' = claimed \cup {r}
    BY <1>3, <2>1 DEF P!Claim, P!Marked, P!server, P!history
  <2>5. Due(c)'
    <3>1. None \in Models \cup {None} /\ 0 \in Nat /\ r \in Runs \cup {None}
      BY <2>1
    <3>2. c \in CallRecord /\ c.at = "copy" /\ c.run = r
      BY <2>2, <3>1, DoingIs, SMTT(30)
    <3> QED
      BY <2>1, <2>4, <3>2, LifecycleAssumption DEF Due
  <2>6. claimed \subseteq claimed' /\ claimed' \subseteq Runs
    BY <2>1, <2>4, Bags
  <2> QED
    BY <2>3, <2>4, <2>5, <2>6, Bags, DueOf, RecordsKept, StillThere DEF PInv
<1> QED
  BY <1>2, <1>3 DEF P!Begin

(* A batch or an artifact that was sent.                                   *)
LEMMA SentKept ==
  ASSUME PInv, NEW t \in Threads
  PROVE  /\ P!IsAt(t, "send") /\ P!Sent(t) =>
              /\ params \subseteq params'
              /\ params' \subseteq {p \in Runs \X Models \X Nat : p[3] \in 1 .. Batches[p[2]]}
         /\ P!IsAt(t, "artifact") /\ P!Written(t) =>
              Lasting /\ OnePerName'
<1>1. Due(call[t]) /\ call[t] \in CallRecord
  BY CallsDue
<1>2. ASSUME call[t].at \in {"send", "artifact"}
      PROVE  call[t].run \in Runs /\ call[t].model \in Models
  BY <1>1, <1>2, CallFields DEF Due
<1>3. call[t].batch \in Nat /\ (call[t].at = "send" => call[t].batch \in 1 .. Batches[call[t].model])
  BY <1>1, CallFields DEF Due
<1>4. ASSUME P!IsAt(t, "artifact"), P!Written(t) PROVE Lasting /\ OnePerName'
  BY <1>2, <1>4, Bags, Overwrites DEF P!IsAt, P!Written, P!Overwritten, P!Run, P!Model
<1> QED
  BY <1>2, <1>3, <1>4, Bags DEF P!IsAt, P!Sent, P!Run, P!Model

LEMMA ReturnKeeps ==
  ASSUME PInv, NEW t \in Threads, P!Fail(t) \/ P!Abandon(t)
  PROVE  PInv'
<1>1. /\ call' = [call EXCEPT ![t] = P!Idle] /\ UNCHANGED <<sessions, claimed, taken, logged>>
  BY DEF P!Fail, P!Abandon, P!Return, P!history
<1>2. /\ params \subseteq params' /\ Lasting
      /\ params' \subseteq {p \in Runs \X Models \X Nat : p[3] \in 1 .. Batches[p[2]]}
      /\ OnePerName'
  <2>1. artifacts' = artifacts => Lasting /\ OnePerName'
    BY Bags, StillThere
  <2> QED
    BY <2>1, SentKept, Bags DEF P!Fail, P!Abandon, P!server
<1> QED
  BY <1>1, <1>2, IdleDue, Bags, DueOf, RecordsKept DEF PInv

LEMMA ProceedKeeps ==
  ASSUME PInv, NEW t \in Threads, P!Proceed(t)
  PROVE  PInv'
<1> DEFINE r == call[t].run
           m == call[t].model
           n == call[t].batch
<1>1. Due(call[t]) /\ call[t] \in CallRecord /\ call \in [Threads -> CallRecord]
  BY CallsDue
<1>2. call[t].at \notin {"idle", "copy"} => r \in Runs /\ m \in Models /\ Batches[m] \in Nat
  BY <1>1, CallFields, TrainingAssumption DEF Due
<1>3. /\ n \in Nat /\ n + 1 \in Nat
      /\ r \in Runs \cup {None} /\ m \in Models \cup {None}
      /\ call[t].at # "idle" => r \in Runs
  BY <1>1, CallFields DEF Due
<1>4. CASE P!Send(t)
  <2>1. call[t].at = "send" /\ P!Sent(t) /\ P!IsAt(t, "send")
        /\ UNCHANGED <<artifacts, sessions, claimed, taken, logged>>
    BY <1>4 DEF P!Send, P!IsAt, P!history
  <2>2. PICK k \in Nat : k = n + 1
    BY <1>3
  <2>3. PICK a \in {"send", "artifact"} : a = P!Sending(k, m)
    BY DEF P!Sending
  <2>4. PICK c : c = Doing(a, r, m, k)
    OBVIOUS
  <2>5. call' = [call EXCEPT ![t] = c]
    <3>1. call' = [call EXCEPT ![t].at = a, ![t].batch = k]
      BY <1>4, <2>2, <2>3 DEF P!Send, P!Model
    <3>2. call'[t] = c
      BY <1>1, <2>4, <3>1 DEF CallRecord, Doing
    <3>3. call' = [call EXCEPT ![t] = call'[t]]
      BY <1>1, <3>1
    <3> QED
      BY <3>2, <3>3
  <2>6. params \subseteq params'
        /\ params' \subseteq {p \in Runs \X Models \X Nat : p[3] \in 1 .. Batches[p[2]]}
    BY <2>1, SentKept
  <2>7. Due(c)'
    <3>1. a \in {"idle", "send", "artifact", "remember", "check", "copy"} /\ k \in Nat
      BY <2>2, <2>3
    <3>2. c \in CallRecord /\ c.at = a /\ c.run = r /\ c.model = m /\ c.batch = k
      BY <1>3, <2>4, <3>1 DEF CallRecord, Doing
    <3>3. r # None /\ m # None /\ Batches[m] \in Nat /\ n \in 1 .. Batches[m]
      BY <1>1, <1>2, <2>1, LifecycleAssumption, TrainingAssumption DEF Due
    <3>4. \A b \in 1 .. n : <<r, m, b>> \in params'
      <4>1. \A b \in 1 .. n : b \in 1 .. n - 1 \/ b = n
        BY <1>3
      <4>2. \A b \in 1 .. n - 1 : <<r, m, b>> \in params
        BY <1>1, <2>1 DEF Due
      <4>3. params' = params \cup {<<r, m, n>>}
        BY <2>1 DEF P!Sent, P!Run, P!Model
      <4> QED
        BY <4>1, <4>2, <4>3
    <3>5. k - 1 = n
      BY <1>3, <2>2
    <3>6. a = "send" => k \in 1 .. Batches[m]
      BY <2>2, <2>3, <3>3 DEF P!Sending
    <3>7. a = "artifact" => 1 .. Batches[m] = 1 .. n
      BY <2>2, <2>3, <3>3 DEF P!Sending
    <3> HIDE DEF r, m, n
    <3> QED
      BY <2>3, <3>2, <3>3, <3>4, <3>5, <3>6, <3>7 DEF Due, Sent
  <2> QED
    BY <2>1, <2>5, <2>6, <2>7, Bags, DueOf, RecordsKept, StillThere DEF PInv
<1>5. CASE P!Write(t)
  <2>1. /\ call[t].at = "artifact" /\ P!Written(t) /\ P!IsAt(t, "artifact")
        /\ call' = [call EXCEPT ![t].at = "remember"]
        /\ UNCHANGED <<params, sessions, claimed, taken, logged>>
    BY <1>5 DEF P!Write, P!IsAt, P!history, P!Goto
  <2>2. PICK c : c = Doing("remember", r, m, n)
    OBVIOUS
  <2>3. call' = [call EXCEPT ![t] = c]
    <3>1. call'[t] = c
      BY <1>1, <2>1, <2>2 DEF CallRecord, Doing
    <3>2. call' = [call EXCEPT ![t] = call'[t]]
      BY <1>1, <2>1
    <3> QED
      BY <3>1, <3>2
  <2>4. Lasting /\ OnePerName'
        /\ There(r, m)'
    BY <1>2, <2>1, Bags, Overwrites DEF P!Written, P!Overwritten, P!Run, P!Model
  <2>5. Due(c)'
    <3>1. c \in CallRecord /\ c.at = "remember" /\ c.run = r /\ c.model = m
      BY <1>3, <2>2 DEF CallRecord, Doing
    <3>2. r # None /\ m # None /\ Sent(r, m)
      BY <1>1, <1>2, <2>1, LifecycleAssumption, TrainingAssumption DEF Due
    <3> QED
      BY <2>1, <2>4, <3>1, <3>2 DEF Due, Sent
  <2> QED
    BY <2>1, <2>3, <2>4, <2>5, Bags, DueOf, RecordsKept DEF PInv
<1>6. CASE P!Remember(t)
  <2>1. /\ call[t].at = "remember" /\ call' = [call EXCEPT ![t].at = "check"]
        /\ sessions' = [sessions EXCEPT ![r] = @ \cup {m}]
        /\ UNCHANGED <<params, artifacts, claimed, taken, logged>>
    BY <1>6 DEF P!Remember, P!IsAt, P!history, P!Goto, P!server, P!Run, P!Model
  <2>2. PICK c : c = Doing("check", r, m, n)
    OBVIOUS
  <2>3. call' = [call EXCEPT ![t] = c]
    <3>1. call'[t] = c
      BY <1>1, <2>1, <2>2 DEF CallRecord, Doing
    <3>2. call' = [call EXCEPT ![t] = call'[t]]
      BY <1>1, <2>1
    <3> QED
      BY <3>1, <3>2
  <2>4. r \in Runs /\ m \in Models /\ Sent(r, m) /\ There(r, m)
    BY <1>1, <1>2, <2>1 DEF Due
  <2>5. /\ sessions' \in [Runs -> SUBSET Models] /\ m \in sessions'[r]
        /\ \A q \in Runs : sessions[q] \subseteq sessions'[q]
        /\ \A q \in Runs : sessions'[q] \subseteq sessions[q] \cup (IF q = r THEN {m} ELSE {})
    BY <2>1, <2>4, Bags
  <2>6. Due(c)'
    <3>1. c \in CallRecord /\ c.at = "check" /\ c.run = r /\ c.model = m
      BY <1>3, <2>2 DEF CallRecord, Doing
    <3> QED
      BY <2>1, <2>4, <2>5, <3>1, LifecycleAssumption, TrainingAssumption, StillThere DEF Due, Sent
  <2>7. Kept' /\ SessionHonest'
    <3>1. \A l \in logged : l.run \in Runs
      BY Bags
    <3>2. \A q \in Runs : \A x \in sessions'[q] : There(q, x) /\ Sent(q, x)
      BY <2>4, <2>5 DEF PInv, Kept
    <3> QED
      BY <2>1, <2>5, <3>1, <3>2, StillThere DEF PInv, Kept, Sent, SessionHonest, P!SessionHonest
  <2> QED
    BY <2>1, <2>3, <2>5, <2>6, <2>7, Bags, DueOf, StillThere DEF PInv
<1>7. CASE P!Check(t)
  <2> DEFINE l == [run |-> r, model |-> m, warned |-> r \in claimed]
  <2>1. /\ call[t].at = "check" /\ call' = [call EXCEPT ![t] = P!Idle]
        /\ logged' = logged \cup {l}
        /\ UNCHANGED <<params, artifacts, sessions, claimed, taken>>
    BY <1>7 DEF P!Check, P!IsAt, P!Return, P!server, P!Run, P!Model
  <2>2. r \in Runs /\ m \in Models /\ m \in sessions[r]
    BY <1>1, <1>2, <2>1 DEF Due
  <2>3. l \in [run : Runs, model : Models, warned : BOOLEAN]
    BY <2>2
  <2>4. Kept' /\ SessionHonest'
    <3>1. Kept'
      BY <2>1, <2>2, StillThere DEF PInv, Kept, Sent
    <3>2. \A s \in taken : s[1] = r => r \in claimed
      BY DEF PInv, Kept
    <3>3. \A s \in taken : s[1] = l.run => l.warned
      BY <3>2
    <3> QED
      BY <2>1, <3>1, <3>3 DEF PInv, SessionHonest, P!SessionHonest
  <2>5. logged' \subseteq [run : Runs, model : Models, warned : BOOLEAN]
    BY <2>1, <2>3, Bags
  <2> HIDE DEF l
  <2> QED
    BY <2>1, <2>4, <2>5, IdleDue, Bags, DueOf, StillThere DEF PInv
<1>8. CASE P!Copy(t)
  <2>1. /\ call[t].at = "copy" /\ call' = [call EXCEPT ![t] = P!Idle]
        /\ taken' = taken \cup {<<r, sessions[r]>>}
        /\ UNCHANGED <<params, artifacts, sessions, claimed, logged>>
    BY <1>8 DEF P!Copy, P!IsAt, P!Return, P!server, P!Run
  <2>2. r \in Runs /\ r \in claimed
    BY <1>1, <1>3, <2>1, LifecycleAssumption DEF Due
  <2>3. taken' \subseteq Runs \X SUBSET Models
    BY <2>1, <2>2, Bags
  <2>4. Kept' /\ SessionHonest'
    <3>1. Kept'
      BY <2>1, <2>2, StillThere DEF PInv, Kept, Sent
    <3>2. \A x \in sessions[r] : There(r, x) /\ Sent(r, x)
      BY <2>2 DEF PInv, Kept
    <3>3. \A g \in logged : r = g.run => g.model \in sessions[r]
      BY DEF PInv, Kept
    <3> QED
      BY <2>1, <3>1, <3>2, <3>3 DEF PInv, There, Sent, SessionHonest, P!SessionHonest
  <2> QED
    BY <2>1, <2>3, <2>4, IdleDue, Bags, DueOf, StillThere DEF PInv
<1> QED
  BY <1>4, <1>5, <1>6, <1>7, <1>8 DEF P!Proceed
-----------------------------------------------------------------------------
(* The training script.                                                    *)

(* A body finds its own run on top, if neither went astray.                *)
LEMMA InnerActive ==
  ASSUME LInv, blocks # <<>>, Inner \notin astray, Active \notin astray
  PROVE  Inner \in Runs /\ Inner = Active
<1> DEFINE n == Len(blocks)
           m == Len(stack)
<1>1. Inner \in Runs /\ Contains(blocks, Inner) /\ n \in 1 .. n /\ blocks[n] = Inner
  BY Types, Popped, PoppedContains DEF Inner, Last
<1>2. Contains(stack, Inner)
  BY <1>1 DEF LInv, Owned
<1>3. PICK l \in 1 .. m : stack[l] = Inner
  BY <1>2 DEF Contains
<1>4. m \in 1 .. m /\ stack[m] = Active
  <2>1. stack # <<>>
    BY <1>2 DEF Contains
  <2> QED
    BY <2>1, Types, Popped DEF Active, Last
<1>5. Active \in Runs /\ status[Active] = "RUNNING"
  BY <1>4, Types DEF Contains
<1>6. Contains(blocks, Active)
  BY <1>5 DEF LInv, Owned, Ended
<1>7. PICK i \in 1 .. n : blocks[i] = Active
  BY <1>6 DEF Contains
<1>8. ASSUME Inner # Active PROVE FALSE
  <2>1. i < n
    BY <1>1, <1>7, <1>8
  <2>2. m < l
    BY <1>1, <1>3, <1>4, <1>7, <2>1 DEF LInv, InOrder
  <2> QED
    BY <1>3, <1>4, <2>2
<1> QED
  BY <1>1, <1>8

LEMMA ActiveType ==
  ASSUME LInv
  PROVE  Active \in Runs \cup {None}
BY Types, Popped DEF Active

LEMMA LifecycleStays ==
  ASSUME LInv, UNCHANGED vars
  PROVE  LInv'
BY DEF vars, LInv, TypeOK, StackRuns, BlocksOpen, Owned, InOrder, Exits, Causes, Contains, Inner

LEMMA ParamsStay ==
  ASSUME PInv, UNCHANGED calls
  PROVE  PInv'
<1>1. UNCHANGED <<call, params, artifacts, sessions, claimed, taken, logged>>
  BY DEF calls
<1>2. P!TypeOK'
  BY <1>1 DEF PInv, P!TypeOK
<1>3. Calls'
  BY <1>1 DEF PInv, Calls, Sent, There
<1>4. Kept'
  BY <1>1 DEF PInv, Kept, Sent, There
<1>5. SessionHonest'
  BY <1>1 DEF PInv, SessionHonest, P!SessionHonest
<1> QED
  BY <1>2, <1>3, <1>4, <1>5 DEF PInv

LEMMA OtherCalls ==
  ASSUME PInv, NEW t \in Threads, NEW named,
         P!Begin(t, named) \/ P!Proceed(t) \/ P!Fail(t) \/ P!Abandon(t)
  PROVE  /\ \A u \in Threads \ {t} : call'[u] = call[u]
         /\ P!Proceed(t) \/ P!Fail(t) \/ P!Abandon(t) => call[t].at # "idle"
         /\ P!Fail(t) \/ P!Abandon(t) => call'[t].at = "idle"
<1>1. call \in [Threads -> CallRecord]
  BY CallsDue
<1>2. \A u \in Threads \ {t} : call'[u] = call[u]
  BY <1>1
  DEF P!Begin, P!LogParams, P!Claim, P!Proceed, P!Send, P!Write, P!Remember, P!Check, P!Copy,
      P!Fail, P!Abandon, P!Return, P!Goto
<1>3. P!Proceed(t) \/ P!Fail(t) \/ P!Abandon(t) => call[t].at # "idle"
  BY DEF P!Proceed, P!Send, P!Write, P!Remember, P!Check, P!Copy, P!Fail, P!Abandon, P!IsAt
<1>4. P!Fail(t) \/ P!Abandon(t) => call'[t].at = "idle"
  BY <1>1, IdleDue, CallFields DEF P!Fail, P!Abandon, P!Return
<1> QED
  BY <1>2, <1>3, <1>4

LEMMA TrainingBegins == TInit => TInv
<1> SUFFICES ASSUME TInit PROVE TInv
  OBVIOUS
<1>1. LInv
  BY LifecycleBegins DEF TInit
<1>2. call = [t \in Threads |-> P!Idle] /\ call[Main].at = "idle"
      /\ \A t \in Threads : call[t].at = "idle"
  BY IdleDue, CallFields, TrainingAssumption DEF TInit, P!Init
<1>3. P!Idle \in CallRecord
  BY IdleDue DEF Due
<1>4. PInv
  <2>1. P!TypeOK
    BY <1>2, <1>3 DEF TInit, P!Init, P!TypeOK, CallRecord
  <2> QED
    BY <1>2, <2>1 DEF TInit, P!Init, PInv, Calls, Kept, SessionHonest, P!SessionHonest
<1>5. callsLeft \in [Threads -> 0 .. MaxCalls]
  BY TrainingAssumption DEF TInit
<1> QED
  BY <1>1, <1>2, <1>4, <1>5 DEF TInit, TInv, Waiting, LandsInBlock

LEMMA TrainingKeeps ==
  ASSUME TInv, [TNext]_allVars
  PROVE  TInv'
<1>1. LInv /\ PInv
  BY DEF TInv
<1>2. CASE Block
  <2>1. LInv'
    BY <1>1, <1>2, LifecycleKeeps DEF Block
  <2>2. PInv'
    BY <1>1, <1>2, ParamsStay DEF Block, training
  <2>3. call[Main].at = "idle" /\ call' = call /\ callsLeft' = callsLeft /\ body' = body
    BY <1>2 DEF Block, training, calls
  <2> QED
    BY <2>1, <2>2, <2>3 DEF TInv, Waiting, LandsInBlock
<1>3. ASSUME NEW t \in Threads, NEW named \in Runs \cup {None}, Begin(t, named) PROVE TInv'
  <2>1. P!Begin(t, named) /\ UNCHANGED vars /\ (t = Main => Running)
        /\ callsLeft[t] > 0 /\ callsLeft' = [callsLeft EXCEPT ![t] = @ - 1]
    BY <1>3 DEF Begin
  <2>2. LInv' /\ PInv'
    BY <1>1, <2>1, LifecycleStays, ActiveType, BeginKeeps
  <2>3. Waiting'
    <3>1. Running' = Running
      BY <2>1 DEF vars, Running
    <3>2. t # Main => call'[Main] = call[Main]
      BY <1>1, <2>1, OtherCalls, TrainingAssumption
    <3> QED
      BY <2>1, <3>1, <3>2 DEF TInv, Waiting
  <2>4. callsLeft' \in [Threads -> 0 .. MaxCalls]
    <3>1. callsLeft \in [Threads -> 0 .. MaxCalls] /\ callsLeft[t] - 1 \in 0 .. MaxCalls
      BY <2>1, TrainingAssumption DEF TInv
    <3> QED
      BY <2>1, <3>1
  <2>5. body' \subseteq Runs \X Runs /\ LandsInBlock'
    <3>1. body \subseteq Runs \X Runs /\ LandsInBlock
      BY DEF TInv
    <3>2. CASE body' = body
      BY <3>1, <3>2 DEF LandsInBlock
    <3>3. CASE /\ blocks # <<>> /\ {Inner, Active} \cap astray = {}
               /\ body' = body \cup {<<Inner, Active>>}
      <4>1. Inner \in Runs /\ Inner = Active
        BY <1>1, <3>3, InnerActive
      <4> QED
        BY <3>1, <3>3, <4>1 DEF LandsInBlock
    <3> QED
      BY <1>3, <3>2, <3>3 DEF Begin
  <2> QED
    BY <2>2, <2>3, <2>4, <2>5 DEF TInv
<1>4. ASSUME NEW t \in Threads, Step(t) PROVE TInv'
  <2>1. /\ UNCHANGED <<stack, blocks, status, causes, continues, exiting, left, astray, starts>>
        /\ UNCHANGED <<callsLeft, body>>
    BY <1>4 DEF Step
  <2>2. \/ P!Proceed(t) /\ UNCHANGED raised
        \/ P!Fail(t) /\ raised' = IF t = Main THEN "error" ELSE raised
        \/ t = Main /\ P!Abandon(t) /\ raised' = "interrupt"
    BY <1>4 DEF Step
  <2>3. /\ \A u \in Threads \ {t} : call'[u] = call[u]
        /\ call[t].at # "idle"
        /\ P!Fail(t) \/ P!Abandon(t) => call'[t].at = "idle"
    <3>1. None \in Runs \cup {None}
      OBVIOUS
    <3> QED
      BY <1>1, <2>2, OtherCalls
  <2>4. PInv'
    BY <1>1, <2>2, ProceedKeeps, ReturnKeeps
  <2>5. CASE UNCHANGED raised
    <3>1. UNCHANGED vars
      BY <2>1, <2>5 DEF vars, causes
    <3>2. LInv'
      BY <1>1, <3>1, LifecycleStays
    <3>3. Waiting'
      BY <2>1, <2>3, <2>5, TrainingAssumption DEF TInv, Waiting, Running
    <3> QED
      BY <2>1, <2>4, <3>2, <3>3 DEF TInv, LandsInBlock
  <2>6. CASE t = Main /\ raised' \in Exceptions /\ (P!Fail(t) \/ P!Abandon(t))
    <3>1. exiting = "no"
      BY <2>3, <2>6 DEF TInv, Waiting, Running
    <3>2. LInv'
      BY <1>1, <2>1, <2>6, <3>1, RaisedKeeps
    <3>3. Waiting'
      BY <2>3, <2>6 DEF Waiting
    <3> QED
      BY <2>1, <2>4, <3>2, <3>3 DEF TInv, LandsInBlock
  <2> QED
    BY <2>2, <2>5, <2>6 DEF Exceptions
<1>5. CASE UNCHANGED allVars
  <2>1. LInv'
    BY <1>1, <1>5, LifecycleStays DEF allVars
  <2>2. PInv'
    BY <1>1, <1>5, ParamsStay DEF allVars, training
  <2> QED
    BY <1>5, <2>1, <2>2
    DEF TInv, allVars, training, calls, Waiting, LandsInBlock, vars, Running
<1> QED
  BY <1>2, <1>3, <1>4, <1>5 DEF TNext

LEMMA TrainingInvariant == TSpec => []TInv
BY TrainingBegins, TrainingKeeps, PTL DEF TSpec

(* Every variable of the script keeps its type.                            *)
THEOREM TypeCorrect == TSpec => []TTypeOK
<1>1. TInv => TTypeOK
  BY DEF TInv, TTypeOK, LInv, PInv
<1> QED
  BY <1>1, TrainingInvariant, PTL

(* A run ends as its own block was left, whatever the blocks around and    *)
(* inside it do and wherever an interrupt falls.                           *)
THEOREM EndedAsLeftCorrect == TSpec => []EndedAsLeft
<1>1. TInv => EndedAsLeft
  <2> SUFFICES ASSUME TInv, NEW r \in Runs \ astray
               PROVE  <<left[r], status[r]>> \in
                        {<<"open", "none">>, <<"open", "RUNNING">>, <<"normal", "FINISHED">>,
                         <<"error", "FAILED">>, <<"interrupt", "KILLED">>}
    BY DEF EndedAsLeft
  <2>1. LInv
    BY DEF TInv
  <2>2. CASE Contains(blocks, r)
    BY <2>1, <2>2, Types DEF LInv, Owned
  <2>3. CASE ~Contains(blocks, r)
    BY <2>1, <2>3 DEF LInv, Owned, Ended
  <2> QED
    BY <2>2, <2>3
<1> QED
  BY <1>1, TrainingInvariant, PTL

(* The cause recorded is that of the exception that left the run's block.  *)
THEOREM CauseToldCorrect == TSpec => []CauseTold
<1>1. TInv => CauseTold
  <2> SUFFICES ASSUME TInv, NEW r \in Runs
               PROVE  /\ left[r] \in Exceptions => cause[r] = left[r] \/ r \in refused
                      /\ left[r] = "normal" /\ starts[r] = 1 => cause[r] = None
    BY DEF CauseTold
  <2>1. LInv
    BY DEF TInv
  <2>2. exiting = "end" => left[Inner] = "open"
    <3>1. exiting = "end" => Contains(blocks, Inner)
      BY <2>1, Types, PoppedContains DEF LInv, Exits, Inner
    <3> QED
      BY <2>1, <3>1, Types
  <2> QED
    BY <2>1, <2>2 DEF LInv, Causes
<1> QED
  BY <1>1, TrainingInvariant, PTL

(* TensorBoard's hyperparameters are on the server, and a model is missing *)
(* from a session only with a warning, whichever thread claims when.       *)
THEOREM SessionHonestCorrect == TSpec => []SessionHonest
<1>1. TInv => SessionHonest
  BY DEF TInv, PInv
<1> QED
  BY <1>1, TrainingInvariant, PTL

(* What a body logs without naming a run lands on the run of its block.    *)
THEOREM LandsInBlockCorrect == TSpec => []LandsInBlock
<1>1. TInv => LandsInBlock
  BY DEF TInv
<1> QED
  BY <1>1, TrainingInvariant, PTL
-----------------------------------------------------------------------------
(* Every set of numbers that is not empty has a least element.             *)
LEMMA Least ==
  ASSUME NEW A \in SUBSET Nat, A # {}
  PROVE  \E m \in A : \A n \in A : m <= n
<1>1. PICK T : T = {1 .. n : n \in A}
  OBVIOUS
<1>2. T \subseteq FiniteSubsetsOf(Nat) /\ T # {}
  <2>1. \A n \in A : IsFiniteSet(1 .. n) /\ 1 .. n \subseteq Nat
    BY FS_Interval
  <2> QED
    BY <1>1, <2>1 DEF FiniteSubsetsOf
<1>3. PICK x \in T : \A y \in T : <<y, x>> \notin StrictSubsetOrdering(Nat)
  BY <1>2, WFMin, FS_StrictSubsetOrderingWellFounded
<1>4. PICK m \in A : x = 1 .. m
  BY <1>1
<1>5. ASSUME NEW n \in A, n < m PROVE FALSE
  <2>1. 1 .. n \in T /\ 1 .. n \subseteq 1 .. m /\ 1 .. m \subseteq Nat
    BY <1>1, <1>5
  <2>2. m \in 1 .. m /\ m \notin 1 .. n
    BY <1>5
  <2>3. <<1 .. n, 1 .. m>> \in StrictSubsetOrdering(Nat)
    BY <2>1, <2>2 DEF StrictSubsetOrdering
  <2> QED
    BY <1>3, <1>4, <2>1, <2>3
<1> QED
  BY <1>5

(* The loop of attempt_runs: a round goes on from the one before it.       *)
WalkFrom(w) == IF w.end = "none" THEN GetRun(w) ELSE w
LEMMA WalkIs ==
  ASSUME NEW r
  PROVE  Walk(r) = [n \in 0 .. Cardinality(Runs) + 1 |->
                      IF n = 0 THEN [seen |-> <<>>, next |-> r, end |-> "none"]
                      ELSE WalkFrom(Walk(r)[n - 1])]
<1>1. PICK size \in Nat : size = Cardinality(Runs) + 1
  BY LifecycleAssumption, FS_CardinalityType
<1>2. PICK first : first = [seen |-> <<>>, next |-> r, end |-> "none"]
  OBVIOUS
<1> DEFINE Rounds(f, k) == f = [n \in 0 .. k |-> IF n = 0 THEN first ELSE WalkFrom(f[n - 1])]
<1> HIDE DEF Rounds
<1>3. \A k \in 0 .. size : \E f : Rounds(f, k)
  <2> SUFFICES ASSUME NEW bad, bad = {k \in 0 .. size : ~\E f : Rounds(f, k)}, bad # {}
               PROVE  FALSE
    OBVIOUS
  <2>1. PICK k \in bad : \A m \in bad : k <= m
    <3>1. bad \in SUBSET Nat
      OBVIOUS
    <3> QED
      BY <3>1, Least
  <2>2. CASE k = 0
    <3>1. PICK f : f = [n \in 0 .. 0 |-> first]
      OBVIOUS
    <3>2. f = [n \in 0 .. 0 |-> IF n = 0 THEN first ELSE WalkFrom(f[n - 1])]
      BY <3>1
    <3> QED
      BY <2>1, <2>2, <3>2 DEF Rounds
  <2>3. CASE k # 0
    <3>1. k \in 1 .. size /\ k - 1 \in 0 .. size /\ k - 1 \notin bad
      BY <2>1, <2>3
    <3>2. PICK f : Rounds(f, k - 1)
      BY <3>1
    <3>3. PICK g : g = [n \in 0 .. k |-> IF n = k THEN WalkFrom(f[k - 1]) ELSE f[n]]
      OBVIOUS
    <3>4. \A n \in 0 .. k - 1 : f[n] = IF n = 0 THEN first ELSE WalkFrom(f[n - 1])
      BY <3>2 DEF Rounds
    <3>5. ASSUME NEW n \in 0 .. k
          PROVE  g[n] = IF n = 0 THEN first ELSE WalkFrom(g[n - 1])
      <4>1. CASE n = k
        <5>1. g[n] = WalkFrom(f[k - 1]) /\ g[n - 1] = f[k - 1]
          BY <3>1, <3>3, <4>1
        <5> QED
          BY <3>1, <4>1, <5>1
      <4>2. CASE n # k
        <5>1. n \in 0 .. k - 1 /\ g[n] = f[n] /\ (n # 0 => g[n - 1] = f[n - 1])
          BY <3>1, <3>3, <4>2
        <5> QED
          BY <3>4, <5>1
      <4> QED
        BY <4>1, <4>2
    <3>6. g = [n \in 0 .. k |-> IF n = 0 THEN first ELSE WalkFrom(g[n - 1])]
      BY <3>3, <3>5
    <3> QED
      BY <2>1, <3>6 DEF Rounds
  <2> QED
    BY <2>2, <2>3
<1>4. \E f : f = [n \in 0 .. Cardinality(Runs) + 1 |->
                    IF n = 0 THEN [seen |-> <<>>, next |-> r, end |-> "none"]
                    ELSE WalkFrom(f[n - 1])]
  BY <1>1, <1>2, <1>3 DEF Rounds
<1>5. Walk(r) = CHOOSE f : f = [n \in 0 .. Cardinality(Runs) + 1 |->
                    IF n = 0 THEN [seen |-> <<>>, next |-> r, end |-> "none"]
                    ELSE WalkFrom(f[n - 1])]
  BY DEF Walk, WalkFrom
<1> QED
  BY <1>4, <1>5

(* What the loop has found after n rounds: a beginning of the chain, which *)
(* has n attempts unless it has ended.                                     *)
Chain(w, r, n) ==
  /\ w \in [seen : Seq(Runs), next : Runs \cup Named \cup {None},
            end : {"none", "first", "revisits", "missing"}]
  /\ IsInjective(w.seen)
  /\ IF w.seen = <<>> THEN n = 0 /\ w.next = r /\ w.end = "none"
     ELSE w.seen[1] = r /\ w.next = continues[w.seen[Len(w.seen)]]
  /\ \A i \in 1 .. Len(w.seen) - 1 : continues[w.seen[i]] = w.seen[i + 1]
  /\ w.end = "none" => Len(w.seen) = n
  /\ w.end = "first" => w.next = None
  /\ w.end = "revisits" => Contains(w.seen, w.next)
  /\ w.end = "missing" => w.next # None /\ (w.next \in Runs => status[w.next] = "none")

LEMMA ChainGrows ==
  ASSUME TypeOK, NEW r \in Runs, status[r] # "none", NEW n \in Nat, NEW w, Chain(w, r, n)
  PROVE  Chain(WalkFrom(w), r, n + 1)
<1>1. CASE w.end # "none"
  BY <1>1 DEF Chain, WalkFrom
<1>2. CASE w.end = "none" /\ w.next = None
  <2>1. w.seen # <<>>
    BY <1>2, LifecycleAssumption DEF Chain
  <2>2. WalkFrom(w) = [w EXCEPT !.end = "first"]
    BY <1>2 DEF WalkFrom, GetRun
  <2> QED
    BY <1>2, <2>1, <2>2 DEF Chain
<1>3. CASE w.end = "none" /\ w.next # None /\ w.next \in Runs /\ Contains(w.seen, w.next)
  <2>1. w.seen # <<>>
    BY <1>3 DEF Contains
  <2>2. WalkFrom(w) = [w EXCEPT !.end = "revisits"]
    BY <1>3 DEF WalkFrom, GetRun, Revisits
  <2> QED
    BY <1>3, <2>1, <2>2 DEF Chain
<1>4. CASE w.end = "none" /\ w.next # None /\ ~(w.next \in Runs /\ status[w.next] # "none")
  <2>1. w.seen # <<>>
    BY <1>4 DEF Chain
  <2>2. \/ WalkFrom(w) = [w EXCEPT !.end = "missing"]
        \/ w.next \in Runs /\ Contains(w.seen, w.next)
    BY <1>4 DEF WalkFrom, GetRun, Revisits
  <2> QED
    BY <1>3, <1>4, <2>1, <2>2 DEF Chain
<1>5. CASE w.end = "none" /\ w.next \in Runs /\ status[w.next] # "none" /\ ~Contains(w.seen, w.next)
  <2>1. PICK seen \in Seq(Runs), next \in Runs : seen = w.seen /\ next = w.next
    BY <1>5 DEF Chain
  <2>2. WalkFrom(w) = [w EXCEPT !.seen = Append(seen, next), !.next = continues[next]]
    BY <1>5, <2>1, LifecycleAssumption DEF WalkFrom, GetRun, Revisits
  <2>3. continues[next] \in Runs \cup Named \cup {None}
    BY DEF TypeOK
  <2>4. /\ Append(seen, next) \in Seq(Runs) /\ Len(Append(seen, next)) = Len(seen) + 1
        /\ Append(seen, next)[Len(seen) + 1] = next
        /\ \A i \in 1 .. Len(seen) : Append(seen, next)[i] = seen[i]
        /\ Append(seen, next) # <<>> /\ Len(seen) \in Nat
    OBVIOUS
  <2>5. IsInjective(Append(seen, next))
    <3>1. IsInjective(seen) /\ \A i \in 1 .. Len(seen) : seen[i] # next
      BY <1>5, <2>1 DEF Chain, Contains
    <3> QED
      BY <2>4, <3>1 DEF IsInjective
  <2>6. Append(seen, next)[1] = r
    BY <2>1, <2>4 DEF Chain
  <2>7. \A i \in 1 .. Len(seen) : continues[Append(seen, next)[i]] = Append(seen, next)[i + 1]
    <3> SUFFICES ASSUME NEW i \in 1 .. Len(seen)
                 PROVE  continues[Append(seen, next)[i]] = Append(seen, next)[i + 1]
      OBVIOUS
    <3>1. CASE i = Len(seen)
      BY <2>1, <2>4, <3>1 DEF Chain
    <3>2. CASE i # Len(seen)
      BY <2>1, <2>4, <3>2 DEF Chain
    <3> QED
      BY <3>1, <3>2
  <2>8. Len(seen) = n
    BY <1>5, <2>1 DEF Chain
  <2>9. PICK v : v = WalkFrom(w)
    OBVIOUS
  <2>10. /\ v \in [seen : Seq(Runs), next : Runs \cup Named \cup {None},
                   end : {"none", "first", "revisits", "missing"}]
         /\ v.seen = Append(seen, next) /\ v.next = continues[next] /\ v.end = "none"
    BY <1>5, <2>2, <2>3, <2>4, <2>9 DEF Chain
  <2> QED
    BY <2>4, <2>5, <2>6, <2>7, <2>8, <2>9, <2>10 DEF Chain
<1> QED
  BY <1>1, <1>2, <1>3, <1>4, <1>5

LEMMA ChainWalked ==
  ASSUME TypeOK, NEW r \in Runs, status[r] # "none"
  PROVE  Chain(AttemptRuns(r), r, Cardinality(Runs) + 1)
<1>1. PICK size \in Nat : size = Cardinality(Runs) + 1
  BY LifecycleAssumption, FS_CardinalityType
<1>2. PICK walk : walk = Walk(r)
  OBVIOUS
<1>3. /\ walk[0] = [seen |-> <<>>, next |-> r, end |-> "none"]
      /\ \A n \in 1 .. size : walk[n] = WalkFrom(walk[n - 1])
  BY <1>1, <1>2, WalkIs
<1>4. \A n \in 0 .. size : Chain(walk[n], r, n)
  <2> SUFFICES ASSUME NEW bad, bad = {n \in 0 .. size : ~Chain(walk[n], r, n)}, bad # {}
               PROVE  FALSE
    OBVIOUS
  <2>1. PICK n \in bad : \A m \in bad : n <= m
    <3>1. bad \in SUBSET Nat
      OBVIOUS
    <3> QED
      BY <3>1, Least
  <2>2. n # 0
    <3>1. PICK w : w = walk[0]
      OBVIOUS
    <3>2. w = [seen |-> <<>>, next |-> r, end |-> "none"]
      BY <1>3, <3>1
    <3>3. w.seen = <<>> /\ w.next = r /\ w.end = "none" /\ <<>> \in Seq(Runs) /\ Len(<<>>) = 0
      BY <3>2
    <3>4. w \in [seen : Seq(Runs), next : Runs \cup Named \cup {None},
                end : {"none", "first", "revisits", "missing"}]
      BY <3>2, <3>3
    <3>5. Chain(w, r, 0)
      BY <3>3, <3>4 DEF Chain, IsInjective
    <3> QED
      BY <2>1, <3>1, <3>5
  <2>3. n \in 1 .. size /\ n - 1 \in Nat /\ n - 1 \in 0 .. size /\ n - 1 \notin bad
    BY <2>1, <2>2
  <2>4. Chain(walk[n - 1], r, n - 1)
    BY <2>3
  <2>5. Chain(WalkFrom(walk[n - 1]), r, n - 1 + 1)
    BY <2>3, <2>4, ChainGrows
  <2> QED
    BY <1>3, <2>1, <2>3, <2>5
<1> QED
  BY <1>1, <1>2, <1>4 DEF AttemptRuns

(* The chain of attempts is walked to its end, however long it is: to an   *)
(* attempt that continues none, to one met before, or to one that is gone. *)
THEOREM WalkedCorrect == TSpec => []Walked
<1>1. ASSUME TypeOK, NEW r \in Runs, status[r] # "none"
      PROVE  LET walk == AttemptRuns(r)
                 last == continues[Last(walk.seen)]
             IN /\ walk.seen # <<>> /\ walk.seen[1] = r /\ IsInjective(walk.seen)
                /\ \A i \in 1..Len(walk.seen) - 1 : continues[walk.seen[i]] = walk.seen[i + 1]
                /\ \/ walk.end = "first" /\ last = None
                   \/ walk.end = "revisits" /\ Contains(walk.seen, last)
                   \/ walk.end = "missing" /\ last # None /\ (last \in Runs => status[last] = "none")
  <2>1. PICK w : w = AttemptRuns(r)
    OBVIOUS
  <2>2. Chain(w, r, Cardinality(Runs) + 1)
    BY <1>1, <2>1, ChainWalked
  <2>3. PICK size \in Nat : size = Cardinality(Runs)
    BY LifecycleAssumption, FS_CardinalityType
  <2>4. w.seen # <<>>
    BY <2>2, <2>3 DEF Chain
  <2>5. w.end # "none"
    <3> SUFFICES ASSUME w.end = "none" PROVE FALSE
      OBVIOUS
    <3>1. PICK seen \in Seq(Runs) : seen = w.seen /\ Len(seen) = size + 1
      BY <2>2, <2>3 DEF Chain
    <3>2. seen \in [1 .. size + 1 -> Runs]
      BY <3>1
    <3>3. IsFiniteSet(1 .. size + 1) /\ Cardinality(1 .. size + 1) = size + 1
      BY FS_Interval
    <3>4. PICK i, j \in 1 .. size + 1 : i # j /\ seen[i] = seen[j]
      BY <2>3, <3>2, <3>3, FS_PigeonHole, LifecycleAssumption
    <3> QED
      BY <2>2, <3>1, <3>2, <3>4 DEF Chain, IsInjective
  <2>6. Last(w.seen) = w.seen[Len(w.seen)]
    BY DEF Last
  <2> QED
    BY <2>1, <2>2, <2>4, <2>5, <2>6 DEF Chain
<1>2. TInv => Walked
  BY <1>1 DEF TInv, LInv, Walked
<1> QED
  BY <1>2, TrainingInvariant, PTL
=============================================================================
