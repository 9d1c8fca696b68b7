---------------------------- MODULE CclVarProof ----------------------------
(***************************************************************************)
(* Proofs about CclVar for every number of threads, variables, locations   *)
(* and element positions.  The argument: a counter is the size of a set of *)
(* holders (RefExact); each counter operation adds or removes exactly one  *)
(* holder of exactly one location; so whoever can name a location holds    *)
(* it, and a location that is being deleted can be named by nobody.        *)
(* The last part is about CclValue: the order of values is total at every  *)
(* depth, because a lexical order of ordered parts is an order.            *)
(***************************************************************************)
EXTENDS CclVar, CclValue, FiniteSetTheorems, SequenceTheorems, WellFoundedInduction, TLAPS

(* No place ever got the result of a read of deleted memory. *)
NoWild == \A p \in Places : at[p] # Wild

(* Only containers that exist, whole or half deleted, have elements. *)
ElemsInHeap == \A l \in Locs, i \in Slots :
                 at[<<l, i>>] # Null => Live(l) \/ l \in Dying

(* p is a variable of t, or an element of a container that a variable of t *)
(* other than d holds.                                                     *)
Anchored(t, d, p) ==
  \/ p \in Owned(t)
  \/ p \in Elems /\ \E h \in Owned(t) \ {d} : at[h] = p[1]

(* What operator= relies on from its first to its last statement. *)
OpStable ==
  \A t \in Threads : Busy(t) =>
    /\ Anchored(t, op[t].dst, op[t].dst)
    /\ Anchored(t, op[t].dst, op[t].src)
    /\ at[op[t].dst] \in Locs
    /\ at[op[t].src] = op[t].new
    /\ op[t].pc = "unref" => stack[t] = <<>>

(* No two threads are inside operator= on the same object, unless both     *)
(* only read it.                                                           *)
OpExclusive ==
  \A t, u \in Threads : t # u /\ Busy(t) /\ Busy(u) =>
    Object(op[t].dst) \notin {Object(op[u].dst), Object(op[u].src)}

IInv == /\ TypeOK /\ RefExact /\ DeletedOnce
        /\ NoWild /\ ElemsInHeap /\ OpStable /\ OpExclusive

-----------------------------------------------------------------------------
(* Sequences used as stacks *)

(* What pushing does to a stack, position by position. *)
LEMMA PushFacts ==
  ASSUME NEW S, NEW x \in S, NEW s \in Seq(S)
  PROVE  /\ <<x>> \o s \in Seq(S)
         /\ Len(<<x>> \o s) = Len(s) + 1
         /\ (<<x>> \o s)[1] = x
         /\ \A i \in 1 .. Len(s) : (<<x>> \o s)[i + 1] = s[i]
         /\ \A i \in 2 .. Len(<<x>> \o s) : (<<x>> \o s)[i] = s[i - 1]
  OBVIOUS

(* What popping does to a stack, position by position. *)
LEMMA PopFacts ==
  ASSUME NEW S, NEW s \in Seq(S), s # <<>>
  PROVE  /\ Tail(s) \in Seq(S)
         /\ Len(s) \in Nat /\ Len(s) >= 1
         /\ Len(Tail(s)) = Len(s) - 1
         /\ Head(s) = s[1] /\ Head(s) \in S
         /\ \A i \in 1 .. Len(Tail(s)) : Tail(s)[i] = s[i + 1]
  OBVIOUS

-----------------------------------------------------------------------------
(* Holders *)

(* There are finitely many places and threads. *)
LEMMA FiniteWorld == IsFiniteSet(Places \cup Threads)
<1>1. IsFiniteSet(Elems)
  BY FiniteAssumption, FS_Product DEF Elems
<1>2. IsFiniteSet(Handles \cup {Pool})
  BY FiniteAssumption, FS_AddElement
<1>3. IsFiniteSet(Places)
  BY <1>1, <1>2, FS_Union DEF Places
<1> QED
  BY <1>3, FiniteAssumption, FS_Union

(* The holders of a location are finitely many, so they can be counted. *)
LEMMA FiniteHolders ==
  ASSUME NEW l \in Locs
  PROVE  IsFiniteSet(Holders(l)) /\ Cardinality(Holders(l)) \in Nat
<1>1. Holders(l) \in SUBSET (Places \cup Threads)
  BY DEF Holders
<1> QED
  BY <1>1, FiniteWorld, FS_Subset, FS_CardinalityType

(* Replacing one member of a finite set by another keeps its size. *)
LEMMA SwapCount ==
  ASSUME NEW S, IsFiniteSet(S), NEW x \in S, NEW y, y \notin S
  PROVE  Cardinality((S \ {x}) \cup {y}) = Cardinality(S)
<1> DEFINE R == S \ {x}
<1>1. IsFiniteSet(R) /\ Cardinality(R) = Cardinality(S) - 1 /\ y \notin R
  BY FS_RemoveElement
<1>2. Cardinality(S) \in Nat
  BY FS_CardinalityType
<1> HIDE DEF R
<1>3. Cardinality(R \cup {y}) = Cardinality(R) + 1
  BY <1>1, FS_AddElement
<1>4. Cardinality(R \cup {y}) = Cardinality(S)
  BY <1>1, <1>2, <1>3
<1> QED
  BY <1>4 DEF R

(* cclvar.h:102: what is held is not deleted. *)
LEMMA HeldIsLive ==
  ASSUME TypeOK, RefExact, NEW l \in Locs, NEW x \in Holders(l)
  PROVE  Live(l)
<1>1. cnt[l] = Cardinality(Holders(l)) /\ cnt[l] \in Nat
  BY DEF RefExact, TypeOK
<1>2. Cardinality(Holders(l)) # 0
  BY FiniteHolders, FS_EmptySet
<1> QED
  BY <1>1, <1>2 DEF Live

(* A location whose counter is zero has no holder. *)
LEMMA FreeIsUnheld ==
  ASSUME TypeOK, RefExact, NEW l \in Locs, cnt[l] = 0
  PROVE  Holders(l) = {}
  BY FiniteHolders, FS_EmptySet DEF RefExact

(* A place of an object no operator= is writing holds what it points to. *)
LEMMA PlaceHolds ==
  ASSUME TypeOK, RefExact, NEW p \in Places, at[p] \in Locs, p \notin Released
  PROVE  p \in Holders(at[p]) /\ Live(at[p])
<1>1. p \in Holders(at[p])
  BY DEF Holders
<1> QED
  BY <1>1, HeldIsLive

(* A counter that goes up with one new holder, all others staying, is      *)
(* still exact.                                                            *)
LEMMA CountUp ==
  ASSUME TypeOK, RefExact, NEW l \in Locs, NEW x,
         x \notin Holders(l), Holders(l)' = Holders(l) \cup {x},
         \A m \in Locs \ {l} : Holders(m)' = Holders(m),
         cnt' = [cnt EXCEPT ![l] = @ + 1]
  PROVE  RefExact'
<1> SUFFICES ASSUME NEW m \in Locs
             PROVE  cnt'[m] = Cardinality(Holders(m)')
  BY DEF RefExact
<1>1. cnt[m] = Cardinality(Holders(m)) /\ cnt[m] \in Nat
  BY DEF RefExact, TypeOK
<1>2. CASE m = l
  BY <1>1, <1>2, FiniteHolders, FS_AddElement DEF TypeOK
<1>3. CASE m # l
  BY <1>1, <1>3 DEF TypeOK
<1> QED
  BY <1>2, <1>3

(* A counter that goes down with one holder is still exact. *)
LEMMA CountDown ==
  ASSUME TypeOK, RefExact, NEW l \in Locs, NEW x,
         x \in Holders(l), Holders(l)' = Holders(l) \ {x},
         \A m \in Locs \ {l} : Holders(m)' = Holders(m),
         cnt' = [cnt EXCEPT ![l] = @ - 1]
  PROVE  RefExact'
<1> SUFFICES ASSUME NEW m \in Locs
             PROVE  cnt'[m] = Cardinality(Holders(m)')
  BY DEF RefExact
<1>1. cnt[m] = Cardinality(Holders(m)) /\ cnt[m] \in Nat
  BY DEF RefExact, TypeOK
<1>2. CASE m = l
  BY <1>1, <1>2, FiniteHolders, FS_RemoveElement DEF TypeOK
<1>3. CASE m # l
  BY <1>1, <1>3 DEF TypeOK
<1> QED
  BY <1>2, <1>3

(* The counter's own part of unref(): it keeps types, the location is      *)
(* queued for deletion at zero and at no other time, and nothing else      *)
(* leaves the deletion stacks.                                             *)
LEMMA UnrefFacts ==
  ASSUME TypeOK, DeletedOnce, NEW t \in Threads, NEW l \in Locs,
         Live(l), Unref(t, l)
  PROVE  /\ cnt' \in [Locs -> Nat]
         /\ stack' \in [Threads -> Seq(Locs)]
         /\ DeletedOnce'
         /\ \A m \in Locs : (Live(m) \/ m \in Dying) => (Live(m) \/ m \in Dying)'
         /\ \A u \in Threads \ {t} : stack'[u] = stack[u]
<1>1. cnt[l] \in Nat /\ cnt[l] > 0
  BY DEF TypeOK, Live
<1>2. cnt' \in [Locs -> Nat] /\ cnt'[l] = cnt[l] - 1
      /\ \A m \in Locs \ {l} : cnt'[m] = cnt[m]
  BY <1>1 DEF Unref, TypeOK
<1>3. \A u \in Threads : \A i \in 1 .. Len(stack[u]) : stack[u][i] \in Locs /\ stack[u][i] # l
  BY <1>1 DEF DeletedOnce, TypeOK
<1>4. CASE cnt[l] # 1
  <2>1. stack' = stack
    BY <1>4 DEF Unref
  <2>2. DeletedOnce'
    <3>1. \A u \in Threads : \A i \in 1 .. Len(stack[u]) : cnt'[stack[u][i]] = 0
      <4> SUFFICES ASSUME NEW u \in Threads, NEW i \in 1 .. Len(stack[u])
                   PROVE  cnt'[stack[u][i]] = 0
        OBVIOUS
      <4>1. cnt[stack[u][i]] = 0 /\ stack[u][i] \in Locs \ {l}
        BY <1>3 DEF DeletedOnce
      <4> QED
        BY <4>1, <1>2
    <3> QED
      BY <3>1, <2>1 DEF DeletedOnce
  <2>3. Live(l)'
    BY <1>1, <1>2, <1>4 DEF Live
  <2>4. Dying' = Dying
    BY <2>1 DEF Dying
  <2> QED
    BY <1>2, <2>1, <2>2, <2>3, <2>4 DEF TypeOK, Live
<1>5. CASE cnt[l] = 1
  <2>1. stack' = [stack EXCEPT ![t] = <<l>> \o @] /\ stack[t] \in Seq(Locs)
    BY <1>5 DEF Unref, TypeOK
  <2>2. stack'[t] = <<l>> \o stack[t] /\ \A u \in Threads \ {t} : stack'[u] = stack[u]
    BY <2>1 DEF TypeOK
  <2>3. stack' \in [Threads -> Seq(Locs)]
    BY <2>1, PushFacts DEF TypeOK
  <2>4. /\ Len(stack'[t]) = Len(stack[t]) + 1 /\ Len(stack[t]) \in Nat
        /\ stack'[t][1] = l
        /\ \A i \in 1 .. Len(stack[t]) : stack'[t][i + 1] = stack[t][i]
        /\ \A i \in 2 .. Len(stack'[t]) : stack'[t][i] = stack[t][i - 1]
    BY <2>1, <2>2, PushFacts
  <2>5. \A u \in Threads : \A i \in 1 .. Len(stack'[u]) :
          \/ u = t /\ i = 1 /\ stack'[u][i] = l
          \/ u = t /\ i - 1 \in 1 .. Len(stack[u]) /\ stack'[u][i] = stack[u][i - 1]
          \/ u # t /\ i \in 1 .. Len(stack[u]) /\ stack'[u][i] = stack[u][i]
    BY <2>2, <2>4
  <2>6. DeletedOnce'
    <3>1. \A u \in Threads : \A i \in 1 .. Len(stack'[u]) : cnt'[stack'[u][i]] = 0
      <4> SUFFICES ASSUME NEW u \in Threads, NEW i \in 1 .. Len(stack'[u])
                   PROVE  cnt'[stack'[u][i]] = 0
        OBVIOUS
      <4>1. CASE stack'[u][i] = l
        BY <4>1, <1>1, <1>2, <1>5
      <4>2. CASE stack'[u][i] # l
        <5>1. PICK a \in 1 .. Len(stack[u]) : stack[u][a] = stack'[u][i]
          BY <4>2, <2>5
        <5>2. cnt[stack[u][a]] = 0 /\ stack[u][a] \in Locs \ {l}
          BY <1>3 DEF DeletedOnce
        <5> QED
          BY <5>1, <5>2, <1>2
      <4> QED
        BY <4>1, <4>2
    <3>2. \A u, v \in Threads : \A i \in 1 .. Len(stack'[u]), j \in 1 .. Len(stack'[v]) :
            stack'[u][i] = stack'[v][j] => u = v /\ i = j
      <4> SUFFICES ASSUME NEW u \in Threads, NEW v \in Threads,
                          NEW i \in 1 .. Len(stack'[u]), NEW j \in 1 .. Len(stack'[v]),
                          stack'[u][i] = stack'[v][j]
                   PROVE  u = v /\ i = j
        OBVIOUS
      <4>1. CASE stack'[u][i] = l
        <5>1. u = t /\ i = 1
          <6>1. \A a \in 1 .. Len(stack[u]) : stack[u][a] # stack'[u][i]
            BY <4>1, <1>3
          <6> QED
            BY <6>1, <2>5
        <5>2. v = t /\ j = 1
          <6>1. \A a \in 1 .. Len(stack[v]) : stack[v][a] # stack'[v][j]
            BY <4>1, <1>3
          <6> QED
            BY <6>1, <2>5
        <5> QED
          BY <5>1, <5>2
      <4>2. CASE stack'[u][i] # l
        <5>1. PICK a \in 1 .. Len(stack[u]) :
                stack[u][a] = stack'[u][i] /\ (u = t => i = a + 1) /\ (u # t => i = a)
          BY <4>2, <2>5, <2>4
        <5>2. PICK b \in 1 .. Len(stack[v]) :
                stack[v][b] = stack'[v][j] /\ (v = t => j = b + 1) /\ (v # t => j = b)
          BY <4>2, <2>5, <2>4
        <5> QED
          BY <5>1, <5>2 DEF DeletedOnce
      <4> QED
        BY <4>1, <4>2
    <3> QED
      BY <3>1, <3>2 DEF DeletedOnce
  <2>7. l \in Dying'
    BY <2>4 DEF Dying
  <2>8. \A m \in Dying : m \in Dying'
    <3> SUFFICES ASSUME NEW m \in Dying PROVE m \in Dying'
      OBVIOUS
    <3>1. PICK u \in Threads : \E i \in 1 .. Len(stack[u]) : stack[u][i] = m
      BY DEF Dying
    <3>2. PICK i \in 1 .. Len(stack[u]) : stack[u][i] = m
      BY <3>1
    <3>3. CASE u = t
      <4>1. i + 1 \in 1 .. Len(stack'[t]) /\ stack'[t][i + 1] = m
        BY <3>2, <3>3, <2>4
      <4>2. m \in Locs
        BY DEF Dying
      <4> QED
        BY <4>1, <4>2 DEF Dying
    <3>4. CASE u # t
      BY <3>2, <3>4, <2>2 DEF Dying
    <3> QED
      BY <3>3, <3>4
  <2> QED
    BY <1>2, <2>2, <2>3, <2>6, <2>7, <2>8 DEF Live
<1> QED
  BY <1>4, <1>5

-----------------------------------------------------------------------------
(* What the callers' discipline gives *)

(* A destination between two statements of operator= belongs to the thread *)
(* inside it.                                                              *)
LEMMA ReleasedIsBusy ==
  ASSUME IInv, NEW p \in Released
  PROVE  \E u \in Threads : /\ op[u].pc = "set" /\ Busy(u) /\ op[u].dst = p
                            /\ p \in Handles => Owner[p] = u
<1>1. PICK u \in Threads : op[u].pc = "set" /\ op[u].dst = p
  BY DEF Released
<1>2. Busy(u) /\ Anchored(u, p, p)
  BY <1>1 DEF IInv, OpStable, Busy
<1>3. p \in Handles => Owner[p] = u
  BY <1>2, DistinctAssumption DEF Anchored, Owned
<1> QED
  BY <1>1, <1>2, <1>3

(* A container that a variable of a thread outside operator= names is      *)
(* live.                                                                   *)
LEMMA RefsLive ==
  ASSUME IInv, NEW t \in Threads, Idle(t)
  PROVE  /\ Refs(t) \subseteq Places
         /\ \A p \in Refs(t) : p \in Elems => Live(p[1])
         /\ \A p \in Refs(t) : MayRead(t, p) => p \notin Released
         /\ \A p \in Handles : MayRead(t, p) => p \notin Released
<1>1. Refs(t) \subseteq Places
  BY DEF Refs, Owned, Places
<1>2. ASSUME NEW p \in Refs(t), p \in Elems
      PROVE  Live(p[1])
  <2>1. PICK h \in Owned(t) : at[h] = p[1]
    BY <1>2, DistinctAssumption DEF Refs, Owned
  <2>2. h \in Places /\ h \in Handles /\ Owner[h] = t /\ at[h] \in Locs
    BY <1>2, <2>1 DEF Owned, Places, Elems
  <2>3. h \notin Released
    BY <2>2, ReleasedIsBusy DEF Idle
  <2> QED
    BY <2>1, <2>2, <2>3, PlaceHolds DEF IInv
<1>3. ASSUME NEW p \in Places, MayRead(t, p)
      PROVE  p \notin Released
  <2> SUFFICES ASSUME p \in Released
               PROVE  FALSE
    OBVIOUS
  <2>1. PICK u \in Threads : Busy(u) /\ op[u].dst = p
    BY ReleasedIsBusy
  <2>2. u # t
    BY <2>1 DEF Idle
  <2> QED
    BY <1>3, <2>1, <2>2 DEF MayRead
<1> QED
  BY <1>1, <1>2, <1>3 DEF Places

(* MayWrite is the stronger of the two disciplines. *)
LEMMA WriteIsRead ==
  ASSUME NEW t \in Threads, NEW p, MayWrite(t, p)
  PROVE  MayRead(t, p)
  BY DEF MayWrite, MayRead

(* The containers operator= reads from and writes to are live until it is  *)
(* through.                                                                *)
LEMMA OpLive ==
  ASSUME IInv, NEW t \in Threads, Busy(t)
  PROVE  /\ op[t].dst \in Places /\ op[t].src \in Places /\ op[t].new \in Locs
         /\ op[t].dst \in Elems => Live(op[t].dst[1])
         /\ op[t].src \in Elems => Live(op[t].src[1])
         /\ Readable(op[t].src)
<1>1. op[t] \in [pc : {"unref", "set"}, dst : Places, src : Places, new : Locs]
  BY DEF IInv, TypeOK, OpType, Busy, NoOp
<1>2. ASSUME NEW p \in Elems, Anchored(t, op[t].dst, p)
      PROVE  Live(p[1])
  <2>1. PICK h \in Owned(t) \ {op[t].dst} : at[h] = p[1]
    BY <1>2, DistinctAssumption DEF Anchored, Owned
  <2>2. h \in Places /\ h \in Handles /\ Owner[h] = t /\ at[h] \in Locs
    BY <2>1 DEF Owned, Places, Elems
  <2>3. h \notin Released
    BY <2>1, <2>2, ReleasedIsBusy
  <2> QED
    BY <2>1, <2>2, <2>3, PlaceHolds DEF IInv
<1>3. Anchored(t, op[t].dst, op[t].dst) /\ Anchored(t, op[t].dst, op[t].src)
  BY DEF IInv, OpStable
<1> QED
  BY <1>1, <1>2, <1>3 DEF Readable

(* Writing one place that no operator= has in hand moves one holder. *)
LEMMA WriteFacts ==
  ASSUME TypeOK, NEW q \in Places, q \notin Released, NEW v,
         op' = op, at' = [at EXCEPT ![q] = v]
  PROVE  /\ at'[q] = v
         /\ \A p \in Places \ {q} : at'[p] = at[p]
         /\ \A m \in Locs : Holders(m)' = IF v = m THEN Holders(m) \cup {q}
                                                   ELSE Holders(m) \ {q}
         /\ \A m \in Locs : q \in Holders(m) <=> at[q] = m
<1>1. at'[q] = v /\ \A p \in Places \ {q} : at'[p] = at[p]
  BY DEF TypeOK
<1>2. Released' = Released
  BY DEF Released
<1>3. q \notin Threads
  BY DistinctAssumption
<1>4. \A m \in Locs : q \in Holders(m) <=> at[q] = m
  BY <1>3 DEF Holders
<1>5. ASSUME NEW m \in Locs
      PROVE  Holders(m)' = IF v = m THEN Holders(m) \cup {q} ELSE Holders(m) \ {q}
  BY <1>1, <1>2, <1>3 DEF Holders
<1> QED
  BY <1>1, <1>4, <1>5

(* A step that writes one place, other than those an operator= in progress *)
(* uses, leaves every such operator= as it was.                            *)
LEMMA OpStableFrame ==
  ASSUME IInv, NEW q \in Places, op' = op,
         \A p \in Places \ {q} : at'[p] = at[p],
         \A u \in Threads : op[u].pc = "unref" => stack'[u] = stack[u],
         \A u \in Threads : Busy(u) => /\ q # op[u].dst /\ q # op[u].src
                                       /\ q \in Owned(u) => at[q] \notin Locs
  PROVE  OpStable' /\ OpExclusive'
<1>1. OpExclusive'
  BY DEF IInv, OpExclusive, Busy
<1>2. ASSUME NEW u \in Threads, Busy(u)
      PROVE  (/\ Anchored(u, op[u].dst, op[u].dst)
              /\ Anchored(u, op[u].dst, op[u].src)
              /\ at[op[u].dst] \in Locs
              /\ at[op[u].src] = op[u].new
              /\ op[u].pc = "unref" => stack[u] = <<>>)'
  <2>1. \A p \in Places : Anchored(u, op[u].dst, p) => Anchored(u, op[u].dst, p)'
    <3> SUFFICES ASSUME NEW p \in Elems, NEW h \in Owned(u) \ {op[u].dst}, at[h] = p[1]
                 PROVE  at'[h] = p[1]
      BY DEF Anchored, Owned
    <3>1. h \in Places /\ at[h] \in Locs
      BY DEF Owned, Places, Elems
    <3> QED
      BY <3>1, <1>2
  <2>2. op[u].dst \in Places /\ op[u].src \in Places
    BY <1>2, OpLive
  <2> QED
    BY <1>2, <2>1, <2>2 DEF IInv, OpStable
<1> QED
  BY <1>1, <1>2 DEF OpStable, Busy

-----------------------------------------------------------------------------
(* One lemma per action *)

(* The write of a place by the thread t, which is in no other call, stays  *)
(* clear of every operator= in progress.                                   *)
LEMMA WriteClear ==
  ASSUME IInv, NEW t \in Threads, Idle(t), NEW p \in Places, MayWrite(t, p),
         p \in Handles => Owner[p] = t \/ at[p] = Null
  PROVE  \A u \in Threads : Busy(u) => /\ p # op[u].dst /\ p # op[u].src
                                       /\ p \in Owned(u) => at[p] \notin Locs
  BY DistinctAssumption DEF MayWrite, Idle, Owned

(* The constructors give the new location its one holder. *)
LEMMA ConstructStep ==
  ASSUME IInv, NEW t \in Threads, NEW q \in Places, Construct(t, q)
  PROVE  IInv'
<1>1. PICK l \in Free : at' = [at EXCEPT ![q] = l] /\ cnt' = [cnt EXCEPT ![l] = 1]
  BY DEF Construct
<1>2. /\ Idle(t) /\ q \in Refs(t) /\ at[q] = Null /\ MayWrite(t, q)
      /\ op' = op /\ stack' = stack
  BY DEF Construct
<1>3. l \in Locs /\ cnt[l] = 0 /\ l \notin Dying
  BY DEF Free
<1>4. q \notin Released /\ (q \in Elems => Live(q[1]))
  BY <1>2, RefsLive, WriteIsRead
<1>5. /\ at'[q] = l
      /\ \A p \in Places \ {q} : at'[p] = at[p]
      /\ \A m \in Locs : Holders(m)' = IF l = m THEN Holders(m) \cup {q}
                                                ELSE Holders(m) \ {q}
      /\ \A m \in Locs : q \in Holders(m) <=> at[q] = m
  BY <1>1, <1>2, <1>4, WriteFacts DEF IInv
<1>6. cnt'[l] = 1 /\ \A m \in Locs \ {l} : cnt'[m] = cnt[m]
  BY <1>1, <1>3 DEF IInv, TypeOK
<1>7. TypeOK'
  BY <1>1, <1>2, <1>3 DEF IInv, TypeOK
<1>8. RefExact'
  <2>1. cnt' = [cnt EXCEPT ![l] = @ + 1]
    BY <1>1, <1>3
  <2>2. q \notin Holders(l) /\ \A m \in Locs \ {l} : Holders(m)' = Holders(m)
    BY <1>2, <1>3, <1>5, DistinctAssumption
  <2> QED
    BY <1>3, <1>5, <2>1, <2>2, CountUp DEF IInv
<1>9. DeletedOnce'
  BY <1>2, <1>3, <1>6 DEF IInv, DeletedOnce, Dying, TypeOK
<1>10. NoWild'
  BY <1>3, <1>5, DistinctAssumption DEF IInv, NoWild
<1>11. ElemsInHeap'
  <2>1. \A m \in Locs : (Live(m) => Live(m)') /\ (m \in Dying => m \in Dying')
    BY <1>2, <1>6 DEF Live, Dying
  <2> SUFFICES ASSUME NEW m \in Locs, NEW i \in Slots, at'[<<m, i>>] # Null
               PROVE  Live(m)' \/ m \in Dying'
    BY DEF ElemsInHeap
  <2>2. <<m, i>> \in Elems /\ <<m, i>> \in Places /\ <<m, i>>[1] = m
    BY DEF Elems, Places
  <2> QED
    BY <1>4, <1>5, <2>1, <2>2 DEF IInv, ElemsInHeap
<1>12. OpStable' /\ OpExclusive'
  <2>1. q \in Handles => Owner[q] = t \/ at[q] = Null
    BY <1>2
  <2> QED
    BY <1>2, <1>5, <2>1, WriteClear, OpStableFrame
<1> QED
  BY <1>7, <1>8, <1>9, <1>10, <1>11, <1>12 DEF IInv

(* A copy adds itself to the holders of the location it copies. *)
LEMMA CopyConstructStep ==
  ASSUME IInv, NEW t \in Threads, NEW q \in Places, NEW s \in Places,
         CopyConstruct(t, q, s)
  PROVE  IInv'
<1> DEFINE l == at[s]
<1>1. /\ Idle(t) /\ at[q] = Null /\ MayWrite(t, q)
      /\ q \in Refs(t) \cup Handles
      /\ s \in Refs(t) /\ l \in Locs /\ MayRead(t, s)
      /\ at' = [at EXCEPT ![q] = l] /\ cnt' = [cnt EXCEPT ![l] = @ + 1]
      /\ op' = op /\ stack' = stack
  BY DEF CopyConstruct, Ref
<1>2. Live(l)
  BY <1>1, RefsLive, PlaceHolds DEF IInv
<1>3. q \notin Released /\ (q \in Elems => Live(q[1]))
  BY <1>1, RefsLive, WriteIsRead, DistinctAssumption
<1>4. /\ at'[q] = l
      /\ \A p \in Places \ {q} : at'[p] = at[p]
      /\ \A m \in Locs : Holders(m)' = IF l = m THEN Holders(m) \cup {q}
                                                ELSE Holders(m) \ {q}
      /\ \A m \in Locs : q \in Holders(m) <=> at[q] = m
  BY <1>1, <1>3, WriteFacts DEF IInv
<1>5. cnt'[l] = cnt[l] + 1 /\ cnt[l] \in Nat /\ \A m \in Locs \ {l} : cnt'[m] = cnt[m]
  BY <1>1 DEF IInv, TypeOK
<1>6. TypeOK'
  BY <1>1, <1>5 DEF IInv, TypeOK
<1>7. RefExact'
  <2>1. q \notin Holders(l) /\ \A m \in Locs \ {l} : Holders(m)' = Holders(m)
    BY <1>1, <1>4, DistinctAssumption
  <2> QED
    BY <1>1, <1>4, <2>1, CountUp DEF IInv
<1>8. \A u \in Threads : \A i \in 1 .. Len(stack[u]) : stack[u][i] # l
  BY <1>2 DEF IInv, DeletedOnce, Live
<1>9. DeletedOnce'
  BY <1>1, <1>5, <1>8 DEF IInv, DeletedOnce, TypeOK
<1>10. NoWild'
  BY <1>1, <1>4, DistinctAssumption DEF IInv, NoWild
<1>11. ElemsInHeap'
  <2>1. \A m \in Locs : (Live(m) => Live(m)') /\ (m \in Dying => m \in Dying')
    BY <1>1, <1>5 DEF Live, Dying
  <2> SUFFICES ASSUME NEW m \in Locs, NEW i \in Slots, at'[<<m, i>>] # Null
               PROVE  Live(m)' \/ m \in Dying'
    BY DEF ElemsInHeap
  <2>2. <<m, i>> \in Elems /\ <<m, i>> \in Places /\ <<m, i>>[1] = m
    BY DEF Elems, Places
  <2> QED
    BY <1>3, <1>4, <2>1, <2>2 DEF IInv, ElemsInHeap
<1>12. OpStable' /\ OpExclusive'
  BY <1>1, <1>4, WriteClear, OpStableFrame
<1> QED
  BY <1>6, <1>7, <1>9, <1>10, <1>11, <1>12 DEF IInv

(* The slot of the literal pool is never the object of an operator=. *)
LEMMA PoolUntouched ==
  ASSUME IInv
  PROVE  /\ Pool \in Places /\ Pool \notin Released
         /\ \A u \in Threads : Busy(u) => op[u].dst # Pool /\ op[u].src # Pool
<1>1. \A u \in Threads : Busy(u) => op[u].dst # Pool /\ op[u].src # Pool
  <2> SUFFICES ASSUME NEW u \in Threads, Busy(u), Anchored(u, op[u].dst, Pool)
               PROVE  FALSE
    BY DEF IInv, OpStable
  <2> QED
    BY DistinctAssumption DEF Anchored, Owned
<1>2. Pool \notin Released
  BY <1>1, ReleasedIsBusy
<1> QED
  BY <1>1, <1>2 DEF Places

(* A literal gains a holder; the first use of it makes the pool another.   *)
LEMMA InternStep ==
  ASSUME IInv, NEW t \in Threads, NEW h \in Handles, Intern(t, h)
  PROVE  IInv'
<1>1. /\ Idle(t) /\ h \in Owned(t) /\ at[h] = Null
      /\ op' = op /\ stack' = stack
  BY DEF Intern
<1>2. h \in Places /\ h \notin Released /\ h # Pool /\ Owner[h] = t
      /\ h \notin Threads /\ Pool \notin Threads /\ h \notin Elems /\ Pool \notin Elems
  <2>1. h \notin Released
    BY <1>1, ReleasedIsBusy DEF Owned, Idle
  <2> QED
    BY <1>1, <2>1, DistinctAssumption DEF Owned, Places
<1>3. \A u \in Threads : Busy(u) => /\ h # op[u].dst /\ h # op[u].src
                                    /\ h \in Owned(u) => at[h] \notin Locs
  <2> SUFFICES ASSUME NEW u \in Threads, Busy(u)
               PROVE  h # op[u].dst /\ h # op[u].src
    BY <1>1, DistinctAssumption
  <2> QED
    BY <1>1, DistinctAssumption, OpLive DEF IInv, OpStable
<1>4. CASE /\ at[Pool] # Null /\ at' = [at EXCEPT ![h] = at[Pool]]
           /\ Ref(at[Pool])
  <2> DEFINE l == at[Pool]
  <2>1. l \in Locs
    BY <1>4, PoolUntouched DEF IInv, TypeOK, NoWild
  <2>2. Live(l)
    BY <2>1, PoolUntouched, PlaceHolds DEF IInv
  <2>3. /\ at'[h] = l
        /\ \A p \in Places \ {h} : at'[p] = at[p]
        /\ \A m \in Locs : Holders(m)' = IF l = m THEN Holders(m) \cup {h}
                                                  ELSE Holders(m) \ {h}
        /\ \A m \in Locs : h \in Holders(m) <=> at[h] = m
    BY <1>1, <1>2, <1>4, WriteFacts DEF IInv
  <2>4. cnt'[l] = cnt[l] + 1 /\ cnt[l] \in Nat
        /\ cnt' \in [Locs -> Nat]
        /\ \A m \in Locs \ {l} : cnt'[m] = cnt[m]
    BY <1>4, <2>1 DEF IInv, TypeOK, Ref
  <2>5. TypeOK'
    BY <1>1, <1>4, <2>1, <2>4 DEF IInv, TypeOK
  <2>6. RefExact'
    <3>1. \A m \in Locs : h \notin Holders(m)
      BY <1>1, <2>3, DistinctAssumption
    <3>2. \A m \in Locs \ {l} : Holders(m)' = Holders(m)
      BY <2>3, <3>1
    <3> QED
      BY <1>4, <2>1, <2>3, <3>1, <3>2, CountUp DEF IInv, Ref
  <2>7. \A u \in Threads : \A i \in 1 .. Len(stack[u]) : stack[u][i] # l
    BY <2>2 DEF IInv, DeletedOnce, Live
  <2>8. DeletedOnce'
    BY <1>1, <2>4, <2>7 DEF IInv, DeletedOnce, TypeOK
  <2>9. NoWild'
    BY <2>1, <2>3, DistinctAssumption DEF IInv, NoWild
  <2>10. ElemsInHeap'
    <3>1. \A m \in Locs : (Live(m) => Live(m)') /\ (m \in Dying => m \in Dying')
      BY <1>1, <2>1, <2>4 DEF Live, Dying
    <3>2. \A p \in Elems : at'[p] = at[p]
      BY <1>2, <2>3 DEF Places
    <3> QED
      BY <3>1, <3>2 DEF IInv, ElemsInHeap, Elems
  <2>11. OpStable' /\ OpExclusive'
    BY <1>1, <1>2, <1>3, <2>3, OpStableFrame
  <2> QED
    BY <2>5, <2>6, <2>8, <2>9, <2>10, <2>11 DEF IInv
<1>5. CASE /\ at[Pool] = Null
           /\ \E l \in Free : /\ at' = [at EXCEPT ![h] = l, ![Pool] = l]
                              /\ cnt' = [cnt EXCEPT ![l] = 2]
  <2>1. PICK l \in Free : /\ at' = [at EXCEPT ![h] = l, ![Pool] = l]
                          /\ cnt' = [cnt EXCEPT ![l] = 2]
    BY <1>5
  <2>2. l \in Locs /\ cnt[l] = 0 /\ l \notin Dying /\ l # Null /\ l # Wild
    BY DistinctAssumption DEF Free
  <2>3. /\ at'[h] = l /\ at'[Pool] = l
        /\ \A p \in Places \ {h, Pool} : at'[p] = at[p]
    BY <1>2, <2>1, PoolUntouched DEF IInv, TypeOK
  <2>4. cnt'[l] = 2 /\ \A m \in Locs \ {l} : cnt'[m] = cnt[m]
    BY <2>1, <2>2 DEF IInv, TypeOK
  <2>5. TypeOK'
    BY <1>1, <2>1, <2>2 DEF IInv, TypeOK
  <2>6. RefExact'
    <3>1. Released' = Released
      BY <1>1 DEF Released
    <3>2. Holders(l) = {}
      BY <2>2, FreeIsUnheld DEF IInv
    <3>3. Holders(l)' = {h} \cup {Pool}
      BY <1>1, <1>2, <2>3, <3>1, <3>2, PoolUntouched DEF Holders
    <3>4. Cardinality({h} \cup {Pool}) = 2
      <4>1. IsFiniteSet({h}) /\ Cardinality({h}) = 1 /\ Pool \notin {h}
        BY <1>2, FS_Singleton
      <4> QED
        BY <4>1, FS_AddElement
    <3>5. \A m \in Locs \ {l} : Holders(m)' = Holders(m)
      BY <1>1, <1>5, <2>3, <3>1, DistinctAssumption DEF Holders
    <3> QED
      BY <2>4, <3>3, <3>4, <3>5 DEF IInv, RefExact
  <2>7. DeletedOnce'
    BY <1>1, <2>2, <2>4 DEF IInv, DeletedOnce, Dying, TypeOK
  <2>8. NoWild'
    BY <2>2, <2>3 DEF IInv, NoWild
  <2>9. ElemsInHeap'
    <3>1. \A m \in Locs : (Live(m) => Live(m)') /\ (m \in Dying => m \in Dying')
      BY <1>1, <2>2, <2>4 DEF Live, Dying
    <3>2. \A p \in Elems : at'[p] = at[p]
      BY <1>2, <2>3 DEF Places
    <3> QED
      BY <3>1, <3>2 DEF IInv, ElemsInHeap, Elems
  <2>10. OpStable' /\ OpExclusive'
    <3>1. OpExclusive'
      BY <1>1 DEF IInv, OpExclusive, Busy
    <3>2. ASSUME NEW u \in Threads, Busy(u)
          PROVE  (/\ Anchored(u, op[u].dst, op[u].dst)
                  /\ Anchored(u, op[u].dst, op[u].src)
                  /\ at[op[u].dst] \in Locs
                  /\ at[op[u].src] = op[u].new
                  /\ op[u].pc = "unref" => stack[u] = <<>>)'
      <4>1. /\ op[u].dst \in Places \ {h, Pool} /\ op[u].src \in Places \ {h, Pool}
        BY <1>3, <3>2, OpLive, PoolUntouched
      <4>2. \A p \in Places : Anchored(u, op[u].dst, p) => Anchored(u, op[u].dst, p)'
        <5> SUFFICES ASSUME NEW p \in Elems, NEW g \in Owned(u) \ {op[u].dst}, at[g] = p[1]
                     PROVE  at'[g] = p[1]
          BY <1>1 DEF Anchored, Owned
        <5>1. g \in Places /\ g # Pool /\ at[g] \in Locs
          BY DistinctAssumption DEF Owned, Places, Elems
        <5>2. g # h
          BY <1>1, <5>1, DistinctAssumption
        <5> QED
          BY <2>3, <5>1, <5>2
      <4> QED
        BY <1>1, <2>3, <3>2, <4>1, <4>2 DEF IInv, OpStable
    <3> QED
      BY <1>1, <3>1, <3>2 DEF OpStable, Busy
  <2> QED
    BY <2>5, <2>6, <2>7, <2>8, <2>9, <2>10 DEF IInv
<1> QED
  BY <1>4, <1>5 DEF Intern

(* Giving up the pointer in the place q and the reference it holds. *)
LEMMA ReleasePlace ==
  ASSUME IInv, NEW t \in Threads, NEW q \in Places, q \notin Released,
         at[q] \in Locs, at' = [at EXCEPT ![q] = Null], Unref(t, at[q]), op' = op,
         \A u \in Threads : Busy(u) => /\ q # op[u].dst /\ q # op[u].src
                                       /\ q \in Owned(u) => u = t /\ Idle(u),
         op[t].pc # "unref"
  PROVE  IInv'
<1> DEFINE l == at[q]
<1>1. l \in Locs /\ q \in Holders(l) /\ Live(l)
  BY PlaceHolds DEF IInv
<1>2. /\ cnt' \in [Locs -> Nat]
      /\ stack' \in [Threads -> Seq(Locs)]
      /\ DeletedOnce'
      /\ \A m \in Locs : (Live(m) \/ m \in Dying) => (Live(m) \/ m \in Dying)'
      /\ \A u \in Threads \ {t} : stack'[u] = stack[u]
  BY <1>1, UnrefFacts DEF IInv
<1>3. /\ at'[q] = Null
      /\ \A p \in Places \ {q} : at'[p] = at[p]
      /\ \A m \in Locs : Holders(m)' = IF Null = m THEN Holders(m) \cup {q}
                                                   ELSE Holders(m) \ {q}
      /\ \A m \in Locs : q \in Holders(m) <=> at[q] = m
  BY WriteFacts DEF IInv
<1>4. TypeOK'
  BY <1>2 DEF IInv, TypeOK
<1>5. RefExact'
  <2>1. \A m \in Locs : Holders(m)' = Holders(m) \ {q}
    BY <1>3, DistinctAssumption
  <2>2. \A m \in Locs \ {l} : q \notin Holders(m)
    BY <1>3
  <2>3. \A m \in Locs \ {l} : Holders(m)' = Holders(m)
    BY <2>1, <2>2
  <2>4. cnt' = [cnt EXCEPT ![l] = @ - 1]
    BY DEF Unref
  <2> HIDE DEF l
  <2> QED
    BY <1>1, <2>1, <2>3, <2>4, CountDown DEF IInv
<1>6. NoWild'
  BY <1>3, DistinctAssumption DEF IInv, NoWild
<1>7. ElemsInHeap'
  <2> SUFFICES ASSUME NEW m \in Locs, NEW i \in Slots, at'[<<m, i>>] # Null
               PROVE  Live(m)' \/ m \in Dying'
    BY DEF ElemsInHeap
  <2>1. <<m, i>> \in Places
    BY DEF Elems, Places
  <2>2. at[<<m, i>>] # Null
    BY <1>3, <2>1
  <2> QED
    BY <1>2, <2>2 DEF IInv, ElemsInHeap
<1>8. OpStable' /\ OpExclusive'
  <2>1. \A u \in Threads : op[u].pc = "unref" => stack'[u] = stack[u]
    BY <1>2
  <2>2. \A u \in Threads : Busy(u) => /\ q # op[u].dst /\ q # op[u].src
                                      /\ q \in Owned(u) => at[q] \notin Locs
    BY DEF Idle
  <2> QED
    BY <1>3, <2>1, <2>2, OpStableFrame
<1> QED
  BY <1>2, <1>4, <1>5, <1>6, <1>7, <1>8 DEF IInv

(* The destructor gives up the pointer and one reference. *)
LEMMA DestroyStep ==
  ASSUME IInv, NEW t \in Threads, NEW q \in Places, Destroy(t, q)
  PROVE  IInv'
<1>1. /\ Idle(t) /\ q \in Refs(t) /\ at[q] \in Locs /\ MayWrite(t, q)
      /\ at' = [at EXCEPT ![q] = Null] /\ Unref(t, at[q]) /\ op' = op
  BY DEF Destroy
<1>2. q \notin Released
  BY <1>1, RefsLive, WriteIsRead
<1>3. \A u \in Threads : Busy(u) => /\ q # op[u].dst /\ q # op[u].src
                                    /\ q \in Owned(u) => u = t /\ Idle(u)
  <2>1. \A u \in Threads : q \in Owned(u) => u = t
    BY <1>1, DistinctAssumption DEF Refs, Owned
  <2> QED
    BY <1>1, <2>1 DEF MayWrite, Idle
<1> QED
  BY <1>1, <1>2, <1>3, ReleasePlace DEF Idle, Busy

(* The cascade gives up one element of a container nobody can name. *)
LEMMA DestroyElemStep ==
  ASSUME IInv, NEW t \in Threads, DestroyElem(t)
  PROVE  IInv'
<1>1. PICK i \in Slots : /\ at[<<Head(stack[t]), i>>] \in Locs
                         /\ at' = [at EXCEPT ![<<Head(stack[t]), i>>] = Null]
                         /\ Unref(t, at[<<Head(stack[t]), i>>])
  BY DEF DestroyElem
<1> DEFINE c == Head(stack[t])
           q == <<c, i>>
<1>2. stack[t] # <<>> /\ op' = op
  BY DEF DestroyElem
<1>3. c \in Locs /\ cnt[c] = 0
  BY <1>2, PopFacts DEF IInv, TypeOK, DeletedOnce
<1>4. q \in Elems /\ q \in Places /\ q[1] = c /\ ~Live(q[1])
  BY <1>3 DEF Elems, Places, Live
<1>5. \A u \in Threads : Busy(u) => q # op[u].dst /\ q # op[u].src
  BY <1>4, OpLive
<1>6. q \notin Released /\ \A u \in Threads : q \notin Owned(u)
  BY <1>4, <1>5, ReleasedIsBusy, DistinctAssumption DEF Owned
<1>7. op[t].pc # "unref"
  BY <1>2 DEF IInv, OpStable, Busy
<1> HIDE DEF q
<1> QED
  BY <1>1, <1>2, <1>4, <1>5, <1>6, <1>7, ReleasePlace DEF q

(* The memory of a container whose elements are gone is given back. *)
LEMMA DeleteStep ==
  ASSUME IInv, NEW t \in Threads, Delete(t)
  PROVE  IInv'
<1> DEFINE c == Head(stack[t])
<1>1. /\ stack[t] # <<>> /\ stack[t] \in Seq(Locs)
      /\ stack' = [stack EXCEPT ![t] = Tail(@)]
      /\ at' = at /\ cnt' = cnt /\ op' = op
      /\ \A i \in Slots : at[<<c, i>>] = Null
  BY DEF Delete, IInv, TypeOK
<1>2. /\ Tail(stack[t]) \in Seq(Locs)
      /\ Len(stack[t]) \in Nat /\ Len(stack[t]) >= 1
      /\ Len(Tail(stack[t])) = Len(stack[t]) - 1
      /\ c = stack[t][1] /\ c \in Locs
      /\ \A i \in 1 .. Len(Tail(stack[t])) : Tail(stack[t])[i] = stack[t][i + 1]
  BY <1>1, PopFacts
<1>3. stack'[t] = Tail(stack[t]) /\ \A u \in Threads \ {t} : stack'[u] = stack[u]
  BY <1>1 DEF IInv, TypeOK
<1>4. TypeOK'
  BY <1>1, <1>2 DEF IInv, TypeOK
<1>5. RefExact' /\ NoWild'
  BY <1>1 DEF IInv, RefExact, Holders, Released, NoWild
<1>6. \A u \in Threads : \A i \in 1 .. Len(stack'[u]) :
        \/ u = t /\ i + 1 \in 1 .. Len(stack[u]) /\ stack'[u][i] = stack[u][i + 1]
        \/ u # t /\ i \in 1 .. Len(stack[u]) /\ stack'[u][i] = stack[u][i]
  <2> SUFFICES ASSUME NEW i \in 1 .. Len(stack'[t])
               PROVE  /\ i + 1 \in 1 .. Len(stack[t])
                      /\ stack'[t][i] = stack[t][i + 1]
    BY <1>3
  <2>1. i \in 1 .. Len(Tail(stack[t]))
    BY <1>3
  <2> QED
    BY <1>2, <1>3, <2>1
<1>7. DeletedOnce'
  <2>1. \A u \in Threads : \A i \in 1 .. Len(stack'[u]) : cnt'[stack'[u][i]] = 0
    BY <1>1, <1>6 DEF IInv, DeletedOnce
  <2> SUFFICES ASSUME NEW u \in Threads, NEW v \in Threads,
                      NEW i \in 1 .. Len(stack'[u]), NEW j \in 1 .. Len(stack'[v]),
                      stack'[u][i] = stack'[v][j]
               PROVE  u = v /\ i = j
    BY <2>1 DEF DeletedOnce
  <2>2. PICK a \in 1 .. Len(stack[u]) :
          stack[u][a] = stack'[u][i] /\ (u = t => a = i + 1) /\ (u # t => a = i)
    BY <1>6
  <2>3. PICK b \in 1 .. Len(stack[v]) :
          stack[v][b] = stack'[v][j] /\ (v = t => b = j + 1) /\ (v # t => b = j)
    BY <1>6
  <2> QED
    BY <2>2, <2>3 DEF IInv, DeletedOnce
<1>8. ElemsInHeap'
  <2> SUFFICES ASSUME NEW m \in Locs, NEW i \in Slots, at[<<m, i>>] # Null, m \in Dying
               PROVE  m \in Dying'
    BY <1>1 DEF IInv, ElemsInHeap, Live
  <2>1. m # c
    BY <1>1
  <2>2. PICK u \in Threads : \E j \in 1 .. Len(stack[u]) : stack[u][j] = m
    BY DEF Dying
  <2>3. PICK j \in 1 .. Len(stack[u]) : stack[u][j] = m
    BY <2>2
  <2>4. CASE u # t
    BY <1>3, <2>3, <2>4 DEF Dying
  <2>5. CASE u = t
    <3>1. j - 1 \in 1 .. Len(stack'[t]) /\ stack'[t][j - 1] = m
      BY <1>2, <1>3, <2>1, <2>3, <2>5
    <3> QED
      BY <3>1 DEF Dying
  <2> QED
    BY <2>4, <2>5
<1>9. OpStable' /\ OpExclusive'
  <2>1. \A u \in Threads : op[u].pc = "unref" => u # t
    BY <1>1 DEF IInv, OpStable, Busy
  <2>2. OpExclusive'
    BY <1>1 DEF IInv, OpExclusive, Busy
  <2>3. OpStable'
    BY <1>1, <1>3, <2>1 DEF IInv, OpStable, Busy, Anchored, Owned
  <2> QED
    BY <2>2, <2>3
<1> QED
  BY <1>4, <1>5, <1>7, <1>8, <1>9 DEF IInv

(* The first statement of operator= makes the thread itself a holder. *)
LEMMA AssignRefStep ==
  ASSUME IInv, ~AliasedWalk, NEW t \in Threads, NEW d \in Places, NEW s \in Places,
         AssignRef(t, d, s)
  PROVE  IInv'
<1>0. PICK l \in Locs : at[s] = l
  BY DEF AssignRef
<1> DEFINE o == [pc |-> "unref", dst |-> d, src |-> s, new |-> l]
<1>1. /\ Idle(t) /\ d \in Refs(t) /\ s \in Refs(t) /\ at[d] \in Locs
      /\ MayWrite(t, d) /\ MayRead(t, s) /\ Kept(t, d, s)
      /\ cnt' = [cnt EXCEPT ![l] = @ + 1] /\ op' = [op EXCEPT ![t] = o]
      /\ at' = at /\ stack' = stack
  BY <1>0 DEF AssignRef, Ref
<1>2. op[t] = NoOp /\ stack[t] = <<>>
  BY <1>1 DEF IInv, TypeOK, OpType, Idle, Busy
<1>3. op'[t] = o /\ \A u \in Threads \ {t} : op'[u] = op[u]
  BY <1>1 DEF IInv, TypeOK
<1>4. Live(l)
  BY <1>0, <1>1, RefsLive, PlaceHolds DEF IInv
<1>5. cnt'[l] = cnt[l] + 1 /\ cnt[l] \in Nat /\ cnt' \in [Locs -> Nat]
      /\ \A m \in Locs \ {l} : cnt'[m] = cnt[m]
  BY <1>1 DEF IInv, TypeOK
<1>6. TypeOK'
  BY <1>1, <1>5 DEF IInv, TypeOK, OpType
<1>7. RefExact'
  <2>1. Released' = Released
    BY <1>1, <1>2, <1>3 DEF Released, NoOp
  <2>2. \A m \in Locs : Holders(m)' = Holders(m) \cup (IF m = l THEN {t} ELSE {})
    BY <1>1, <1>2, <1>3, <2>1, DistinctAssumption DEF Holders, NoOp
  <2>3. t \notin Holders(l)
    BY <1>1, <1>2, DistinctAssumption DEF Holders, NoOp
  <2>4. Holders(l)' = Holders(l) \cup {t} /\ \A m \in Locs \ {l} : Holders(m)' = Holders(m)
    BY <1>1, <2>2
  <2> QED
    BY <1>1, <2>3, <2>4, CountUp DEF IInv
<1>8. DeletedOnce'
  <2>1. \A u \in Threads : \A i \in 1 .. Len(stack[u]) : stack[u][i] # l
    BY <1>4 DEF IInv, DeletedOnce, Live
  <2> QED
    BY <1>1, <1>5, <2>1 DEF IInv, DeletedOnce, TypeOK
<1>9. NoWild' /\ ElemsInHeap'
  <2>1. \A m \in Locs : (Live(m) => Live(m)') /\ (m \in Dying => m \in Dying')
    BY <1>1, <1>5 DEF Live, Dying
  <2> QED
    BY <1>1, <2>1 DEF IInv, NoWild, ElemsInHeap
<1>10. OpStable'
  <2>1. Anchored(t, d, d) /\ Anchored(t, d, s)
    BY <1>1, DistinctAssumption DEF Anchored, Refs, Kept, Owned
  <2>2. ASSUME NEW u \in Threads, Busy(u)'
        PROVE  (/\ Anchored(u, op[u].dst, op[u].dst)
                /\ Anchored(u, op[u].dst, op[u].src)
                /\ at[op[u].dst] \in Locs
                /\ at[op[u].src] = op[u].new
                /\ op[u].pc = "unref" => stack[u] = <<>>)'
    <3>1. CASE u = t
      BY <1>0, <1>1, <1>2, <1>3, <2>1, <3>1 DEF Anchored, Owned
    <3>2. CASE u # t
      BY <1>1, <1>3, <2>2, <3>2 DEF IInv, OpStable, Busy, Anchored, Owned
    <3> QED
      BY <3>1, <3>2
  <2> QED
    BY <2>2 DEF OpStable
<1>11. OpExclusive'
  BY <1>1, <1>3 DEF IInv, OpExclusive, Busy, MayRead, MayWrite
<1> QED
  BY <1>6, <1>7, <1>8, <1>9, <1>10, <1>11 DEF IInv

(* No other operator= in progress has this one's destination in hand. *)
LEMMA DstIsMine ==
  ASSUME IInv, NEW t \in Threads, Busy(t), NEW u \in Threads \ {t}, Busy(u)
  PROVE  op[u].dst # op[t].dst /\ op[u].src # op[t].dst
  BY DEF IInv, OpExclusive

(* The second statement of operator= gives up the old location. *)
LEMMA AssignUnrefStep ==
  ASSUME IInv, NEW t \in Threads, AssignUnref(t)
  PROVE  IInv'
<1> DEFINE d == op[t].dst
           l == at[d]
<1>1. /\ Busy(t) /\ op[t].pc = "unref" /\ Unref(t, l) /\ at' = at
      /\ op' = [op EXCEPT ![t].pc = "set"]
  BY DEF AssignUnref, Busy
<1>2. d \in Places /\ l \in Locs
  BY <1>1, OpLive DEF IInv, OpStable
<1>3. op'[t] = [op[t] EXCEPT !.pc = "set"] /\ \A u \in Threads \ {t} : op'[u] = op[u]
  BY <1>1 DEF IInv, TypeOK
<1>4. op[t] \in [pc : {"unref", "set"}, dst : Places, src : Places, new : Locs]
  BY <1>1 DEF IInv, TypeOK, OpType, NoOp, Busy
<1>5. op'[t].pc = "set" /\ op'[t].dst = d /\ op'[t].src = op[t].src
      /\ op'[t].new = op[t].new
  BY <1>3, <1>4
<1>6. d \notin Released /\ Released' = Released \cup {d}
  <2>1. d \notin Released
    BY <1>1, DstIsMine DEF Released, Busy
  <2> QED
    BY <1>1, <1>2, <1>3, <1>5, <2>1 DEF Released
<1>7. d \in Holders(l) /\ Live(l)
  BY <1>2, <1>6, PlaceHolds DEF IInv
<1>8. /\ cnt' \in [Locs -> Nat]
      /\ stack' \in [Threads -> Seq(Locs)]
      /\ DeletedOnce'
      /\ \A m \in Locs : (Live(m) \/ m \in Dying) => (Live(m) \/ m \in Dying)'
      /\ \A u \in Threads \ {t} : stack'[u] = stack[u]
  BY <1>1, <1>2, <1>7, UnrefFacts DEF IInv
<1>9. TypeOK'
  BY <1>1, <1>3, <1>4, <1>8 DEF IInv, TypeOK, OpType
<1>10. RefExact'
  <2>1. \A m \in Locs : Holders(m)' = Holders(m) \ {d}
    BY <1>1, <1>2, <1>3, <1>5, <1>6, DistinctAssumption DEF Holders
  <2>2. \A m \in Locs \ {l} : d \notin Holders(m)
    BY <1>2, DistinctAssumption DEF Holders
  <2>3. \A m \in Locs \ {l} : Holders(m)' = Holders(m)
    BY <2>1, <2>2
  <2>4. cnt' = [cnt EXCEPT ![l] = @ - 1]
    BY <1>1 DEF Unref
  <2> HIDE DEF l, d
  <2> QED
    BY <1>2, <1>7, <2>1, <2>3, <2>4, CountDown DEF IInv
<1>11. NoWild' /\ ElemsInHeap'
  BY <1>1, <1>8 DEF IInv, NoWild, ElemsInHeap
<1>12. OpStable'
  <2> SUFFICES ASSUME NEW u \in Threads, Busy(u)'
               PROVE  (/\ Anchored(u, op[u].dst, op[u].dst)
                       /\ Anchored(u, op[u].dst, op[u].src)
                       /\ at[op[u].dst] \in Locs
                       /\ at[op[u].src] = op[u].new
                       /\ op[u].pc = "unref" => stack[u] = <<>>)'
    BY DEF OpStable
  <2>1. Busy(u) /\ op'[u].dst = op[u].dst /\ op'[u].src = op[u].src
        /\ op'[u].new = op[u].new
        /\ (op'[u].pc = "unref" => u # t /\ op[u].pc = "unref")
    BY <1>1, <1>3, <1>5 DEF Busy
  <2>2. /\ Anchored(u, op[u].dst, op[u].dst)
        /\ Anchored(u, op[u].dst, op[u].src)
        /\ at[op[u].dst] \in Locs
        /\ at[op[u].src] = op[u].new
        /\ op[u].pc = "unref" => stack[u] = <<>>
    BY <2>1 DEF IInv, OpStable
  <2>3. op'[u].pc = "unref" => stack'[u] = <<>>
    BY <1>8, <2>1, <2>2
  <2> QED
    BY <1>1, <2>1, <2>2, <2>3 DEF Anchored, Owned
<1>13. OpExclusive'
  BY <1>1, <1>3, <1>5 DEF IInv, OpExclusive, Busy
<1> QED
  BY <1>8, <1>9, <1>10, <1>11, <1>12, <1>13 DEF IInv

(* The third statement of operator= hands the thread's hold to the place. *)
LEMMA AssignSetStep ==
  ASSUME IInv, NEW t \in Threads, AssignSet(t)
  PROVE  IInv'
<1>1. /\ Busy(t) /\ op[t].pc = "set" /\ op' = [op EXCEPT ![t] = NoOp]
      /\ cnt' = cnt /\ stack' = stack
  BY DEF AssignSet, Busy
<1>2. PICK d \in Places, l \in Locs :
        op[t].dst = d /\ op[t].new = l /\ (d \in Elems => Live(d[1]))
  BY <1>1, OpLive
<1>3. at' = [at EXCEPT ![d] = l]
  BY <1>1, <1>2, OpLive DEF AssignSet, IInv, OpStable
<1>4. at'[d] = l /\ \A p \in Places \ {d} : at'[p] = at[p]
  BY <1>2, <1>3 DEF IInv, TypeOK
<1>5. op'[t] = NoOp /\ \A u \in Threads \ {t} : op'[u] = op[u]
  BY <1>1 DEF IInv, TypeOK
<1>6. d \in Released /\ Released' = Released \ {d}
  <2>1. \A u \in Threads \ {t} : op[u].pc = "set" => op[u].dst # d
    BY <1>1, <1>2, DstIsMine DEF Busy
  <2> QED
    BY <1>1, <1>2, <1>5, <2>1 DEF Released, NoOp
<1>7. TypeOK'
  BY <1>1, <1>2, <1>3 DEF IInv, TypeOK, OpType
<1>8. RefExact'
  <2>1. d \notin Threads /\ t \notin Places
    BY <1>2, DistinctAssumption
  <2>2. \A m \in Locs \ {l} : Holders(m)' = Holders(m)
    BY <1>2, <1>4, <1>5, <1>6, <2>1, DistinctAssumption DEF Holders, NoOp
  <2>3. Holders(l)' = (Holders(l) \ {t}) \cup {d}
    BY <1>2, <1>4, <1>5, <1>6, <2>1, DistinctAssumption DEF Holders, NoOp
  <2>4. t \in Holders(l) /\ d \notin Holders(l)
    BY <1>2, <1>6, <2>1 DEF Holders
  <2>5. IsFiniteSet(Holders(l)) /\ Cardinality(Holders(l)) \in Nat
    BY <1>2, FiniteHolders
  <2>7. Cardinality((Holders(l) \ {t}) \cup {d}) = Cardinality(Holders(l))
    BY <2>4, <2>5, SwapCount
  <2> SUFFICES ASSUME NEW m \in Locs
               PROVE  cnt'[m] = Cardinality(Holders(m)')
    BY DEF RefExact
  <2>8. cnt'[m] = Cardinality(Holders(m))
    BY <1>1 DEF IInv, RefExact
  <2> QED
    BY <2>2, <2>3, <2>7, <2>8
<1>9. DeletedOnce'
  BY <1>1 DEF IInv, DeletedOnce
<1>10. NoWild'
  BY <1>2, <1>4, DistinctAssumption DEF IInv, NoWild
<1>11. ElemsInHeap'
  <2> SUFFICES ASSUME NEW m \in Locs, NEW i \in Slots, at'[<<m, i>>] # Null
               PROVE  Live(m) \/ m \in Dying
    BY <1>1 DEF ElemsInHeap, Live, Dying
  <2>1. <<m, i>> \in Elems /\ <<m, i>> \in Places /\ <<m, i>>[1] = m
    BY DEF Elems, Places
  <2> QED
    BY <1>2, <1>4, <2>1 DEF IInv, ElemsInHeap
<1>12. OpStable'
  <2> SUFFICES ASSUME NEW u \in Threads \ {t}, Busy(u), op'[u] = op[u]
               PROVE  (/\ Anchored(u, op[u].dst, op[u].dst)
                       /\ Anchored(u, op[u].dst, op[u].src)
                       /\ at[op[u].dst] \in Locs
                       /\ at[op[u].src] = op[u].new
                       /\ op[u].pc = "unref" => stack[u] = <<>>)'
    BY <1>5 DEF OpStable, Busy, NoOp
  <2>1. d # op[u].dst /\ d # op[u].src /\ op[u].dst \in Places /\ op[u].src \in Places
    BY <1>1, <1>2, DstIsMine, OpLive
  <2>2. d \in Handles => Owner[d] = t
    BY <1>1, <1>2, DistinctAssumption DEF IInv, OpStable, Anchored, Owned
  <2>3. \A p \in Places : Anchored(u, op[u].dst, p) => Anchored(u, op[u].dst, p)'
    <3> SUFFICES ASSUME NEW p \in Elems, NEW h \in Owned(u) \ {op[u].dst}, at[h] = p[1]
                 PROVE  at'[h] = p[1]
      BY DEF Anchored, Owned
    <3>1. h \in Places /\ h # d
      BY <2>2 DEF Owned, Places
    <3> QED
      BY <1>4, <3>1
  <2> QED
    BY <1>1, <1>4, <2>1, <2>3 DEF IInv, OpStable
<1>13. OpExclusive'
  BY <1>1, <1>5 DEF IInv, OpExclusive, Busy, NoOp
<1> QED
  BY <1>7, <1>8, <1>9, <1>10, <1>11, <1>12, <1>13 DEF IInv

-----------------------------------------------------------------------------
(* The theorems *)

(* IInv is inductive. *)
LEMMA InvInit == Init => IInv
<1> SUFFICES ASSUME Init
             PROVE  IInv
  OBVIOUS
<1>1. TypeOK
  BY DEF Init, TypeOK, OpType
<1>2. \A l \in Locs : Holders(l) = {}
  BY DistinctAssumption DEF Init, Holders, NoOp
<1>3. RefExact
  BY <1>2, FS_EmptySet DEF Init, RefExact
<1>4. DeletedOnce /\ NoWild /\ ElemsInHeap /\ OpStable /\ OpExclusive
  BY DistinctAssumption
     DEF Init, DeletedOnce, NoWild, ElemsInHeap, OpStable, OpExclusive, Busy,
         NoOp, Places, Elems
<1> QED
  BY <1>1, <1>3, <1>4 DEF IInv

LEMMA InvNext ==
  ASSUME ~AliasedWalk
  PROVE  IInv /\ [Next]_vars => IInv'
<1> SUFFICES ASSUME IInv, [Next]_vars
             PROVE  IInv'
  OBVIOUS
<1>1. CASE UNCHANGED vars
  <2>1. at' = at /\ cnt' = cnt /\ op' = op /\ stack' = stack
    BY <1>1 DEF vars
  <2>2. TypeOK'
    BY <2>1 DEF IInv, TypeOK
  <2>3. RefExact'
    BY <2>1 DEF IInv, RefExact, Holders, Released
  <2>4. DeletedOnce' /\ NoWild' /\ OpExclusive'
    BY <2>1 DEF IInv, DeletedOnce, NoWild, OpExclusive, Busy
  <2>5. ElemsInHeap'
    BY <2>1 DEF IInv, ElemsInHeap, Live, Dying
  <2>6. OpStable'
    BY <2>1 DEF IInv, OpStable, Anchored, Owned, Busy
  <2> QED
    BY <2>2, <2>3, <2>4, <2>5, <2>6 DEF IInv
<1>2. ASSUME NEW t \in Threads, Call(t)
      PROVE  IInv'
  <2>1. ASSUME NEW p \in Places, Construct(t, p)
        PROVE  IInv'
    BY <2>1, ConstructStep
  <2>2. ASSUME NEW h \in Handles, Intern(t, h)
        PROVE  IInv'
    BY <2>2, InternStep
  <2>3. ASSUME NEW p \in Places, NEW s \in Places, CopyConstruct(t, p, s)
        PROVE  IInv'
    BY <2>3, CopyConstructStep
  <2>4. ASSUME NEW p \in Places, Destroy(t, p)
        PROVE  IInv'
    BY <2>4, DestroyStep
  <2>5. ASSUME NEW d \in Places, NEW s \in Places, AssignRef(t, d, s)
        PROVE  IInv'
    BY <2>5, AssignRefStep
  <2> QED
    BY <1>2, <2>1, <2>2, <2>3, <2>4, <2>5 DEF Call
<1>3. ASSUME NEW t \in Threads, Continue(t)
      PROVE  IInv'
  BY <1>3, AssignUnrefStep, AssignSetStep, DestroyElemStep, DeleteStep DEF Continue
<1> QED
  BY <1>1, <1>2, <1>3 DEF Next

(* cclvar.cc:166-183: a literal the pool has a place for is never deleted. *)
LEMMA PoolLive == IInv /\ at[Pool] # Null => Live(at[Pool])
<1> SUFFICES ASSUME IInv, at[Pool] # Null
             PROVE  Live(at[Pool])
  OBVIOUS
<1>1. at[Pool] \in Locs
  BY PoolUntouched DEF IInv, TypeOK, NoWild
<1> QED
  BY <1>1, PoolUntouched, PlaceHolds DEF IInv

(* cclvar.cc:166-183: no step moves or empties the slot of the literal     *)
(* pool once it is filled.                                                 *)
LEMMA PoolStays ==
  ASSUME IInv, [Next]_vars, at[Pool] # Null
  PROVE  at'[Pool] = at[Pool]
<1> USE PoolUntouched, DistinctAssumption DEF IInv, TypeOK
<1>1. CASE UNCHANGED vars
  BY <1>1 DEF vars
<1>2. ASSUME NEW t \in Threads, NEW p \in Places,
             \/ Construct(t, p) \/ Destroy(t, p)
             \/ \E s \in Places : CopyConstruct(t, p, s) \/ AssignRef(t, p, s)
      PROVE  at'[Pool] = at[Pool]
  BY <1>2 DEF Construct, Destroy, CopyConstruct, AssignRef, Refs, Owned
<1>3. ASSUME NEW t \in Threads, NEW h \in Handles, Intern(t, h)
      PROVE  at'[Pool] = at[Pool]
  BY <1>3 DEF Intern
<1>4. ASSUME NEW t \in Threads, Continue(t)
      PROVE  at'[Pool] = at[Pool]
  <2>1. CASE AssignUnref(t) \/ Delete(t)
    BY <2>1 DEF AssignUnref, Delete
  <2>2. CASE AssignSet(t)
    BY <2>2 DEF AssignSet, Busy
  <2>3. CASE DestroyElem(t)
    <3>1. PICK i \in Slots : /\ at[<<Head(stack[t]), i>>] \in Locs
                            /\ at' = [at EXCEPT ![<<Head(stack[t]), i>>] = Null]
      BY <2>3 DEF DestroyElem
    <3>2. stack[t] # <<>> /\ Head(stack[t]) \in Locs
      BY <2>3, PopFacts DEF DestroyElem
    <3>3. <<Head(stack[t]), i>> \in Elems
      BY <3>2 DEF Elems
    <3> QED
      BY <3>1, <3>3
  <2> QED
    BY <1>4, <2>1, <2>2, <2>3 DEF Continue
<1> QED
  BY <1>1, <1>2, <1>3, <1>4 DEF Next, Call

(* Every reachable state of a program that keeps to the callers'           *)
(* discipline satisfies the inductive invariant.                           *)
THEOREM Invariance ==
  ASSUME ~AliasedWalk
  PROVE  Spec => []IInv
<1>1. IInv /\ [Next]_vars => IInv'
  BY InvNext
<1> QED
  BY InvInit, <1>1, PTL DEF Spec

(* The pointers, counters and call records keep their ranges; in           *)
(* particular no counter ever goes below zero.                             *)
THEOREM TypeCorrect ==
  ASSUME ~AliasedWalk
  PROVE  Spec => []TypeOK
<1>1. IInv => TypeOK
  BY DEF IInv
<1> QED
  BY <1>1, Invariance, PTL

(* cclvar.h:101-102,162,172,174-180: with any number of threads sharing    *)
(* locations, every m_ref_cnt is at all times the number of var_c objects  *)
(* and calls in progress that hold the location.                           *)
THEOREM CountersExact ==
  ASSUME ~AliasedWalk
  PROVE  Spec => []RefExact
<1>1. IInv => RefExact
  BY DEF IInv
<1> QED
  BY <1>1, Invariance, PTL

(* cclvar.h:102: a location is deleted by one thread, once, after its      *)
(* counter reached zero.                                                   *)
THEOREM SingleDelete ==
  ASSUME ~AliasedWalk
  PROVE  Spec => []DeletedOnce
<1>1. IInv => DeletedOnce
  BY DEF IInv
<1> QED
  BY <1>1, Invariance, PTL

(* cclvar.h:102: no pointer that can still be used leads to a location     *)
(* that is being or has been deleted.                                      *)
THEOREM NoUseAfterDelete ==
  ASSUME ~AliasedWalk
  PROVE  Spec => []NoDangling
<1>1. IInv => NoDangling
  <2> SUFFICES ASSUME IInv
               PROVE  NoDangling
    OBVIOUS
  <2>1. ASSUME NEW p \in Places \ Released, at[p] # Null
        PROVE  at[p] \in Locs /\ Live(at[p])
    <3>1. at[p] \in Locs
      BY <2>1 DEF IInv, TypeOK, NoWild
    <3> QED
      BY <3>1, PlaceHolds DEF IInv
  <2>2. ASSUME NEW t \in Threads, Busy(t)
        PROVE  Live(op[t].new)
    <3>1. op[t].new \in Locs
      BY <2>2, OpLive
    <3>2. t \in Holders(op[t].new)
      BY DEF Holders
    <3> QED
      BY <3>1, <3>2, HeldIsLive DEF IInv
  <2> QED
    BY <2>1, <2>2 DEF NoDangling
<1> QED
  BY <1>1, Invariance, PTL

(* cclvar.h:176-178: the pointer operator= reads last is the one it took a *)
(* reference on first, provided no variable is assigned an element out of  *)
(* the container it is itself the last holder of.                          *)
THEOREM AssignmentSourceStable ==
  ASSUME ~AliasedWalk
  PROVE  Spec => []SourceStable
<1>1. IInv => SourceStable
  BY OpLive DEF IInv, OpStable, SourceStable
<1> QED
  BY <1>1, Invariance, PTL

(* cclvar.h:102: a live location has a holder; when no variable leads to   *)
(* it, the holder is an element of a live container no variable leads to   *)
(* either.  What is never given back is held by a cycle.                   *)
THEOREM LeaksAreCycles ==
  ASSUME ~AliasedWalk
  PROVE  Spec => []OnlyCyclesLeak
<1>1. ASSUME IInv
      PROVE  OnlyCyclesLeak
  <2> SUFFICES ASSUME NEW l \in Leaked
               PROVE  \E m \in Leaked : l \in Points(m)
    BY DEF OnlyCyclesLeak
  <2>1. l \in Locs /\ Live(l) /\ l \notin Reachable
    BY DEF Leaked
  <2>2. PICK S \in SUBSET Locs : Closed(S) /\ l \notin S
    BY <2>1 DEF Reachable
  <2>3. PICK p \in Holders(l) : TRUE
    <3>1. Cardinality(Holders(l)) > 0
      BY <1>1, <2>1 DEF IInv, RefExact, Live
    <3> QED
      BY <3>1, FS_EmptySet
  <2>4. l \notin Rooted
    BY <2>2 DEF Closed
  <2>5. p \in Elems /\ Live(p[1])
    BY <2>1, <2>3, <2>4 DEF Rooted
  <2>6. p[1] \in Locs /\ p[2] \in Slots /\ p = <<p[1], p[2]>>
    BY <2>5 DEF Elems
  <2>7. at[p] = l
    BY <2>3, <2>5, DistinctAssumption DEF Holders, Places
  <2>8. l \in Points(p[1])
    BY <2>1, <2>6, <2>7 DEF Points
  <2>9. p[1] \notin Reachable
    BY <2>2, <2>6, <2>8 DEF Reachable, Closed
  <2> QED
    BY <2>5, <2>6, <2>8, <2>9 DEF Leaked
<1> QED
  BY <1>1, Invariance, PTL

(* cclvar.cc:166-183: the pool never lets go of the literal it holds, so   *)
(* whatever the threads copy, assign and destroy, its counter stays above  *)
(* zero.                                                                   *)
THEOREM LiteralIsForEver ==
  ASSUME ~AliasedWalk
  PROVE  Spec => LiteralStays
<1>1. ASSUME IInv, IInv', [Next]_vars, at[Pool] # Null
      PROVE  cnt'[at[Pool]] > 0
  <2>1. at'[Pool] = at[Pool]
    BY <1>1, PoolStays
  <2>2. (at[Pool] # Null => Live(at[Pool]))'
    BY <1>1, PoolLive, PTL
  <2> QED
    BY <1>1, <2>1, <2>2 DEF Live
<1>2. IInv /\ IInv' /\ [Next]_vars => [at[Pool] # Null => cnt'[at[Pool]] > 0]_vars
  BY <1>1
<1> QED
  BY <1>2, Invariance, PTL DEF Spec, LiteralStays

-----------------------------------------------------------------------------
(* The least of a set of numbers. *)
LEMMA Least ==
  ASSUME NEW T, T \subseteq Nat, T # {}
  PROVE  \E x \in T : \A y \in T : x <= y
<1> DEFINE Less == {p \in Nat \X Nat : p[1] < p[2]}
<1>1. IsWellFoundedOn(Less, Nat)
  BY NatLessThanWellFounded DEF OpToRel
<1>2. PICK x \in T : \A y \in T : ~(<<y, x>> \in Less)
  BY <1>1, WFMin
<1>3. \A y \in T : ~(y < x)
  BY <1>2
<1>4. QED  BY <1>3

(* Induction up to n: a set with 0 that is closed under + 1. *)
LEMMA UpTo ==
  ASSUME NEW n \in Nat, NEW S, 0 \in S, \A i \in 0 .. n - 1 : i \in S => i + 1 \in S
  PROVE  0 .. n \subseteq S
<1> DEFINE T == (0 .. n) \ S
<1>1. SUFFICES ASSUME T # {}
               PROVE  FALSE
  OBVIOUS
<1>2. PICK x \in T : \A y \in T : x <= y
  <2>1. T \subseteq Nat
    OBVIOUS
  <2> HIDE DEF T
  <2>2. QED  BY <1>1, <2>1, Least
<1>3. x # 0 /\ x - 1 \in 0 .. n - 1 /\ x - 1 \notin T
  BY <1>2
<1>4. x - 1 \in S
  BY <1>3
<1>5. QED  BY <1>2, <1>3, <1>4

(* f is the recursion that Nested is. *)
NestedBy(f, s) ==
  f = [n \in Nat |-> IF n = 0 THEN s ELSE s \cup Containers(f[n - 1])]

(* g is that recursion up to k. *)
NestedTo(g, k, s) ==
  /\ DOMAIN g = 0 .. k /\ g[0] = s
  /\ \A i \in 1 .. k : g[i] = s \cup Containers(g[i - 1])

LEMMA NestedToExists ==
  ASSUME NEW s, NEW n \in Nat
  PROVE  \E g : NestedTo(g, n, s)
<1> DEFINE S == {k \in 0 .. n : \E g : NestedTo(g, k, s)}
<1>1. 0 \in S
  <2>1. NestedTo([i \in 0 .. 0 |-> s], 0, s)
    BY DEF NestedTo
  <2>2. 0 \in 0 .. n
    OBVIOUS
  <2>3. QED  BY <2>1, <2>2
<1>2. ASSUME NEW k \in 0 .. n - 1, k \in S
      PROVE  k + 1 \in S
  <2>1. PICK g : NestedTo(g, k, s)
    BY <1>2
  <2> DEFINE x == s \cup Containers(g[k])
             h == [i \in 0 .. k + 1 |-> IF i = k + 1 THEN x ELSE g[i]]
  <2>2. x = s \cup Containers(g[k])
    OBVIOUS
  <2> HIDE DEF x
  <2>3. DOMAIN h = 0 .. k + 1 /\ h[0] = s
    BY <2>1 DEF NestedTo
  <2>4. ASSUME NEW i \in 1 .. k + 1
        PROVE  h[i] = s \cup Containers(h[i - 1])
    <3>1. h[i - 1] = g[i - 1]
      OBVIOUS
    <3>2. CASE i = k + 1
      <4>1. h[i] = x /\ i - 1 = k
        BY <3>2
      <4> HIDE DEF h
      <4>2. QED  BY <2>2, <3>1, <4>1
    <3>3. CASE i # k + 1
      <4>1. h[i] = g[i] /\ i \in 1 .. k
        BY <3>3
      <4>2. g[i] = s \cup Containers(g[i - 1])
        BY <2>1, <4>1 DEF NestedTo
      <4> HIDE DEF h
      <4>3. QED  BY <3>1, <4>1, <4>2
    <3>4. QED  BY <3>2, <3>3
  <2> HIDE DEF h
  <2>5. NestedTo(h, k + 1, s)
    BY <2>3, <2>4 DEF NestedTo
  <2>6. k + 1 \in 0 .. n
    OBVIOUS
  <2>7. QED  BY <2>5, <2>6
<1>3. n \in S
  <2>1. 0 .. n \subseteq S
    <3> HIDE DEF S
    <3>1. QED  BY <1>1, <1>2, UpTo
  <2>2. n \in 0 .. n
    OBVIOUS
  <2> HIDE DEF S
  <2>3. QED  BY <2>1, <2>2
<1>4. QED  BY <1>3

LEMMA NestedToUnique ==
  ASSUME NEW s, NEW n \in Nat, NEW m \in n .. n + 1, NEW g, NEW h,
         NestedTo(g, n, s), NestedTo(h, m, s)
  PROVE  g[n] = h[n]
<1> DEFINE S == {i \in 0 .. n : g[i] = h[i]}
<1>1. 0 \in S
  BY DEF NestedTo
<1>2. ASSUME NEW i \in 0 .. n - 1, i \in S
      PROVE  i + 1 \in S
  <2>1. i + 1 \in 1 .. n /\ i + 1 \in 1 .. m /\ (i + 1) - 1 = i /\ i + 1 \in 0 .. n
    OBVIOUS
  <2>2. g[i] = h[i]
    BY <1>2
  <2>3. g[i + 1] = s \cup Containers(g[i])
    BY <2>1 DEF NestedTo
  <2>4. h[i + 1] = s \cup Containers(h[i])
    BY <2>1 DEF NestedTo
  <2>5. QED  BY <2>1, <2>2, <2>3, <2>4
<1>3. n \in S
  <2>1. 0 .. n \subseteq S
    <3> HIDE DEF S
    <3>1. QED  BY <1>1, <1>2, UpTo
  <2>2. n \in 0 .. n
    OBVIOUS
  <2> HIDE DEF S
  <2>3. QED  BY <2>1, <2>2
<1>4. QED  BY <1>3

LEMMA NestedSolves ==
  ASSUME NEW s
  PROVE  NestedBy(Nested(s), s)
<1> DEFINE g(n) == CHOOSE x : NestedTo(x, n, s)
           f == [n \in Nat |-> g(n)[n]]
<1>1. \A n \in Nat : NestedTo(g(n), n, s)
  BY NestedToExists
<1>2. \A n \in Nat : f[n] = g(n)[n]
  OBVIOUS
<1>3. DOMAIN f = Nat
  OBVIOUS
<1>4. f = [n \in Nat |-> f[n]]
  OBVIOUS
<1> HIDE DEF g, f
<1>5. ASSUME NEW n \in Nat
      PROVE  f[n] = IF n = 0 THEN s ELSE s \cup Containers(f[n - 1])
  <2>1. CASE n = 0
    BY <1>1, <1>2, <2>1 DEF NestedTo
  <2>2. CASE n # 0
    <3>1. n - 1 \in Nat /\ n \in (n - 1) .. (n - 1) + 1 /\ n \in 1 .. n
      BY <2>2
    <3>2. NestedTo(g(n), n, s) /\ NestedTo(g(n - 1), n - 1, s)
      BY <1>1, <3>1
    <3>3. g(n - 1)[n - 1] = g(n)[n - 1]
      BY <3>1, <3>2, NestedToUnique
    <3>4. g(n)[n] = s \cup Containers(g(n)[n - 1])
      BY <3>1, <3>2 DEF NestedTo
    <3>5. f[n] = s \cup Containers(f[n - 1])
      BY <1>2, <3>1, <3>3, <3>4
    <3>6. QED  BY <2>2, <3>5
  <2>3. QED  BY <2>1, <2>2
<1>6. NestedBy(f, s)
  BY <1>4, <1>5 DEF NestedBy
<1> DEFINE up == CHOOSE x : NestedBy(x, s)
<1>7. NestedBy(up, s)
  BY <1>6
<1>8. Nested(s) = up
  BY DEF Nested, NestedBy
<1>9. QED  BY <1>7, <1>8

(* What nests no deeper than n + 1: a scalar, or a container of what nests *)
(* no deeper than n.                                                       *)
LEMMA NestedIs ==
  ASSUME NEW s
  PROVE  /\ Nested(s)[0] = s
         /\ \A n \in Nat : Nested(s)[n + 1] = s \cup Containers(Nested(s)[n])
<1> DEFINE f == Nested(s)
<1>1. f = [n \in Nat |-> IF n = 0 THEN s ELSE s \cup Containers(f[n - 1])]
  BY NestedSolves DEF NestedBy
<1> HIDE DEF f
<1>2. f[0] = s
  BY <1>1
<1>3. ASSUME NEW n \in Nat
      PROVE  f[n + 1] = s \cup Containers(f[n])
  <2>1. n + 1 \in Nat /\ n + 1 # 0 /\ (n + 1) - 1 = n
    OBVIOUS
  <2>2. f[n + 1] = s \cup Containers(f[(n + 1) - 1])
    BY <1>1, <2>1
  <2>3. QED  BY <2>1, <2>2
<1>4. QED  BY <1>2, <1>3 DEF f

LEMMA ContainersGrow ==
  ASSUME NEW P, NEW Q, P \subseteq Q
  PROVE  Containers(P) \subseteq Containers(Q)
<1>1. Seq(P) \subseteq Seq(Q)
  OBVIOUS
<1>2. QED  BY <1>1 DEF Containers

LEMMA NestedGrows ==
  ASSUME NEW s, NEW r, s \subseteq r, NEW n \in Nat, NEW m \in n .. n + 1
  PROVE  Nested(s)[n] \subseteq Nested(r)[m]
<1> DEFINE d == m - n
           f == Nested(s)
           g == Nested(r)
           S == {i \in 0 .. n : f[i] \subseteq g[i + d]}
<1>1. /\ f[0] = s /\ \A i \in Nat : f[i + 1] = s \cup Containers(f[i])
      /\ g[0] = r /\ \A i \in Nat : g[i + 1] = r \cup Containers(g[i])
  BY NestedIs
<1>2. d \in {0, 1} /\ m = n + d
  OBVIOUS
<1> HIDE DEF f, g, d
<1>3. 0 \in S
  <2>1. s \subseteq g[0] /\ s \subseteq g[0 + 1]
    BY <1>1
  <2>2. 0 \in 0 .. n
    OBVIOUS
  <2>3. QED  BY <1>1, <1>2, <2>1, <2>2
<1>4. ASSUME NEW i \in 0 .. n - 1, i \in S
      PROVE  i + 1 \in S
  <2>1. i \in Nat /\ i + d \in Nat /\ (i + d) + 1 = (i + 1) + d /\ i + 1 \in 0 .. n
    BY <1>2
  <2>2. f[i] \subseteq g[i + d]
    BY <1>4
  <2>3. Containers(f[i]) \subseteq Containers(g[i + d])
    BY <2>2, ContainersGrow
  <2>4. f[i + 1] = s \cup Containers(f[i])
    BY <1>1, <2>1
  <2>5. g[(i + d) + 1] = r \cup Containers(g[i + d])
    BY <1>1, <2>1
  <2>6. f[i + 1] \subseteq g[(i + d) + 1]
    BY <2>3, <2>4, <2>5
  <2>7. QED  BY <2>1, <2>6
<1>5. n \in S
  <2>1. 0 .. n \subseteq S
    <3> HIDE DEF S
    <3>1. QED  BY <1>3, <1>4, UpTo
  <2>2. n \in 0 .. n
    OBVIOUS
  <2> HIDE DEF S
  <2>3. QED  BY <2>1, <2>2
<1>6. QED  BY <1>2, <1>5 DEF f, g

(* Whatever nests n deep is among the values when n is at most Depth. *)
LEMMA NestedWithin ==
  ASSUME NEW s, NEW m \in Nat, NEW n \in 0 .. m
  PROVE  Nested(s)[n] \subseteq Nested(s)[m]
<1> DEFINE f == Nested(s)
           S == {i \in 0 .. m - n : f[n] \subseteq f[n + i]}
<1>1. \A i \in Nat : f[i] \subseteq f[i + 1]
  BY NestedGrows
<1> HIDE DEF f
<1>2. 0 \in S
  OBVIOUS
<1>3. ASSUME NEW i \in 0 .. (m - n) - 1, i \in S
      PROVE  i + 1 \in S
  <2>1. n + i \in Nat /\ (n + i) + 1 = n + (i + 1) /\ i + 1 \in 0 .. m - n
    OBVIOUS
  <2>2. f[n] \subseteq f[n + i] /\ f[n + i] \subseteq f[(n + i) + 1]
    BY <1>1, <1>3, <2>1
  <2>3. QED  BY <2>1, <2>2
<1>4. m - n \in S
  <2>1. m - n \in Nat /\ m - n \in 0 .. m - n
    OBVIOUS
  <2>2. 0 .. m - n \subseteq S
    <3> DEFINE k == m - n
    <3>1. k \in Nat /\ \A i \in 0 .. k - 1 : i \in S => i + 1 \in S
      BY <1>3, <2>1
    <3> HIDE DEF S, k
    <3>2. 0 .. k \subseteq S
      BY <1>2, <3>1, UpTo
    <3>3. QED  BY <3>2 DEF k
  <2> HIDE DEF S
  <2>3. QED  BY <2>1, <2>2
<1>5. n + (m - n) = m
  OBVIOUS
<1>6. QED  BY <1>4, <1>5 DEF f

-----------------------------------------------------------------------------
(* The least of a set of positions. *)
LEMMA MinIs ==
  ASSUME NEW D, D \subseteq Nat, D # {}
  PROVE  Min(D) \in D /\ \A i \in D : Min(D) <= i
<1>1. \E x \in D : \A y \in D : x =< y
  BY Least
<1>2. QED  BY <1>1 DEF Min

(* The parts of a container. *)
LEMMA PartsIn ==
  ASSUME NEW P, NEW a \in Containers(P)
  PROVE  /\ a.t \in TypeArray .. TypeDict /\ a.v = 0
         /\ a.e \in [1 .. Len(a.e) -> P] /\ Len(a.e) \in Nat /\ DOMAIN a.e = 1 .. Len(a.e)
         /\ IF a.t = TypeDict THEN a.k \in [1 .. Len(a.e) -> P] ELSE a.k = <<>>
<1>1. /\ a \in [t : TypeArray .. TypeDict, v : {0}, k : Seq(P), e : Seq(P)]
      /\ Len(a.k) = IF a.t = TypeDict THEN Len(a.e) ELSE 0
  BY DEF Containers
<1>2. a.t \in TypeArray .. TypeDict /\ a.v = 0 /\ a.k \in Seq(P) /\ a.e \in Seq(P)
  BY <1>1
<1> DEFINE k == a.k
           e == a.e
<1>3. k \in Seq(P) /\ e \in Seq(P)
  BY <1>2
<1> HIDE DEF k, e
<1>4. /\ e \in [1 .. Len(e) -> P] /\ Len(e) \in Nat /\ DOMAIN e = 1 .. Len(e)
      /\ k \in [1 .. Len(k) -> P]
      /\ Len(k) = 0 => k = <<>>
  BY <1>3, LenProperties, EmptySeq
<1>5. QED  BY <1>1, <1>2, <1>4 DEF k, e

(* How two values compare depends on how their parts compare. *)
Built(P) == Scalars \cup Containers(P)
Agree(f, g, P) == \A x, y \in P : f[<<x, y>>] = g[<<x, y>>]

LEMMA PartsOnly ==
  ASSUME NEW P, NEW a \in Built(P), NEW b \in Built(P), NEW f, NEW g, Agree(f, g, P)
  PROVE  CompareParts(a, b, f) = CompareParts(a, b, g)
<1>0. /\ a \in Scalars \cup Containers(P) /\ b \in Scalars \cup Containers(P)
      /\ \A x, y \in P : f[<<x, y>>] = g[<<x, y>>]
  BY DEF Built, Agree
<1>1. CASE a.t # b.t \/ a.t < TypeArray
  BY <1>1 DEF CompareParts
<1>2. CASE ~(a.t # b.t \/ a.t < TypeArray)
  <2>1. \A s \in Scalars : s.t < TypeArray
    BY DEF Scalars, Numbers, TypeBlank, TypeString, TypeArray
  <2>2. a \in Containers(P) /\ b \in Containers(P) /\ a.t = b.t
    BY <1>0, <1>2, <2>1
  <2>3. CASE Len(a.e) # Len(b.e)
    BY <1>2, <2>3 DEF CompareParts
  <2>4. CASE Len(a.e) = Len(b.e)
    <3> DEFINE n == Len(a.e)
               Pair(i, h) == IF a.t = TypeDict /\ h[<<a.k[i], b.k[i]>>] # 0
                             THEN h[<<a.k[i], b.k[i]>>] ELSE h[<<a.e[i], b.e[i]>>]
               D(h) == {i \in DOMAIN a.e : Pair(i, h) # 0}
    <3>1. DOMAIN a.e = 1 .. n /\ n \in Nat
      BY <2>2, PartsIn
    <3>2. ASSUME NEW i \in 1 .. n
          PROVE  Pair(i, f) = Pair(i, g)
      <4>1. a.e[i] \in P /\ b.e[i] \in P
        BY <2>2, <2>4, PartsIn
      <4>2. a.t = TypeDict => a.k[i] \in P /\ b.k[i] \in P
        BY <2>2, <2>4, PartsIn
      <4>3. QED  BY <1>0, <4>1, <4>2
    <3>3. D(f) = D(g)
      <4> HIDE DEF Pair
      <4>1. QED  BY <3>1, <3>2
    <3>4. D(f) # {} => Pair(Min(D(f)), f) = Pair(Min(D(g)), g)
      <4>1. D(f) \subseteq 1 .. n /\ D(f) \subseteq Nat
        BY <3>1
      <4> HIDE DEF Pair, D
      <4>2. D(f) # {} => Min(D(f)) \in 1 .. n
        BY <4>1, MinIs
      <4>3. QED  BY <3>2, <3>3, <4>2
    <3>5. ASSUME NEW h
          PROVE  CompareParts(a, b, h) = IF D(h) = {} THEN 0 ELSE Pair(Min(D(h)), h)
      BY <1>2, <2>4 DEF CompareParts
    <3> HIDE DEF Pair, D
    <3>6. CompareParts(a, b, f) = IF D(f) = {} THEN 0 ELSE Pair(Min(D(f)), f)
      BY <3>5
    <3>7. CompareParts(a, b, g) = IF D(g) = {} THEN 0 ELSE Pair(Min(D(g)), g)
      BY <3>5
    <3>8. QED  BY <3>3, <3>4, <3>6, <3>7
  <2>5. QED  BY <2>3, <2>4
<1>3. QED  BY <1>1, <1>2

(* f compares the values of V as the recursion does. *)
ComparesOn(f, V) == f = [p \in V \X V |-> CompareParts(p[1], p[2], f)]

(* The recursion of compare has a solution, one level of nesting after the *)
(* other.                                                                  *)
LEMMA CompareExists ==
  ASSUME NEW n \in Nat
  PROVE  \E f : ComparesOn(f, AnyValue[n])
<1> DEFINE V == AnyValue
           S == {i \in 0 .. n : \E f : ComparesOn(f, V[i])}
<1>1. V[0] = Scalars /\ \A i \in Nat : V[i + 1] = Scalars \cup Containers(V[i])
  BY NestedIs DEF AnyValue
<1>2. \A i \in Nat : V[i] \subseteq V[i + 1]
  BY NestedGrows DEF AnyValue
<1> HIDE DEF V
<1>3. 0 \in S
  <2> DEFINE z == [p \in V[0] \X V[0] |-> CompareParts(p[1], p[2], <<>>)]
  <2>1. ASSUME NEW a \in V[0], NEW b \in V[0]
        PROVE  CompareParts(a, b, <<>>) = CompareParts(a, b, z)
    <3> DEFINE P == {}
               f == <<>>
    <3>1. Agree(f, z, P)
      BY DEF Agree
    <3> HIDE DEF z, P, f
    <3>2. a \in Built(P) /\ b \in Built(P)
      BY <1>1 DEF Built
    <3>3. CompareParts(a, b, f) = CompareParts(a, b, z)
      BY <3>1, <3>2, PartsOnly
    <3>4. QED  BY <3>3 DEF f
  <2>2. z = [p \in V[0] \X V[0] |-> CompareParts(p[1], p[2], z)]
    <3> DEFINE w == z
    <3>1. \A a, b \in V[0] : CompareParts(a, b, <<>>) = CompareParts(a, b, w)
      BY <2>1
    <3> HIDE DEF w
    <3>2. z = [p \in V[0] \X V[0] |-> CompareParts(p[1], p[2], w)]
      BY <3>1
    <3>3. QED  BY <3>2 DEF w
  <2> HIDE DEF z
  <2>3. ComparesOn(z, V[0]) /\ 0 \in 0 .. n
    BY <2>2 DEF ComparesOn
  <2>4. QED  BY <2>3
<1>4. ASSUME NEW i \in 0 .. n - 1, i \in S
      PROVE  i + 1 \in S
  <2>1. PICK f : ComparesOn(f, V[i])
    BY <1>4
  <2> DEFINE W == V[i + 1]
             h == [p \in W \X W |-> CompareParts(p[1], p[2], f)]
  <2>2. W = Scalars \cup Containers(V[i]) /\ V[i] \subseteq W
    BY <1>1, <1>2
  <2> HIDE DEF W
  <2>3. ASSUME NEW x \in V[i], NEW y \in V[i]
        PROVE  f[<<x, y>>] = h[<<x, y>>]
    <3>1. f[<<x, y>>] = CompareParts(x, y, f)
      BY <2>1 DEF ComparesOn
    <3>2. h[<<x, y>>] = CompareParts(x, y, f)
      BY <2>2
    <3>3. QED  BY <3>1, <3>2
  <2>4. ASSUME NEW a \in W, NEW b \in W
        PROVE  CompareParts(a, b, f) = CompareParts(a, b, h)
    <3> DEFINE P == V[i]
    <3>1. Agree(f, h, P)
      BY <2>3 DEF Agree
    <3>2. a \in Built(P) /\ b \in Built(P)
      BY <2>2 DEF Built
    <3> HIDE DEF h, P
    <3>3. QED  BY <3>1, <3>2, PartsOnly
  <2>5. h = [p \in W \X W |-> CompareParts(p[1], p[2], h)]
    <3> DEFINE w == h
    <3>1. \A a, b \in W : CompareParts(a, b, f) = CompareParts(a, b, w)
      BY <2>4
    <3> HIDE DEF w
    <3>2. h = [p \in W \X W |-> CompareParts(p[1], p[2], w)]
      BY <3>1
    <3>3. QED  BY <3>2 DEF w
  <2> HIDE DEF h
  <2>6. ComparesOn(h, V[i + 1])
    BY <2>5 DEF ComparesOn, W
  <2>7. i + 1 \in 0 .. n
    OBVIOUS
  <2>8. QED  BY <2>6, <2>7
<1>5. n \in S
  <2>1. 0 .. n \subseteq S
    <3> HIDE DEF S
    <3>1. QED  BY <1>3, <1>4, UpTo
  <2>2. n \in 0 .. n
    OBVIOUS
  <2> HIDE DEF S
  <2>3. QED  BY <2>1, <2>2
<1>6. QED  BY <1>5 DEF V

(* So Compare(a, b) is what the code computes from the parts of a and b. *)
LEMMA CompareSolves ==
  ASSUME Depth \in Nat, NEW a \in Every, NEW b \in Every
  PROVE  Compare(a, b) = CompareParts(a, b, comparison)
<1> DEFINE c == CHOOSE f : ComparesOn(f, Every)
<1>1. ComparesOn(c, Every)
  BY CompareExists DEF Every
<1>2. comparison = c
  BY DEF comparison, ComparesOn
<1> HIDE DEF c
<1>3. c = [p \in Every \X Every |-> CompareParts(p[1], p[2], c)]
  BY <1>1 DEF ComparesOn
<1>4. c[<<a, b>>] = CompareParts(a, b, c)
  <2> DEFINE F(p) == CompareParts(p[1], p[2], c)
             q == <<a, b>>
  <2>1. c = [p \in Every \X Every |-> F(p)]
    BY <1>3
  <2>2. q \in Every \X Every /\ q[1] = a /\ q[2] = b
    OBVIOUS
  <2> HIDE DEF F, q
  <2>3. c[q] = F(q)
    BY <2>1, <2>2
  <2>4. c[q] = CompareParts(q[1], q[2], c)
    BY <2>3 DEF F
  <2>5. QED  BY <2>2, <2>4 DEF q
<1>5. QED  BY <1>2, <1>4 DEF Compare

-----------------------------------------------------------------------------
(* f is a total order on P that agrees with equality. *)
Follows(x, y, z) == x <= 0 /\ y <= 0 => z <= 0
Orders(f, P) ==
  /\ \A a, b \in P : f[<<a, b>>] \in Int
  /\ \A a, b \in P : f[<<a, b>>] = -f[<<b, a>>]
  /\ \A a, b \in P : f[<<a, b>>] = 0 <=> a = b
  /\ \A a, b, c \in P : Follows(f[<<a, b>>], f[<<b, c>>], f[<<a, c>>])

(* The first two parts that differ decide. *)
Lexical(s, t, f) ==
  LET D == {i \in DOMAIN s : f[<<s[i], t[i]>>] # 0}
  IN  IF D = {} THEN 0 ELSE f[<<s[Min(D)], t[Min(D)]>>]

(* m is the first place where s and t differ. *)
DifferAt(s, t, m) == s[m] # t[m] /\ \A i \in 1 .. m - 1 : s[i] = t[i]

Rows(n, P) == [1 .. n -> P]

LEMMA LexicalAt ==
  ASSUME NEW P, NEW f, Orders(f, P), NEW n \in Nat,
         NEW s \in Rows(n, P), NEW t \in Rows(n, P), NEW m \in 1 .. n, DifferAt(s, t, m)
  PROVE  Lexical(s, t, f) = f[<<s[m], t[m]>>] /\ f[<<s[m], t[m]>>] # 0
<1> DEFINE D == {i \in DOMAIN s : f[<<s[i], t[i]>>] # 0}
<1>1. DOMAIN s = 1 .. n /\ \A i \in 1 .. n : s[i] \in P /\ t[i] \in P
  BY DEF Rows
<1>2. \A i \in 1 .. n : f[<<s[i], t[i]>>] = 0 <=> s[i] = t[i]
  BY <1>1 DEF Orders
<1>3. D = {i \in 1 .. n : s[i] # t[i]}
  BY <1>1, <1>2
<1>4. m \in D /\ \A i \in D : m <= i
  <2> HIDE DEF D
  <2>1. m \in D
    BY <1>3 DEF DifferAt
  <2>2. ASSUME NEW i \in D
        PROVE  m <= i
    <3>1. i \in 1 .. n /\ s[i] # t[i]
      BY <1>3
    <3>2. i \notin 1 .. m - 1
      BY <3>1 DEF DifferAt
    <3>3. QED  BY <3>1, <3>2
  <2>3. QED  BY <2>1, <2>2
<1>5. D \subseteq Nat
  BY <1>3
<1>6. Lexical(s, t, f) = IF D = {} THEN 0 ELSE f[<<s[Min(D)], t[Min(D)]>>]
  BY DEF Lexical
<1> HIDE DEF D
<1>7. Min(D) \in D /\ Min(D) <= m
  BY <1>4, <1>5, MinIs
<1>8. Min(D) = m
  <2> DEFINE x == Min(D)
  <2>1. x \in Nat /\ x <= m /\ m <= x
    BY <1>4, <1>5, <1>7
  <2> HIDE DEF x
  <2>2. x = m
    BY <2>1
  <2>3. QED  BY <2>2 DEF x
<1>9. QED  BY <1>2, <1>4, <1>6, <1>8 DEF DifferAt

LEMMA LexicalSame ==
  ASSUME NEW P, NEW f, Orders(f, P), NEW n \in Nat, NEW s \in Rows(n, P)
  PROVE  Lexical(s, s, f) = 0
<1>1. DOMAIN s = 1 .. n /\ \A i \in 1 .. n : s[i] \in P
  BY DEF Rows
<1>2. \A i \in DOMAIN s : f[<<s[i], s[i]>>] = 0
  BY <1>1 DEF Orders
<1>3. QED  BY <1>2 DEF Lexical

LEMMA DifferSomewhere ==
  ASSUME NEW P, NEW n \in Nat, NEW s \in Rows(n, P), NEW t \in Rows(n, P), s # t
  PROVE  \E m \in 1 .. n : DifferAt(s, t, m)
<1> DEFINE D == {i \in 1 .. n : s[i] # t[i]}
<1>1. D # {} /\ D \subseteq Nat
  BY DEF Rows
<1>2. PICK m \in D : \A i \in D : m <= i
  <2> HIDE DEF D
  <2>1. QED  BY <1>1, Least
<1>3. m \in 1 .. n /\ s[m] # t[m]
  OBVIOUS
<1>4. ASSUME NEW i \in 1 .. m - 1
      PROVE  s[i] = t[i]
  <2>1. i \in 1 .. n /\ ~(m <= i)
    BY <1>3
  <2>2. i \notin D
    BY <1>2, <2>1
  <2>3. QED  BY <2>1, <2>2
<1>5. QED  BY <1>3, <1>4 DEF DifferAt

(* Sequences of one length are ordered by the first parts that differ. *)
LEMMA LexicalOrders ==
  ASSUME NEW P, NEW f, Orders(f, P), NEW n \in Nat,
         NEW s \in Rows(n, P), NEW t \in Rows(n, P), NEW u \in Rows(n, P)
  PROVE  /\ Lexical(s, t, f) \in Int
         /\ Lexical(s, t, f) = -Lexical(t, s, f)
         /\ Lexical(s, t, f) = 0 <=> s = t
         /\ Follows(Lexical(s, t, f), Lexical(t, u, f), Lexical(s, u, f))
<1>1. ASSUME NEW x \in Rows(n, P), NEW y \in Rows(n, P)
      PROVE  /\ Lexical(x, y, f) \in Int
             /\ Lexical(x, y, f) = -Lexical(y, x, f)
             /\ Lexical(x, y, f) = 0 <=> x = y
  <2>1. CASE x = y
    <3>1. Lexical(x, y, f) = 0 /\ Lexical(y, x, f) = 0
      BY <2>1, LexicalSame
    <3> DEFINE v == Lexical(x, y, f)
               w == Lexical(y, x, f)
    <3>2. v \in Int /\ w \in Int /\ v <= 0 /\ v >= 0 /\ w <= 0 /\ w >= 0
      BY <3>1
    <3> HIDE DEF v, w
    <3>3. v = -w
      BY <3>2
    <3>4. QED  BY <2>1, <3>1, <3>2, <3>3, Zenon DEF v, w
  <2>2. CASE x # y
    <3>1. PICK m \in 1 .. n : DifferAt(x, y, m)
      BY <2>2, DifferSomewhere
    <3>2. DifferAt(y, x, m)
      BY <3>1 DEF DifferAt
    <3>3. Lexical(x, y, f) = f[<<x[m], y[m]>>] /\ f[<<x[m], y[m]>>] # 0
      BY <3>1, LexicalAt
    <3>4. Lexical(y, x, f) = f[<<y[m], x[m]>>]
      BY <3>2, LexicalAt
    <3>5. x[m] \in P /\ y[m] \in P
      BY DEF Rows
    <3>6. f[<<x[m], y[m]>>] \in Int /\ f[<<x[m], y[m]>>] = -f[<<y[m], x[m]>>]
      BY <3>5 DEF Orders
    <3>7. QED  BY <2>2, <3>3, <3>4, <3>6
  <2>3. QED  BY <2>1, <2>2
<1>2. ASSUME Lexical(s, t, f) <= 0, Lexical(t, u, f) <= 0
      PROVE  Lexical(s, u, f) <= 0
  <2>1. CASE s = t \/ t = u
    BY <1>2, <2>1
  <2>2. CASE s # t /\ t # u
    <3>1. PICK m \in 1 .. n : DifferAt(s, t, m)
      BY <2>2, DifferSomewhere
    <3>2. PICK k \in 1 .. n : DifferAt(t, u, k)
      BY <2>2, DifferSomewhere
    <3>3. Lexical(s, t, f) = f[<<s[m], t[m]>>] /\ f[<<s[m], t[m]>>] # 0
      BY <3>1, LexicalAt
    <3>4. Lexical(t, u, f) = f[<<t[k], u[k]>>]
      BY <3>2, LexicalAt
    <3>5. CASE m < k
      <4>1. t[m] = u[m]
        BY <3>2, <3>5 DEF DifferAt
      <4>2. \A i \in 1 .. m - 1 : t[i] = u[i]
        BY <3>2, <3>5 DEF DifferAt
      <4>3. DifferAt(s, u, m)
        BY <3>1, <4>1, <4>2 DEF DifferAt
      <4>4. Lexical(s, u, f) = f[<<s[m], u[m]>>]
        BY <4>3, LexicalAt
      <4>5. QED  BY <1>2, <3>3, <4>1, <4>4
    <3>6. CASE k < m
      <4>1. s[k] = t[k]
        BY <3>1, <3>6 DEF DifferAt
      <4>2. \A i \in 1 .. k - 1 : s[i] = t[i]
        BY <3>1, <3>6 DEF DifferAt
      <4>3. DifferAt(s, u, k)
        BY <3>2, <4>1, <4>2 DEF DifferAt
      <4>4. Lexical(s, u, f) = f[<<s[k], u[k]>>]
        BY <4>3, LexicalAt
      <4>5. QED  BY <1>2, <3>4, <4>1, <4>4
    <3>7. CASE m = k
      <4>1. s[m] \in P /\ t[m] \in P /\ u[m] \in P
        BY DEF Rows
      <4>2. f[<<s[m], t[m]>>] <= 0 /\ f[<<t[m], u[m]>>] <= 0
        BY <1>2, <3>3, <3>4, <3>7
      <4>3. f[<<s[m], u[m]>>] <= 0
        BY <4>1, <4>2 DEF Orders, Follows
      <4>4. f[<<s[m], t[m]>>] \in Int /\ f[<<s[m], t[m]>>] = -f[<<t[m], s[m]>>]
            /\ f[<<t[m], s[m]>>] \in Int
        BY <4>1 DEF Orders
      <4>5. s[m] # u[m]
        <5>1. SUFFICES ASSUME s[m] = u[m]
                       PROVE  FALSE
          OBVIOUS
        <5>2. f[<<t[m], s[m]>>] <= 0
          BY <4>2, <5>1
        <5>3. QED  BY <3>3, <4>2, <4>4, <5>2
      <4>6. DifferAt(s, u, m)
        BY <3>1, <3>2, <3>7, <4>5 DEF DifferAt
      <4>7. Lexical(s, u, f) = f[<<s[m], u[m]>>]
        BY <4>6, LexicalAt
      <4>8. QED  BY <4>3, <4>7
    <3>8. QED  BY <3>5, <3>6, <3>7
  <2>3. QED  BY <2>1, <2>2
<1>3. QED  BY <1>1, <1>2 DEF Follows

(* Two entries of dictionaries: the keys before the values. *)
Entries(f, P) ==
  [p \in (P \X P) \X (P \X P) |->
     IF f[<<p[1][1], p[2][1]>>] # 0 THEN f[<<p[1][1], p[2][1]>>] ELSE f[<<p[1][2], p[2][2]>>]]

LEMMA EntriesAre ==
  ASSUME NEW P, NEW f, NEW k \in P, NEW e \in P, NEW l \in P, NEW g \in P
  PROVE  Entries(f, P)[<< <<k, e>>, <<l, g>> >>] =
           IF f[<<k, l>>] # 0 THEN f[<<k, l>>] ELSE f[<<e, g>>]
<1> DEFINE p == << <<k, e>>, <<l, g>> >>
<1>1. p \in (P \X P) \X (P \X P) /\ p[1][1] = k /\ p[1][2] = e /\ p[2][1] = l /\ p[2][2] = g
  OBVIOUS
<1> HIDE DEF p
<1>2. Entries(f, P)[p] =
        IF f[<<p[1][1], p[2][1]>>] # 0 THEN f[<<p[1][1], p[2][1]>>] ELSE f[<<p[1][2], p[2][2]>>]
  BY <1>1 DEF Entries
<1>3. QED  BY <1>1, <1>2 DEF p

LEMMA EntriesOrders ==
  ASSUME NEW P, NEW f, Orders(f, P)
  PROVE  Orders(Entries(f, P), P \X P)
<1> DEFINE E == Entries(f, P)
           Q == P \X P
<1>1. ASSUME NEW x \in Q, NEW y \in Q
      PROVE  /\ E[<<x, y>>] = IF f[<<x[1], y[1]>>] # 0 THEN f[<<x[1], y[1]>>]
                              ELSE f[<<x[2], y[2]>>]
             /\ x[1] \in P /\ x[2] \in P /\ y[1] \in P /\ y[2] \in P
             /\ x = y <=> x[1] = y[1] /\ x[2] = y[2]
  <2>1. x = <<x[1], x[2]>> /\ y = <<y[1], y[2]>>
        /\ x[1] \in P /\ x[2] \in P /\ y[1] \in P /\ y[2] \in P
    OBVIOUS
  <2> DEFINE k == x[1]
             e == x[2]
             l == y[1]
             g == y[2]
  <2>2. k \in P /\ e \in P /\ l \in P /\ g \in P
    BY <2>1
  <2>3. x = <<k, e>> /\ y = <<l, g>>
    BY <2>1
  <2> HIDE DEF k, e, l, g
  <2>4. Entries(f, P)[<< <<k, e>>, <<l, g>> >>] =
          IF f[<<k, l>>] # 0 THEN f[<<k, l>>] ELSE f[<<e, g>>]
    BY <2>2, EntriesAre
  <2>5. E[<<x, y>>] = IF f[<<k, l>>] # 0 THEN f[<<k, l>>] ELSE f[<<e, g>>]
    BY <2>3, <2>4
  <2>6. x = y <=> k = l /\ e = g
    BY <2>3
  <2>7. QED  BY <2>1, <2>5, <2>6 DEF k, e, l, g
<1> HIDE DEF E, Q
<1>2. ASSUME NEW x \in Q, NEW y \in Q
      PROVE  /\ E[<<x, y>>] \in Int /\ E[<<x, y>>] = -E[<<y, x>>]
             /\ E[<<x, y>>] = 0 <=> x = y
  <2>0. x[1] \in P /\ x[2] \in P /\ y[1] \in P /\ y[2] \in P
    BY <1>1
  <2>1. /\ f[<<x[1], y[1]>>] \in Int /\ f[<<x[1], y[1]>>] = -f[<<y[1], x[1]>>]
        /\ f[<<y[1], x[1]>>] \in Int
        /\ f[<<x[1], y[1]>>] = 0 <=> x[1] = y[1]
    BY <2>0 DEF Orders
  <2>2. /\ f[<<x[2], y[2]>>] \in Int /\ f[<<x[2], y[2]>>] = -f[<<y[2], x[2]>>]
        /\ f[<<y[2], x[2]>>] \in Int
        /\ f[<<x[2], y[2]>>] = 0 <=> x[2] = y[2]
    BY <2>0 DEF Orders
  <2>3. /\ E[<<x, y>>] = IF f[<<x[1], y[1]>>] # 0 THEN f[<<x[1], y[1]>>] ELSE f[<<x[2], y[2]>>]
        /\ E[<<y, x>>] = IF f[<<y[1], x[1]>>] # 0 THEN f[<<y[1], x[1]>>] ELSE f[<<y[2], x[2]>>]
        /\ x = y <=> x[1] = y[1] /\ x[2] = y[2]
    BY <1>1
  <2>4. QED  BY <2>1, <2>2, <2>3
<1>3. ASSUME NEW x \in Q, NEW y \in Q, NEW z \in Q
      PROVE  Follows(E[<<x, y>>], E[<<y, z>>], E[<<x, z>>])
  <2>0. /\ x[1] \in P /\ x[2] \in P /\ y[1] \in P /\ y[2] \in P
        /\ z[1] \in P /\ z[2] \in P
    BY <1>1
  <2>1. /\ Follows(f[<<x[1], y[1]>>], f[<<y[1], z[1]>>], f[<<x[1], z[1]>>])
        /\ Follows(f[<<x[2], y[2]>>], f[<<y[2], z[2]>>], f[<<x[2], z[2]>>])
    BY <2>0 DEF Orders
  <2>2. /\ f[<<x[1], y[1]>>] \in Int /\ f[<<y[1], z[1]>>] \in Int /\ f[<<x[1], z[1]>>] \in Int
        /\ f[<<x[2], y[2]>>] \in Int /\ f[<<y[2], z[2]>>] \in Int /\ f[<<x[2], z[2]>>] \in Int
    BY <2>0 DEF Orders
  <2>3. /\ f[<<x[1], y[1]>>] = 0 <=> x[1] = y[1]
        /\ f[<<y[1], z[1]>>] = 0 <=> y[1] = z[1]
    BY <2>0 DEF Orders
  <2>4. f[<<x[1], z[1]>>] = 0 => f[<<x[1], y[1]>>] = -f[<<y[1], z[1]>>]
    <3>1. f[<<x[1], z[1]>>] = 0 => x[1] = z[1]
      BY <2>0 DEF Orders
    <3>2. f[<<x[1], y[1]>>] = -f[<<y[1], x[1]>>]
      BY <2>0 DEF Orders
    <3>3. QED  BY <3>1, <3>2
  <2>5. /\ E[<<x, y>>] = IF f[<<x[1], y[1]>>] # 0 THEN f[<<x[1], y[1]>>] ELSE f[<<x[2], y[2]>>]
        /\ E[<<y, z>>] = IF f[<<y[1], z[1]>>] # 0 THEN f[<<y[1], z[1]>>] ELSE f[<<y[2], z[2]>>]
        /\ E[<<x, z>>] = IF f[<<x[1], z[1]>>] # 0 THEN f[<<x[1], z[1]>>] ELSE f[<<x[2], z[2]>>]
    BY <1>1
  <2> DEFINE a == f[<<x[1], y[1]>>]
             b == f[<<y[1], z[1]>>]
             c == f[<<x[1], z[1]>>]
             d == f[<<x[2], y[2]>>]
             e == f[<<y[2], z[2]>>]
             g == f[<<x[2], z[2]>>]
  <2>6. /\ Follows(a, b, c) /\ Follows(d, e, g)
        /\ {a, b, c, d, e, g} \subseteq Int
        /\ c = 0 => a = -b
    BY <2>1, <2>2, <2>4
  <2>7. /\ a = 0 => c = b
        /\ b = 0 => c = a
    BY <2>3
  <2>8. /\ E[<<x, y>>] = IF a # 0 THEN a ELSE d
        /\ E[<<y, z>>] = IF b # 0 THEN b ELSE e
        /\ E[<<x, z>>] = IF c # 0 THEN c ELSE g
    BY <2>5
  <2> HIDE DEF a, b, c, d, e, g
  <2>9. QED  BY <2>6, <2>7, <2>8 DEF Follows
<1>4. Orders(E, Q)
  BY <1>2, <1>3 DEF Orders
<1>5. QED  BY <1>4 DEF E, Q

-----------------------------------------------------------------------------
LEMMA SignIs ==
  ASSUME NEW p \in Int, NEW q \in Int, NEW c, NEW d, c = Sign(p - q), d = Sign(q - p)
  PROVE  /\ c \in Int /\ c = -d /\ (c = 0 <=> p = q)
         /\ c <= 0 <=> p <= q
  BY DEF Sign

(* The parts of a container that are compared, one after the other, and    *)
(* how.                                                                    *)
Row(a) == IF a.t = TypeDict THEN [i \in 1 .. Len(a.e) |-> <<a.k[i], a.e[i]>>] ELSE a.e
Parts(t, P) == IF t = TypeDict THEN P \X P ELSE P
How(t, f, P) == IF t = TypeDict THEN Entries(f, P) ELSE f

LEMMA RowIs ==
  ASSUME NEW P, NEW a \in Containers(P)
  PROVE  Row(a) \in Rows(Len(a.e), Parts(a.t, P))
<1>1. CASE a.t = TypeDict
  <2> DEFINE n == Len(a.e)
             k == a.k
             e == a.e
  <2>1. k \in [1 .. n -> P] /\ e \in [1 .. n -> P]
    BY <1>1, PartsIn
  <2> HIDE DEF n, k, e
  <2>2. [i \in 1 .. n |-> <<k[i], e[i]>>] \in [1 .. n -> P \X P]
    BY <2>1
  <2>3. QED  BY <1>1, <2>2 DEF Row, Rows, Parts, n, k, e
<1>2. CASE a.t # TypeDict
  BY <1>2, PartsIn DEF Row, Rows, Parts
<1>3. QED  BY <1>1, <1>2

LEMMA RowTells ==
  ASSUME NEW P, NEW a \in Containers(P), NEW b \in Containers(P),
         a.t = b.t, Len(a.e) = Len(b.e), Row(a) = Row(b)
  PROVE  a = b
<1>1. /\ a = [t |-> a.t, v |-> a.v, k |-> a.k, e |-> a.e]
      /\ b = [t |-> b.t, v |-> b.v, k |-> b.k, e |-> b.e]
  BY DEF Containers
<1>2. a.v = b.v
  BY PartsIn
<1>3. a.k = b.k /\ a.e = b.e
  <2>1. CASE a.t = TypeDict
    <3> DEFINE n == Len(a.e)
               ka == a.k
               kb == b.k
               ea == a.e
               eb == b.e
    <3>1. /\ ka \in [1 .. n -> P] /\ kb \in [1 .. n -> P]
          /\ ea \in [1 .. n -> P] /\ eb \in [1 .. n -> P]
      BY <2>1, PartsIn
    <3>2. [i \in 1 .. n |-> <<ka[i], ea[i]>>] = [i \in 1 .. n |-> <<kb[i], eb[i]>>]
      BY <2>1 DEF Row
    <3> HIDE DEF n, ka, kb, ea, eb
    <3>3. \A i \in 1 .. n : <<ka[i], ea[i]>> = <<kb[i], eb[i]>>
      BY <3>2
    <3>4. \A i \in 1 .. n : ka[i] = kb[i] /\ ea[i] = eb[i]
      BY <3>3
    <3>5. ka = kb
      <4>1. ka = [i \in 1 .. n |-> ka[i]] /\ kb = [i \in 1 .. n |-> kb[i]]
        BY <3>1
      <4>2. QED  BY <3>4, <4>1
    <3>6. ea = eb
      <4>1. ea = [i \in 1 .. n |-> ea[i]] /\ eb = [i \in 1 .. n |-> eb[i]]
        BY <3>1
      <4>2. QED  BY <3>4, <4>1
    <3>7. QED  BY <3>5, <3>6 DEF ka, kb, ea, eb
  <2>2. CASE a.t # TypeDict
    <3>1. a.k = <<>> /\ b.k = <<>>
      BY <2>2, PartsIn
    <3>2. QED  BY <2>2, <3>1 DEF Row
  <2>3. QED  BY <2>1, <2>2
<1>4. QED  BY <1>1, <1>2, <1>3

(* Containers of one type and size compare by their first parts that       *)
(* differ.                                                                 *)
LEMMA CompareRows ==
  ASSUME NEW P, NEW f, NEW a \in Containers(P), NEW b \in Containers(P),
         a.t = b.t, Len(a.e) = Len(b.e)
  PROVE  CompareParts(a, b, f) = Lexical(Row(a), Row(b), How(a.t, f, P))
<1> DEFINE n == Len(a.e)
           s == Row(a)
           r == Row(b)
           h == How(a.t, f, P)
           Pair(i) == IF a.t = TypeDict /\ f[<<a.k[i], b.k[i]>>] # 0
                      THEN f[<<a.k[i], b.k[i]>>] ELSE f[<<a.e[i], b.e[i]>>]
           D == {i \in DOMAIN a.e : Pair(i) # 0}
           L == {i \in DOMAIN s : h[<<s[i], r[i]>>] # 0}
<1>1. n \in Nat /\ DOMAIN a.e = 1 .. n /\ DOMAIN s = 1 .. n
  <2>1. s \in Rows(n, Parts(a.t, P))
    BY RowIs
  <2>2. n \in Nat /\ DOMAIN a.e = 1 .. n
    BY PartsIn
  <2> HIDE DEF s, n
  <2>3. QED  BY <2>1, <2>2 DEF Rows
<1>2. ASSUME NEW i \in 1 .. n
      PROVE  h[<<s[i], r[i]>>] = Pair(i)
  <2>1. CASE a.t = TypeDict
    <3>1. a.k[i] \in P /\ a.e[i] \in P /\ b.k[i] \in P /\ b.e[i] \in P
      BY <2>1, PartsIn
    <3>2. s[i] = <<a.k[i], a.e[i]>> /\ r[i] = <<b.k[i], b.e[i]>>
      BY <2>1 DEF Row
    <3>3. h = Entries(f, P)
      BY <2>1 DEF How
    <3> DEFINE k == a.k[i]
               e == a.e[i]
               l == b.k[i]
               g == b.e[i]
    <3>4. k \in P /\ e \in P /\ l \in P /\ g \in P
      BY <3>1
    <3>5. s[i] = <<k, e>> /\ r[i] = <<l, g>>
      BY <3>2
    <3>6. Pair(i) = IF f[<<k, l>>] # 0 THEN f[<<k, l>>] ELSE f[<<e, g>>]
      BY <2>1
    <3> HIDE DEF k, e, l, g, s, r, h, Pair
    <3>7. Entries(f, P)[<< <<k, e>>, <<l, g>> >>] =
            IF f[<<k, l>>] # 0 THEN f[<<k, l>>] ELSE f[<<e, g>>]
      BY <3>4, EntriesAre
    <3>8. QED  BY <3>3, <3>5, <3>6, <3>7
  <2>2. CASE a.t # TypeDict
    BY <2>2 DEF Row, How
  <2>3. QED  BY <2>1, <2>2
<1>3. CompareParts(a, b, f) = IF D = {} THEN 0 ELSE Pair(Min(D))
  <2>1. ~(a.t < TypeArray)
    BY PartsIn DEF TypeArray, TypeDict
  <2>2. QED  BY <2>1 DEF CompareParts
<1>4. Lexical(s, r, h) = IF L = {} THEN 0 ELSE h[<<s[Min(L)], r[Min(L)]>>]
  <2> HIDE DEF s, r, h
  <2>1. QED  BY DEF Lexical
<1> HIDE DEF n, s, r, h, Pair
<1>5. D = L /\ D \subseteq Nat /\ D \subseteq 1 .. n
  BY <1>1, <1>2
<1> HIDE DEF D, L
<1>6. D # {} => h[<<s[Min(D)], r[Min(D)]>>] = Pair(Min(D))
  <2>1. D # {} => Min(D) \in 1 .. n
    BY <1>5, MinIs
  <2>2. QED  BY <1>2, <2>1
<1>7. CompareParts(a, b, f) = Lexical(s, r, h)
  BY <1>3, <1>4, <1>5, <1>6
<1>8. QED  BY <1>7 DEF s, r, h

(* Scalars without a NaN, and containers of parts that are ordered, are    *)
(* ordered: by their types, their numbers or sizes, their parts.           *)
Sound(P) == {a \in Scalars : ~IsNaN(a)} \cup Containers(P)

LEMMA SoundIs ==
  ASSUME NEW P, NEW a \in Sound(P)
  PROVE  /\ a.t \in Int
         /\ a.t < TypeArray =>
              /\ a.v \in Int /\ a = [t |-> a.t, v |-> a.v, k |-> <<>>, e |-> <<>>] /\ ~IsNaN(a)
         /\ ~(a.t < TypeArray) => a \in Containers(P) /\ Len(a.e) \in Int
<1>1. \A s \in Scalars : s.t \in TypeBlank .. TypeString
  BY DEF Scalars, Numbers
<1>2. \A c \in Containers(P) : c.t \in TypeArray .. TypeDict
  BY PartsIn
<1>3. a.t \in Int
  BY <1>1, <1>2 DEF Sound, TypeBlank, TypeString, TypeArray, TypeDict
<1>4. ASSUME a.t < TypeArray
      PROVE  a.v \in Int /\ a = [t |-> a.t, v |-> a.v, k |-> <<>>, e |-> <<>>] /\ ~IsNaN(a)
  <2>1. a \in Scalars /\ ~IsNaN(a)
    BY <1>2, <1>4 DEF Sound, TypeArray, TypeDict
  <2>2. a \in Numbers
    BY <2>1 DEF Scalars
  <2>3. a.v \in Int /\ a = [t |-> a.t, v |-> a.v, k |-> <<>>, e |-> <<>>]
    BY <2>2 DEF Numbers
  <2>4. QED  BY <2>1, <2>3
<1>5. ASSUME ~(a.t < TypeArray)
      PROVE  a \in Containers(P) /\ Len(a.e) \in Int
  <2>1. a \in Containers(P)
    BY <1>1, <1>5 DEF Sound, TypeArray, TypeBlank, TypeString
  <2>2. QED  BY <2>1, PartsIn
<1>6. QED  BY <1>3, <1>4, <1>5

LEMMA CompareTypes ==
  ASSUME NEW f, NEW a, NEW b, a.t # b.t
  PROVE  CompareParts(a, b, f) = Sign(a.t - b.t) /\ a # b
  BY DEF CompareParts

LEMMA CompareScalars ==
  ASSUME NEW P, NEW f, NEW a \in Sound(P), NEW b \in Sound(P), a.t = b.t, a.t < TypeArray
  PROVE  /\ CompareParts(a, b, f) = Sign(a.v - b.v)
         /\ a.v \in Int /\ b.v \in Int /\ (a.v = b.v <=> a = b)
<1>1. /\ a.v \in Int /\ b.v \in Int /\ ~IsNaN(a) /\ ~IsNaN(b)
      /\ a = [t |-> a.t, v |-> a.v, k |-> <<>>, e |-> <<>>]
      /\ b = [t |-> b.t, v |-> b.v, k |-> <<>>, e |-> <<>>]
  BY SoundIs
<1>2. a.v = b.v <=> a = b
  BY <1>1
<1>3. CompareParts(a, b, f) = Sign(a.v - b.v)
  BY <1>1 DEF CompareParts
<1>4. QED  BY <1>1, <1>2, <1>3

LEMMA CompareSizes ==
  ASSUME NEW f, NEW a, NEW b, a.t = b.t, ~(a.t < TypeArray), Len(a.e) # Len(b.e)
  PROVE  CompareParts(a, b, f) = Sign(Len(a.e) - Len(b.e)) /\ a # b
  BY DEF CompareParts

LEMMA CompareOrders ==
  ASSUME NEW P, NEW f, Orders(f, P), NEW a \in Sound(P), NEW b \in Sound(P), NEW c \in Sound(P)
  PROVE  /\ CompareParts(a, b, f) \in Int
         /\ CompareParts(a, b, f) = -CompareParts(b, a, f)
         /\ CompareParts(a, b, f) = 0 <=> a = b
         /\ Follows(CompareParts(a, b, f), CompareParts(b, c, f), CompareParts(a, c, f))
<1> DEFINE C(x, y) == CompareParts(x, y, f)
           Kind(x) == Parts(x.t, P)
           H(x) == How(x.t, f, P)
<1>0. ASSUME NEW x \in Sound(P)
      PROVE  Orders(H(x), Kind(x))
  BY EntriesOrders DEF How, Parts
<1>1. ASSUME NEW x \in Sound(P), NEW y \in Sound(P),
             x.t = y.t, ~(x.t < TypeArray), Len(x.e) = Len(y.e)
      PROVE  /\ C(x, y) = Lexical(Row(x), Row(y), H(x)) /\ H(x) = H(y)
             /\ C(x, y) \in Int /\ C(x, y) = -C(y, x)
             /\ C(x, y) = 0 <=> x = y
  <2>1. x \in Containers(P) /\ y \in Containers(P)
    BY <1>1, SoundIs
  <2> DEFINE n == Len(x.e)
             s == Row(x)
             r == Row(y)
             h == H(x)
             K == Kind(x)
  <2>2. n \in Nat /\ s \in Rows(n, K) /\ r \in Rows(n, K)
    BY <1>1, <2>1, RowIs, PartsIn
  <2>3. Orders(h, K)
    BY <1>0
  <2>4. C(x, y) = Lexical(s, r, h) /\ H(x) = H(y)
    BY <1>1, <2>1, CompareRows
  <2>5. C(y, x) = Lexical(r, s, h)
    BY <1>1, <2>1, CompareRows
  <2>6. s = r <=> x = y
    BY <1>1, <2>1, RowTells
  <2> HIDE DEF n, s, r, h, K
  <2>7. /\ Lexical(s, r, h) \in Int /\ Lexical(s, r, h) = -Lexical(r, s, h)
        /\ Lexical(s, r, h) = 0 <=> s = r
    BY <2>2, <2>3, LexicalOrders
  <2> HIDE DEF C, H, Kind
  <2>8. C(x, y) \in Int /\ C(x, y) = -C(y, x) /\ (C(x, y) = 0 <=> x = y)
    BY <2>4, <2>5, <2>6, <2>7
  <2>9. QED  BY <2>4, <2>8 DEF s, r, h
<1>2. ASSUME NEW x \in Sound(P), NEW y \in Sound(P)
      PROVE  /\ C(x, y) \in Int /\ C(x, y) = -C(y, x) /\ (C(x, y) = 0 <=> x = y)
             /\ C(x, y) <= 0 => x.t <= y.t
             /\ C(x, y) <= 0 /\ x.t = y.t /\ x.t < TypeArray => x.v <= y.v
             /\ C(x, y) <= 0 /\ x.t = y.t /\ ~(x.t < TypeArray) => Len(x.e) <= Len(y.e)
  <2>0. x.t \in Int /\ y.t \in Int
    BY SoundIs
  <2>1. CASE x.t # y.t
    <3>1. C(x, y) = Sign(x.t - y.t) /\ C(y, x) = Sign(y.t - x.t) /\ x # y
      BY <2>1, CompareTypes
    <3> DEFINE p == x.t
               q == y.t
    <3>2. p \in Int /\ q \in Int /\ p # q /\ C(x, y) = Sign(p - q) /\ C(y, x) = Sign(q - p)
      BY <2>0, <2>1, <3>1
    <3> HIDE DEF C, p, q
    <3>3. C(x, y) \in Int /\ C(x, y) = -C(y, x) /\ C(x, y) # 0 /\ (C(x, y) <= 0 => p <= q)
      BY <3>2, SignIs
    <3>4. C(x, y) <= 0 => x.t <= y.t
      BY <3>3 DEF p, q
    <3>5. QED  BY <2>1, <3>1, <3>3, <3>4
  <2>2. CASE x.t = y.t /\ x.t < TypeArray
    <3>1. C(x, y) = Sign(x.v - y.v) /\ x.v \in Int /\ y.v \in Int /\ (x.v = y.v <=> x = y)
      BY <2>2, CompareScalars
    <3>2. C(y, x) = Sign(y.v - x.v)
      BY <2>2, CompareScalars
    <3> DEFINE p == x.v
               q == y.v
    <3>3. p \in Int /\ q \in Int /\ C(x, y) = Sign(p - q) /\ C(y, x) = Sign(q - p)
          /\ (p = q <=> x = y)
      BY <3>1, <3>2
    <3> HIDE DEF C, p, q
    <3>4. C(x, y) \in Int /\ C(x, y) = -C(y, x) /\ (C(x, y) = 0 <=> x = y)
          /\ (C(x, y) <= 0 => p <= q)
      <4> DEFINE m == C(x, y)
                 w == C(y, x)
      <4>1. p \in Int /\ q \in Int /\ m = Sign(p - q) /\ w = Sign(q - p)
        BY <3>3
      <4> HIDE DEF m, w
      <4>2. m \in Int /\ m = -w /\ (m = 0 <=> p = q) /\ (m <= 0 => p <= q)
        BY <4>1, SignIs
      <4>3. QED  BY <3>3, <4>2 DEF m, w
    <3>5. x.t <= y.t
      BY <2>0, <2>2
    <3>6. C(x, y) <= 0 => x.v <= y.v
      BY <3>4 DEF p, q
    <3>7. QED  BY <2>2, <3>4, <3>5, <3>6
  <2>3. CASE x.t = y.t /\ ~(x.t < TypeArray)
    <3>1. Len(x.e) \in Int /\ Len(y.e) \in Int
      BY <2>3, SoundIs
    <3>2. x.t <= y.t
      BY <2>0, <2>3
    <3>3. CASE Len(x.e) = Len(y.e)
      <4>1. C(x, y) \in Int /\ C(x, y) = -C(y, x) /\ (C(x, y) = 0 <=> x = y)
        BY <1>1, <2>3, <3>3
      <4>2. Len(x.e) <= Len(y.e)
        BY <3>1, <3>3
      <4> HIDE DEF C
      <4>3. QED  BY <2>3, <3>2, <4>1, <4>2
    <3>4. CASE Len(x.e) # Len(y.e)
      <4>1. C(x, y) = Sign(Len(x.e) - Len(y.e)) /\ x # y
        BY <2>3, <3>4, CompareSizes
      <4>2. C(y, x) = Sign(Len(y.e) - Len(x.e))
        BY <2>3, <3>4, CompareSizes
      <4> DEFINE p == Len(x.e)
                 q == Len(y.e)
      <4>3. p \in Int /\ q \in Int /\ p # q /\ C(x, y) = Sign(p - q) /\ C(y, x) = Sign(q - p)
        BY <3>1, <3>4, <4>1, <4>2
      <4> HIDE DEF C, p, q
      <4>4. C(x, y) \in Int /\ C(x, y) = -C(y, x) /\ C(x, y) # 0 /\ (C(x, y) <= 0 => p <= q)
        BY <4>3, SignIs
      <4>5. C(x, y) <= 0 => Len(x.e) <= Len(y.e)
        BY <4>4 DEF p, q
      <4>6. QED  BY <2>3, <3>2, <4>1, <4>4, <4>5
    <3>5. QED  BY <3>3, <3>4
  <2>4. QED  BY <2>1, <2>2, <2>3
<1>3. ASSUME C(a, b) <= 0, C(b, c) <= 0
      PROVE  C(a, c) <= 0
  <2>1. a.t \in Int /\ b.t \in Int /\ c.t \in Int
    BY SoundIs
  <2>2. a.t <= b.t /\ b.t <= c.t
    BY <1>2, <1>3
  <2>3. CASE a.t # c.t
    <3>1. C(a, c) = Sign(a.t - c.t)
      BY <2>3, CompareTypes
    <3> DEFINE p == a.t
               q == c.t
    <3>2. p \in Int /\ q \in Int /\ p <= q /\ C(a, c) = Sign(p - q)
      BY <2>1, <2>2, <3>1
    <3> HIDE DEF C, p, q
    <3>3. QED  BY <3>2, SignIs
  <2>4. CASE a.t = c.t /\ a.t < TypeArray
    <3>1. a.t = b.t /\ b.t = c.t
      BY <2>1, <2>2, <2>4
    <3>2. a.v \in Int /\ c.v \in Int /\ C(a, c) = Sign(a.v - c.v)
      BY <2>4, CompareScalars
    <3>3. b.v \in Int
      BY <2>4, <3>1, SoundIs
    <3>4. a.v <= b.v /\ b.v <= c.v
      BY <1>2, <1>3, <2>4, <3>1
    <3> DEFINE p == a.v
               q == c.v
    <3>5. p \in Int /\ q \in Int /\ p <= q /\ C(a, c) = Sign(p - q)
      BY <3>2, <3>3, <3>4
    <3> HIDE DEF C, p, q
    <3>6. QED  BY <3>5, SignIs
  <2>5. CASE a.t = c.t /\ ~(a.t < TypeArray)
    <3>1. a.t = b.t /\ b.t = c.t
      BY <2>1, <2>2, <2>5
    <3>2. Len(a.e) \in Int /\ Len(b.e) \in Int /\ Len(c.e) \in Int
      BY <2>5, <3>1, SoundIs
    <3>3. Len(a.e) <= Len(b.e) /\ Len(b.e) <= Len(c.e)
      BY <1>2, <1>3, <2>5, <3>1
    <3>4. CASE Len(a.e) # Len(c.e)
      <4>1. C(a, c) = Sign(Len(a.e) - Len(c.e))
        BY <2>5, <3>4, CompareSizes
      <4> DEFINE p == Len(a.e)
                 q == Len(c.e)
      <4>2. p \in Int /\ q \in Int /\ p <= q /\ C(a, c) = Sign(p - q)
        BY <3>2, <3>3, <4>1
      <4> HIDE DEF C, p, q
      <4>3. QED  BY <4>2, SignIs
    <3>5. CASE Len(a.e) = Len(c.e)
      <4> DEFINE n == Len(a.e)
                 s == Row(a)
                 r == Row(b)
                 u == Row(c)
                 h == H(a)
                 K == Kind(a)
      <4>1. Len(a.e) = Len(b.e) /\ Len(b.e) = Len(c.e)
        BY <3>2, <3>3, <3>5
      <4>2. C(a, b) = Lexical(s, r, h) /\ C(b, c) = Lexical(r, u, h) /\ C(a, c) = Lexical(s, u, h)
        <5>1. C(a, b) = Lexical(s, r, h) /\ H(a) = H(b)
          BY <1>1, <2>5, <3>1, <4>1
        <5>2. C(b, c) = Lexical(r, u, H(b))
          BY <1>1, <2>5, <3>1, <4>1
        <5>3. C(a, c) = Lexical(s, u, h)
          BY <1>1, <2>5, <3>1, <4>1
        <5> HIDE DEF C, H
        <5>4. QED  BY <5>1, <5>2, <5>3
      <4>3. a \in Containers(P) /\ b \in Containers(P) /\ c \in Containers(P)
        BY <2>5, <3>1, SoundIs
      <4>4. n \in Nat /\ s \in Rows(n, K) /\ r \in Rows(n, K) /\ u \in Rows(n, K)
        BY <3>1, <4>1, <4>3, RowIs, PartsIn
      <4>5. Orders(h, K)
        BY <1>0
      <4> HIDE DEF n, s, r, u, h, K, C, H, Kind
      <4>6. Follows(Lexical(s, r, h), Lexical(r, u, h), Lexical(s, u, h))
        BY <4>4, <4>5, LexicalOrders
      <4>7. QED  BY <1>3, <4>2, <4>6 DEF Follows
    <3>6. QED  BY <3>4, <3>5
  <2>6. QED  BY <2>3, <2>4, <2>5
<1>4. QED  BY <1>2, <1>3 DEF Follows

(* One level of nesting after the other. *)
LEMMA OrderedAll ==
  ASSUME Depth \in Nat
  PROVE  Orders(comparison, Ordered[Depth])
<1> DEFINE V == Ordered
           S == {i \in 0 .. Depth : Orders(comparison, V[i])}
<1>1. /\ V[0] = {a \in Scalars : ~IsNaN(a)}
      /\ \A i \in Nat : V[i + 1] = Sound(V[i])
  BY NestedIs DEF Ordered, Sound
<1>2. \A i \in 0 .. Depth : V[i] \subseteq Every
  <2> SUFFICES ASSUME NEW i \in 0 .. Depth
               PROVE  V[i] \subseteq Every
    OBVIOUS
  <2>1. {a \in Scalars : ~IsNaN(a)} \subseteq Scalars /\ i \in Nat /\ i \in i .. i + 1
    OBVIOUS
  <2>2. V[i] \subseteq AnyValue[i]
    BY <2>1, NestedGrows DEF Ordered, AnyValue
  <2>3. AnyValue[i] \subseteq Every
    BY NestedWithin DEF AnyValue, Every
  <2>4. QED  BY <2>2, <2>3
<1> HIDE DEF V
<1>3. ASSUME NEW W, W \subseteq Every, NEW P, Orders(comparison, P), W \subseteq Sound(P)
      PROVE  Orders(comparison, W)
  <2>1. ASSUME NEW a \in W, NEW b \in W
        PROVE  comparison[<<a, b>>] = CompareParts(a, b, comparison)
    BY <1>3, CompareSolves DEF Compare
  <2>2. ASSUME NEW a \in W, NEW b \in W, NEW c \in W
        PROVE  /\ comparison[<<a, b>>] \in Int
               /\ comparison[<<a, b>>] = -comparison[<<b, a>>]
               /\ comparison[<<a, b>>] = 0 <=> a = b
               /\ Follows(comparison[<<a, b>>], comparison[<<b, c>>], comparison[<<a, c>>])
    <3> DEFINE f == comparison
    <3>1. /\ a \in Sound(P) /\ b \in Sound(P) /\ c \in Sound(P) /\ Orders(f, P)
          /\ f[<<a, b>>] = CompareParts(a, b, f) /\ f[<<b, a>>] = CompareParts(b, a, f)
          /\ f[<<b, c>>] = CompareParts(b, c, f) /\ f[<<a, c>>] = CompareParts(a, c, f)
      BY <1>3, <2>1
    <3> HIDE DEF f
    <3>2. /\ CompareParts(a, b, f) \in Int
          /\ CompareParts(a, b, f) = -CompareParts(b, a, f)
          /\ CompareParts(a, b, f) = 0 <=> a = b
          /\ Follows(CompareParts(a, b, f), CompareParts(b, c, f), CompareParts(a, c, f))
      BY <3>1, CompareOrders
    <3>3. QED  BY <3>1, <3>2 DEF f
  <2>3. QED  BY <2>2 DEF Orders
<1>4. 0 \in S
  <2> DEFINE P == {}
  <2>1. Orders(comparison, P)
    BY DEF Orders
  <2>2. V[0] \subseteq Sound(P)
    BY <1>1 DEF Sound
  <2>3. 0 \in 0 .. Depth
    OBVIOUS
  <2> HIDE DEF P
  <2>4. QED  BY <1>2, <1>3, <2>1, <2>2, <2>3
<1>5. ASSUME NEW i \in 0 .. Depth - 1, i \in S
      PROVE  i + 1 \in S
  <2> DEFINE P == V[i]
             W == V[i + 1]
  <2>1. Orders(comparison, P)
    BY <1>5
  <2>2. W \subseteq Sound(P) /\ W \subseteq Every /\ i + 1 \in 0 .. Depth
    BY <1>1, <1>2
  <2> HIDE DEF P, W
  <2>3. Orders(comparison, W)
    BY <1>3, <2>1, <2>2
  <2>4. QED  BY <2>2, <2>3 DEF W
<1>6. Depth \in S
  <2>1. 0 .. Depth \subseteq S
    <3> HIDE DEF S
    <3>1. QED  BY <1>4, <1>5, UpTo
  <2>2. Depth \in 0 .. Depth
    OBVIOUS
  <2> HIDE DEF S
  <2>3. QED  BY <2>1, <2>2
<1>7. QED  BY <1>6 DEF V

(* Sets, dictionaries and the comparisons of a schema rest on one order of *)
(* values of any types: compare is total on all values without a NaN,      *)
(* however deep they nest and however many parts they have.                *)
THEOREM ValueOrderTotal ==
  ASSUME ValueAssumption
  PROVE  TotalOn(Ordered[Depth]) /\ OrderTotal
<1>1. Orders(comparison, Ordered[Depth])
  BY OrderedAll DEF ValueAssumption
<1> DEFINE V == Ordered[Depth]
<1>2. Orders(comparison, V)
  BY <1>1
<1> HIDE DEF V
<1>3. ASSUME NEW S, S \subseteq V
      PROVE  TotalOn(S)
  BY <1>2, <1>3 DEF TotalOn, InOrder, Orders, Follows, Compare
<1>4. TotalOn(Comparable)
  BY <1>3 DEF Comparable, V
<1>5. QED  BY <1>3, <1>4 DEF OrderTotal, Misplaced, TotalOn, V
=============================================================================
