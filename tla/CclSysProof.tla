---------------------------- MODULE CclSysProof -----------------------------
(***************************************************************************)
(* Proofs about the descriptors of cclsys and about the loops over text    *)
(* and streams, which share no state.                                      *)
(*                                                                         *)
(* CclHandle, for any objects, handles, limits and events: each open       *)
(* handle has one owner, a call reaches what its object opened unless a    *)
(* call on an empty socket or after a failed close() came first, and       *)
(* poll_c gives poll(2) what it was asked for.                             *)
(*                                                                         *)
(* CclText, for any texts, delimiters, data and buffer: what each call     *)
(* returns is what it should, and the codecs undo each other.              *)
(***************************************************************************)
EXTENDS CclHandle, CclText, FiniteSetTheorems, SequenceTheorems, WellFoundedInduction, TLAPS

ObjType == [st : {"gone", "has", "empty", "failed"},
            h : Handles \cup {None}, own : 0 .. (MaxOpens + 1)]

(* A serial is at one handle and with one object, which knows that handle. *)
(* Only an object that "has" something has a serial, and with it a handle. *)
GivenOut == /\ \A h \in Handles : table[h] <= opens
            /\ \A o \in Objs : obj[o].own <= opens /\ obj[o].own # Stdin
OneHandle == \A h, g \in Handles : table[h] = table[g] /\ table[h] # 0 => h = g
OneObject == \A o, s \in Objs : obj[o].own = obj[s].own /\ obj[o].own # 0 => o = s
KnowsHandle == \A o \in Objs, h \in Handles :
                 obj[o].own # 0 /\ table[h] = obj[o].own => obj[o].h = h
HasSerial == \A o \in Objs : IF obj[o].st = "has" THEN obj[o].h = None <=> obj[o].own = 0
                             ELSE obj[o].own = 0
OwnedOrDropped == \A h \in Handles : table[h] \notin dropped \cup {0, Stdin} =>
                    \E o \in Objs : obj[o].own = table[h]

Owned == /\ table \in [Handles -> 0 .. (MaxOpens + 1)] /\ opens \in Serials
         /\ obj \in [Objs -> ObjType]
         /\ GivenOut /\ OneHandle /\ OneObject /\ KnowsHandle /\ HasSerial
         /\ OwnedOrDropped

(* The handle of a sound object means what the object opened.              *)
Sound(o) == obj[o].st = "has" /\ obj[o].h # None => table[obj[o].h] = obj[o].own

Unspoilt == foreign \cap {"empty", "failed"} = {}
Clean == Unspoilt => "has" \notin foreign /\ \A o \in Objs : Sound(o)

IInv == TypeOK /\ Owned /\ Clean

-----------------------------------------------------------------------------
(* What was opened gets a serial nobody has and a handle nobody has sound. *)
LEMMA OpenKeeps ==
  ASSUME HandleAssumption, Owned, NEW o \in Objs, ~Live(o), Open(o), dropped' = dropped
  PROVE  Owned' /\ \A q \in Objs : (\A s \in Objs : Sound(s)) => Sound(q)'
<1>1. PICK h \in Free : /\ table' = [table EXCEPT ![h] = opens + 1]
                        /\ obj' = [obj EXCEPT ![o] = [st |-> "has", h |-> h, own |-> opens + 1]]
  BY DEF Open
<1>2. /\ h \in Handles /\ table[h] = 0 /\ h # None
      /\ opens' = opens + 1 /\ opens + 1 \in Serials /\ opens \in Nat /\ opens >= 1
  BY <1>1 DEF Free, Open, Owned, Serials, HandleAssumption, Handles, None
<1>3. obj[o].own = 0
  BY DEF Live, Owned, HasSerial
<1>4. /\ table' \in [Handles -> 0 .. (MaxOpens + 1)] /\ opens' \in Serials
      /\ obj' \in [Objs -> ObjType]
  BY <1>1, <1>2 DEF Owned, ObjType, Serials
<1>5. GivenOut'
  BY <1>1, <1>2 DEF Owned, GivenOut, ObjType, Serials, Stdin
<1>6. OneHandle'
  BY <1>1, <1>2 DEF Owned, OneHandle, GivenOut, Serials
<1>7. OneObject'
  BY <1>1, <1>2 DEF Owned, OneObject, GivenOut, ObjType, Serials
<1>8. KnowsHandle'
  BY <1>1, <1>2 DEF Owned, KnowsHandle, GivenOut, ObjType, Serials
<1>9. HasSerial'
  BY <1>1, <1>2 DEF Owned, HasSerial, ObjType
<1>10. OwnedOrDropped'
  BY <1>1, <1>2, <1>3 DEF Owned, OwnedOrDropped, ObjType
<1>11. ASSUME NEW q \in Objs, \A s \in Objs : Sound(s) PROVE Sound(q)'
  BY <1>1, <1>2, <1>11 DEF Sound, Owned, HasSerial, ObjType
<1>12. QED
  BY <1>4, <1>5, <1>6, <1>7, <1>8, <1>9, <1>10, <1>11 DEF Owned

(* A call that reaches the system with the handle of its object.           *)
LEMMA TouchKeeps ==
  ASSUME Owned, Clean, NEW o \in Objs, Holds(o), Touch(o), Unspoilt'
  PROVE  /\ Unspoilt /\ "has" \notin foreign'
         /\ \A q \in Objs : Sound(q)
         /\ table[obj[o].h] = obj[o].own
<1>1. Unspoilt
  BY DEF Touch, Touched, Unspoilt
<1>2. "has" \notin foreign /\ \A q \in Objs : Sound(q)
  BY <1>1 DEF Clean
<1>3. obj[o].st \in {"has", "empty", "failed"}
  BY DEF Holds, Live, Owned, ObjType
<1>4. table[obj[o].h] = obj[o].own
  <2>1. CASE obj[o].st = "has"
    BY <2>1, <1>2 DEF Sound, Holds
  <2>2. CASE obj[o].st # "has"
    BY <2>2, <1>3 DEF Touch, Touched, Unspoilt
  <2>3. QED  BY <2>1, <2>2
<1>5. QED  BY <1>1, <1>2, <1>4 DEF Touch, Touched

(* A released handle is nobody's any more.                                 *)
LEMMA ReleaseKeeps ==
  ASSUME HandleAssumption, Owned, Clean, NEW o \in Objs, Holds(o), Release(o),
         NEW n \in ObjType, n.own = 0, n.st = "has" => n.h = None,
         obj' = [obj EXCEPT ![o] = n], opens' = opens, dropped' = dropped
  PROVE  Owned' /\ Clean'
<1>1. /\ obj[o].h \in Handles
      /\ table' = [table EXCEPT ![obj[o].h] = 0]
  BY DEF Holds, Owned, ObjType, Release
<1>2. /\ table' \in [Handles -> 0 .. (MaxOpens + 1)] /\ opens' \in Serials
      /\ obj' \in [Objs -> ObjType]
  BY <1>1 DEF Owned, HandleAssumption
<1>3. GivenOut'
  BY <1>1 DEF Owned, GivenOut, Serials, Stdin
<1>4. OneHandle' /\ OneObject' /\ KnowsHandle' /\ HasSerial'
  BY <1>1 DEF Owned, OneHandle, OneObject, KnowsHandle, HasSerial
<1>5. OwnedOrDropped'
  <2> SUFFICES ASSUME NEW h \in Handles, table'[h] \notin dropped \cup {0, Stdin}
               PROVE  \E q \in Objs : obj'[q].own = table'[h]
    BY DEF OwnedOrDropped
  <2>1. h # obj[o].h /\ table'[h] = table[h] /\ table[h] # 0
    BY <1>1 DEF Owned
  <2>2. PICK q \in Objs : obj[q].own = table[h]
    BY <2>1 DEF Owned, OwnedOrDropped
  <2>3. q # o
    BY <2>1, <2>2 DEF Owned, KnowsHandle
  <2>4. QED  BY <2>1, <2>2, <2>3 DEF Owned
<1>6. Clean'
  <2> SUFFICES ASSUME Unspoilt' PROVE "has" \notin foreign' /\ \A q \in Objs : Sound(q)'
    BY DEF Clean
  <2>1. /\ "has" \notin foreign' /\ \A q \in Objs : Sound(q)
        /\ table[obj[o].h] = obj[o].own
    BY TouchKeeps DEF Release
  <2>2. ASSUME NEW q \in Objs, q # o, obj[q].st = "has", obj[q].h # None
        PROVE  table'[obj[q].h] = obj[q].own
    <3>1. table[obj[q].h] = obj[q].own /\ obj[q].own # 0 /\ obj[q].h \in Handles
      BY <2>1, <2>2 DEF Sound, Owned, HasSerial, ObjType
    <3>2. obj[q].h # obj[o].h
      BY <2>1, <2>2, <3>1 DEF Owned, OneObject
    <3>3. QED  BY <1>1, <3>1, <3>2 DEF Owned
  <2>3. ASSUME NEW q \in Objs PROVE Sound(q)'
    BY <2>2 DEF Sound, Owned
  <2>4. QED  BY <2>1, <2>3
<1>7. QED
  BY <1>2, <1>3, <1>4, <1>5, <1>6 DEF Owned

(* A move: the serial changes hands, and what the left side had is dropped.*)
LEMMA MoveKeeps ==
  ASSUME HandleAssumption, Owned, Clean, NEW o \in Objs, NEW s \in Objs,
         obj' = [[obj EXCEPT ![o] = obj[s]] EXCEPT ![s] = Void],
         dropped' = dropped \cup ({obj[o].own} \ {0}),
         UNCHANGED <<table, opens, foreign>>
  PROVE  Owned' /\ Clean'
<1>1. \A q \in Objs : obj'[q] = IF q = s THEN Void ELSE IF q = o THEN obj[s] ELSE obj[q]
  BY DEF Owned
<1>2. obj' \in [Objs -> ObjType] /\ Void.st = "has" /\ Void.h = None /\ Void.own = 0
  <2>1. Void \in ObjType
    BY DEF Void, ObjType, HandleAssumption
  <2>2. QED  BY <2>1 DEF Owned, Void
<1>3. GivenOut'
  BY <1>1, <1>2 DEF Owned, GivenOut, Serials, Stdin
<1>4. OneHandle' /\ OneObject' /\ KnowsHandle' /\ HasSerial'
  BY <1>1, <1>2 DEF Owned, OneHandle, OneObject, KnowsHandle, HasSerial
<1>5. OwnedOrDropped'
  <2> SUFFICES ASSUME NEW h \in Handles, table[h] \notin dropped' \cup {0, Stdin}
               PROVE  \E q \in Objs : obj'[q].own = table[h]
    BY DEF OwnedOrDropped
  <2>1. PICK q \in Objs : obj[q].own = table[h]
    BY DEF Owned, OwnedOrDropped
  <2>2. q # o
    BY <2>1
  <2>3. CASE q = s
    BY <1>1, <2>1, <2>2, <2>3
  <2>4. CASE q # s
    BY <1>1, <2>1, <2>2, <2>4
  <2>5. QED  BY <2>3, <2>4
<1>6. Clean'
  BY <1>1, <1>2 DEF Clean, Unspoilt, Sound
<1>7. QED
  BY <1>2, <1>3, <1>4, <1>5, <1>6 DEF Owned

(* The socket that stands for no connection has no serial.                 *)
LEMMA EmptyKeeps ==
  ASSUME HandleAssumption, Owned, NEW o \in Objs, ~Live(o),
         obj' = [obj EXCEPT ![o] = EmptySocket], UNCHANGED <<table, opens, dropped>>
  PROVE  Owned' /\ \A q \in Objs : (\A s \in Objs : Sound(s)) => Sound(q)'
<1>1. EmptySocket \in ObjType /\ EmptySocket.st = "empty" /\ EmptySocket.own = 0
  BY DEF EmptySocket, ObjType, Handles, HandleAssumption
<1>2. obj[o].own = 0
  BY DEF Live, Owned, HasSerial
<1>3. obj' \in [Objs -> ObjType]
  BY <1>1 DEF Owned
<1>4. GivenOut' /\ OneHandle' /\ OneObject' /\ KnowsHandle' /\ HasSerial'
  BY <1>1 DEF Owned, GivenOut, OneHandle, OneObject, KnowsHandle, HasSerial, Serials, Stdin
<1>5. OwnedOrDropped'
  BY <1>1, <1>2 DEF Owned, OwnedOrDropped
<1>6. ASSUME NEW q \in Objs, \A s \in Objs : Sound(s) PROVE Sound(q)'
  BY <1>1, <1>6 DEF Sound, Owned
<1>7. QED
  BY <1>3, <1>4, <1>5, <1>6 DEF Owned
-----------------------------------------------------------------------------
LEMMA InitHolds ==
  ASSUME HandleAssumption, Init
  PROVE  IInv
<1>1. TypeOK
  BY DEF HandleAssumption, Init, TypeOK, Handles, Serials, Stdin, Gone, None
<1>2. Owned
  BY DEF HandleAssumption, Init, Owned, Handles, Serials, Stdin, Gone, None, ObjType,
         GivenOut, OneHandle, OneObject, KnowsHandle, HasSerial, OwnedOrDropped
<1>3. Clean
  BY DEF Init, Clean, Sound, Gone
<1>4. QED  BY <1>1, <1>2, <1>3 DEF IInv

(* What the type invariant adds to Owned.                                  *)
LEMMA TypeFromOwned ==
  ASSUME Owned', nonblock' \subseteq Serials, dropped' \subseteq Serials
  PROVE  TypeOK'
BY DEF Owned, TypeOK, ObjType

(* A call on o, which may open something for q or give it an empty socket. *)
LEMMA CallKeeps ==
  ASSUME HandleAssumption, Owned, Clean, NEW o \in Objs, NEW q \in Objs,
         Holds(o), ~Live(q), Touch(o), dropped' = dropped,
         \/ Open(q)
         \/ obj' = [obj EXCEPT ![q] = EmptySocket] /\ UNCHANGED <<table, opens>>
         \/ UNCHANGED <<table, opens, obj>>
  PROVE  Owned' /\ Clean'
<1>1. Owned' /\ \A s \in Objs : (\A r \in Objs : Sound(r)) => Sound(s)'
  <2>1. CASE Open(q)
    BY <2>1, OpenKeeps
  <2>2. CASE obj' = [obj EXCEPT ![q] = EmptySocket] /\ UNCHANGED <<table, opens>>
    BY <2>2, EmptyKeeps
  <2>3. CASE UNCHANGED <<table, opens, obj>>
    BY <2>3 DEF Owned, GivenOut, OneHandle, OneObject, KnowsHandle, HasSerial,
                OwnedOrDropped, Sound
  <2>4. QED  BY <2>1, <2>2, <2>3
<1>2. Clean'
  <2> SUFFICES ASSUME Unspoilt' PROVE "has" \notin foreign' /\ \A s \in Objs : Sound(s)'
    BY DEF Clean
  <2>1. QED  BY <1>1, TouchKeeps
<1>3. QED  BY <1>1, <1>2

(* Descriptor 0 is closed for a socket that stands for none. *)
LEMMA ZeroClosed ==
  ASSUME HandleAssumption, Owned, Clean, NEW o \in Objs, Holds(o), dropped' = dropped,
         table' = [table EXCEPT ![0] = 0], UNCHANGED <<opens, obj>>,
         foreign' = Touched(o) \cup (IF table[0] = 0 THEN {} ELSE {"empty"})
  PROVE  Owned' /\ Clean'
<1>1. 0 \in Handles /\ table' \in [Handles -> 0 .. (MaxOpens + 1)]
      /\ table'[0] = 0 /\ \A h \in Handles \ {0} : table'[h] = table[h]
  BY DEF HandleAssumption, Handles, Owned
<1>2. Owned'
  BY <1>1 DEF Owned, GivenOut, OneHandle, OneObject, KnowsHandle, HasSerial,
              OwnedOrDropped, Serials
<1>3. Clean'
  <2>1. CASE table[0] = 0
    <3>1. table' = table
      BY <1>1, <2>1 DEF Owned
    <3>2. Touch(o)
      BY <2>1 DEF Touch
    <3>3. QED  BY <3>1, <3>2, TouchKeeps DEF Clean, Sound
  <2>2. CASE table[0] # 0
    BY <2>2 DEF Clean, Unspoilt
  <2>3. QED  BY <2>1, <2>2
<1>4. QED  BY <1>2, <1>3

LEMMA StepHolds ==
  ASSUME HandleAssumption, IInv, [Next]_vars
  PROVE  IInv'
<1> USE DEF IInv
<1>1. ASSUME NEW o \in Objs, Construct(o) PROVE IInv'
  <2>1. /\ ~Live(o) /\ Open(o)
        /\ UNCHANGED <<nonblock, poll, asked, dropped, foreign>>
    BY <1>1 DEF Construct
  <2>2. Owned' /\ \A s \in Objs : (\A r \in Objs : Sound(r)) => Sound(s)'
    BY <2>1, OpenKeeps
  <2>3. Clean'
    BY <2>1, <2>2 DEF Clean, Unspoilt
  <2>4. QED  BY <2>1, <2>2, <2>3, TypeFromOwned DEF TypeOK
<1>2. ASSUME NEW o \in Objs, Close(o) PROVE IInv'
  <2>1. /\ Holds(o) /\ Release(o)
        /\ UNCHANGED <<opens, nonblock, poll, asked, dropped>>
    BY <1>2 DEF Close
  <2>2. Owned' /\ Clean'
    <3>1. CASE obj' = [obj EXCEPT ![o] = Void]
      <4>1. Void \in ObjType /\ Void.own = 0 /\ Void.h = None
        BY DEF Void, ObjType, HandleAssumption
      <4>2. QED  BY <2>1, <3>1, <4>1, ReleaseKeeps
    <3>2. CASE obj' = [obj EXCEPT ![o] = [st |-> "failed", h |-> @.h, own |-> 0]]
      <4> DEFINE n == [st |-> "failed", h |-> obj[o].h, own |-> 0]
      <4>1. n \in ObjType /\ n.own = 0 /\ n.st # "has"
        BY DEF Owned, ObjType, HandleAssumption
      <4>2. obj' = [obj EXCEPT ![o] = n]
        BY <3>2
      <4> HIDE DEF n
      <4>3. QED  BY <2>1, <4>1, <4>2, ReleaseKeeps
    <3>3. QED  BY <1>2, <3>1, <3>2 DEF Close
  <2>3. QED  BY <2>1, <2>2, TypeFromOwned DEF TypeOK
<1>3. ASSUME NEW o \in Objs, Destroy(o) PROVE IInv'
  <2>1. /\ Live(o) /\ obj' = [obj EXCEPT ![o] = Gone]
        /\ UNCHANGED <<opens, nonblock, poll, asked, dropped>>
    BY <1>3 DEF Destroy
  <2>2. Gone \in ObjType /\ Gone.own = 0 /\ Gone.st = "gone" /\ Gone.h = None
    BY DEF Gone, ObjType, HandleAssumption
  <2>3. Owned' /\ Clean'
    <3>1. CASE Holds(o)
      <4>1. Release(o)
        BY <1>3, <3>1 DEF Destroy
      <4>2. QED  BY <2>1, <2>2, <3>1, <4>1, ReleaseKeeps
    <3>2. CASE ~Holds(o)
      <4>1. UNCHANGED <<table, foreign>> /\ obj[o].h = None /\ obj[o].own = 0
        BY <1>3, <2>1, <3>2 DEF Destroy, Holds, Owned, HasSerial
      <4>2. GivenOut' /\ OneHandle' /\ OneObject' /\ KnowsHandle' /\ HasSerial'
        BY <2>1, <2>2, <4>1 DEF Owned, GivenOut, OneHandle, OneObject, KnowsHandle,
                                HasSerial, Serials, Stdin
      <4>3. OwnedOrDropped'
        BY <2>1, <2>2, <4>1 DEF Owned, OwnedOrDropped
      <4>4. Clean'
        BY <2>1, <2>2, <4>1 DEF Owned, Clean, Unspoilt, Sound
      <4>5. QED  BY <2>1, <2>2, <4>1, <4>2, <4>3, <4>4 DEF Owned
    <3>3. QED  BY <3>1, <3>2
  <2>4. QED  BY <2>1, <2>3, TypeFromOwned DEF TypeOK
<1>4. ASSUME NEW o \in Objs, Use(o) PROVE IInv'
  <2>1. /\ Holds(o) /\ Touch(o)
        /\ UNCHANGED <<table, opens, nonblock, obj, poll, asked, dropped>>
    BY <1>4 DEF Use
  <2>2. Owned'
    BY <2>1 DEF Owned, GivenOut, OneHandle, OneObject, KnowsHandle, HasSerial,
                OwnedOrDropped
  <2>3. Clean'
    BY <2>1, TouchKeeps DEF Clean, Sound
  <2>4. QED  BY <2>1, <2>2, <2>3, TypeFromOwned DEF TypeOK
<1>5. ASSUME NEW o \in Objs, NEW s \in Objs, Accept(s, o) PROVE IInv'
  <2>1. /\ Holds(s) /\ ~Live(o) /\ Touch(s)
        /\ UNCHANGED <<nonblock, poll, asked, dropped>>
        /\ \/ Open(o)
           \/ obj' = [obj EXCEPT ![o] = EmptySocket] /\ UNCHANGED <<table, opens>>
    BY <1>5 DEF Accept
  <2>2. Owned' /\ Clean'
    BY <2>1, CallKeeps
  <2>3. QED  BY <2>1, <2>2, TypeFromOwned DEF TypeOK
<1>6. ASSUME NEW o \in Objs, NEW s \in Objs, AcceptNonblock(s, o) PROVE IInv'
  <2> DEFINE Zero == /\ table' = [table EXCEPT ![0] = 0] /\ UNCHANGED <<opens, obj>>
                     /\ foreign' = Touched(s) \cup (IF table[0] = 0 THEN {} ELSE {"empty"})
  <2>1. /\ Holds(s) /\ ~Live(o) /\ table[obj[s].h] # 0
        /\ UNCHANGED <<poll, asked, dropped>>
        /\ \/ /\ Touch(s)
              /\ \/ Open(o)
                 \/ obj' = [obj EXCEPT ![o] = EmptySocket] /\ UNCHANGED <<table, opens>>
                 \/ UNCHANGED <<table, opens, obj>>
           \/ Zero
        /\ nonblock' \subseteq nonblock \cup {table[obj[s].h]}
    BY <1>6 DEF AcceptNonblock
  <2>2. Owned' /\ Clean'
    <3>1. CASE Zero
      BY <2>1, <3>1, ZeroClosed
    <3>2. CASE ~Zero
      <4> HIDE DEF Zero
      <4>1. QED  BY <2>1, <3>2, CallKeeps
    <3>3. QED  BY <3>1, <3>2
  <2>3. obj[s].h \in Handles /\ table[obj[s].h] \in Serials
    BY <2>1 DEF Holds, Owned, ObjType, Serials, HandleAssumption
  <2>4. QED  BY <2>1, <2>2, <2>3, TypeFromOwned DEF TypeOK
<1>7. ASSUME NEW o \in Objs, NEW s \in Objs, MoveConstruct(o, s) \/ MoveAssign(o, s)
      PROVE  IInv'
  <2>1. /\ obj' = [[obj EXCEPT ![o] = obj[s]] EXCEPT ![s] = Void]
        /\ UNCHANGED <<table, opens, nonblock, poll, asked, foreign>>
    BY <1>7 DEF MoveConstruct, MoveAssign
  <2>2. dropped' = dropped \cup ({obj[o].own} \ {0})
    BY <1>7 DEF MoveConstruct, MoveAssign, Live, Owned, HasSerial
  <2>3. Owned' /\ Clean'
    BY <2>1, <2>2, MoveKeeps
  <2>4. dropped' \subseteq Serials
    <3>1. obj[o].own \in 0 .. (MaxOpens + 1)
      BY DEF Owned, ObjType
    <3>2. obj[o].own # 0 => obj[o].own \in Serials
      BY <3>1 DEF Serials, HandleAssumption
    <3>3. QED  BY <2>2, <3>2 DEF TypeOK
  <2>5. QED  BY <2>1, <2>3, <2>4, TypeFromOwned DEF TypeOK
<1>8. CASE UNCHANGED <<table, opens, nonblock, obj, dropped, foreign>>
  BY <1>8 DEF TypeOK, Owned, GivenOut, OneHandle, OneObject, KnowsHandle, HasSerial,
              OwnedOrDropped, Clean, Unspoilt, Sound
<1>9. ASSUME NEW o \in Objs,
             PollRemove(o) \/ \E e \in Events : Insert(o, e) \/ Update(o, e)
      PROVE  IInv'
  BY <1>8, <1>9 DEF PollRemove, Insert, Update
<1>10. CASE ProcessChanges
  BY <1>8, <1>10 DEF ProcessChanges
<1>11. CASE UNCHANGED vars
  BY <1>8, <1>11 DEF vars
<1>12. QED
  BY <1>1, <1>2, <1>3, <1>4, <1>5, <1>6, <1>7, <1>9, <1>10, <1>11 DEF Next

LEMMA Inductive ==
  ASSUME HandleAssumption
  PROVE  Spec => []IInv
<1>1. Init => IInv
  BY InitHolds
<1>2. IInv /\ [Next]_vars => IInv'
  BY StepHolds
<1>3. QED  BY <1>1, <1>2, PTL DEF Spec

(* cclsys.cc:491-540,606-661,722-1055: a call reaches what its object      *)
(* opened, as long as no call on an empty socket and none after a failed   *)
(* close() reached something.                                              *)
THEOREM HandleReachesOwn ==
  ASSUME HandleAssumption
  PROVE  Spec => []ReachesOwn
<1>1. IInv => ReachesOwn
  BY DEF IInv, Clean, Unspoilt, ReachesOwn
<1>2. QED  BY <1>1, Inductive, PTL

(* cclsys.h:175-186,201-212,263-274: what is open has one object that will *)
(* close it, unless that object was assigned over.                         *)
THEOREM HandleOneOwner ==
  ASSUME HandleAssumption
  PROVE  Spec => []OneOwner
<1>1. IInv => OneOwner
  <2> SUFFICES ASSUME IInv, NEW h \in Handles, table[h] \notin dropped \cup {0, Stdin}
               PROVE  Cardinality({o \in Objs : obj[o].st = "has" /\ obj[o].own = table[h]}) = 1
    BY DEF OneOwner
  <2>1. PICK o \in Objs : obj[o].own = table[h]
    BY DEF IInv, Owned, OwnedOrDropped
  <2>2. {q \in Objs : obj[q].st = "has" /\ obj[q].own = table[h]} = {o}
    BY <2>1 DEF IInv, Owned, OneObject, HasSerial
  <2>3. QED  BY <2>2, FS_Singleton
<1>2. QED  BY <1>1, Inductive, PTL

-----------------------------------------------------------------------------
(* The set has what was asked, and the array has what the set has unless   *)
(* it is marked.                                                           *)
PollInv ==
  /\ poll = [set |-> poll.set, array |-> poll.array, changed |-> poll.changed]
  /\ poll.changed \in BOOLEAN
  /\ DOMAIN poll.set = DOMAIN asked
  /\ \A h \in DOMAIN asked : asked[h].again \/ poll.set[h] = asked[h].ev
  /\ ~poll.changed => poll.array = poll.set

LEMMA PollStep ==
  ASSUME PollInv, [Next]_vars
  PROVE  PollInv'
<1>1. ASSUME NEW o \in Objs, NEW e \in Events, Insert(o, e) PROVE PollInv'
  BY <1>1 DEF PollInv, Insert, Asks, With
<1>2. ASSUME NEW o \in Objs, NEW e \in Events, Update(o, e) PROVE PollInv'
  BY <1>2 DEF PollInv, Update, Asks, With
<1>3. ASSUME NEW o \in Objs, PollRemove(o) PROVE PollInv'
  BY <1>3 DEF PollInv, PollRemove, Restrict
<1>4. CASE ProcessChanges
  BY <1>4 DEF PollInv, ProcessChanges
<1>5. CASE UNCHANGED <<poll, asked>>
  BY <1>5 DEF PollInv
<1>6. QED
  BY <1>1, <1>2, <1>3, <1>4, <1>5
     DEF Next, vars, Construct, Close, Destroy, Use, Accept, AcceptNonblock,
         MoveConstruct, MoveAssign

(* cclsys.cc:195-246: poll(2) is given what the program asked for last,    *)
(* but for descriptors inserted while poll_c had their number.             *)
THEOREM HandlePollAsAsked ==
  Spec => []PollAsAsked
<1>1. Init => PollInv
  BY DEF Init, PollInv, Nothing
<1>2. PollInv /\ [Next]_vars => PollInv'
  BY PollStep
<1>3. PollInv => PollAsAsked
  BY DEF PollInv, PollAsAsked
<1>4. QED  BY <1>1, <1>2, <1>3, PTL DEF Spec

-----------------------------------------------------------------------------
(* The codecs.                                                             *)
LEMMA DigitOfNibble ==
  ASSUME NEW n \in 0 .. 15
  PROVE  /\ Digit(n) \in Int /\ IsDigit(Digit(n)) /\ Nibble(Digit(n)) = n
<1>1. CASE n < 10
  <2>1. Digit(n) = 48 + n /\ Digit(n) \in 48 .. 57
    BY <1>1, SMT DEF Digit
  <2>2. QED  BY <2>1, SMT DEF IsDigit, Nibble
<1>2. CASE n >= 10
  <2>1. Digit(n) = 87 + n /\ Digit(n) \in 97 .. 102 /\ Digit(n) \notin 48 .. 57
    BY <1>2, SMT DEF Digit
  <2>2. QED  BY <2>1, SMT DEF IsDigit, Nibble
<1>3. QED  BY <1>1, <1>2, SMT

(* and the nibble its digit, in lower case. *)
LEMMA NibbleOfDigit ==
  ASSUME NEW c \in 0 .. 255, IsDigit(c)
  PROVE  Nibble(c) \in 0 .. 15 /\ Digit(Nibble(c)) = Lower(c)
<1>1. CASE c \in 48 .. 57
  <2>1. Nibble(c) = c - 48 /\ Lower(c) = c
    BY <1>1, SMT DEF Nibble, Lower
  <2>2. QED  BY <1>1, <2>1, SMT DEF Digit
<1>2. CASE c \in 97 .. 102
  <2>1. Nibble(c) = 10 + (c - 97) /\ Lower(c) = c
    BY <1>2, SMT DEF Nibble, Lower
  <2>2. QED  BY <1>2, <2>1, SMT DEF Digit
<1>3. CASE c \in 65 .. 70
  <2>1. Nibble(c) = 10 + (c - 65) /\ Lower(c) = c + 32
    BY <1>3, SMT DEF Nibble, Lower
  <2>2. QED  BY <1>3, <2>1, SMT DEF Digit
<1>4. QED  BY <1>1, <1>2, <1>3 DEF IsDigit

(* A function given by what it is at each of 1 .. m is a sequence. *)
LEMMA Given ==
  ASSUME NEW m \in Nat, NEW x, x = [i \in 1 .. m |-> x[i]]
  PROVE  Len(x) = m /\ DOMAIN x = 1 .. m /\ x \in Seq({x[i] : i \in 1 .. m})
<1>1. x \in [1 .. m -> {x[i] : i \in 1 .. m}] /\ DOMAIN x = 1 .. m
  OBVIOUS
<1>2. x \in Seq({x[i] : i \in 1 .. m})
  BY <1>1, SeqDef
<1>3. QED  BY <1>1, <1>2, LenProperties, SMT

(* A sequence of one. *)
LEMMA Single ==
  ASSUME NEW x
  PROVE  Len(<<x>>) = 1 /\ <<x>>[1] = x /\ <<x>> \in Seq({x}) /\ SubSeq(<<x>>, 1, 1) = <<x>>
<1>1. Len(<<x>>) = 1 /\ <<x>>[1] = x /\ <<x>> \in Seq({x})
  OBVIOUS
<1>2. QED  BY <1>1, SubSeqFull

(* A byte of two nibbles. *)
LEMMA TwoDigits ==
  ASSUME NEW p \in 0 .. 15, NEW q \in 0 .. 15
  PROVE  (p * 16 + q) \div 16 = p /\ (p * 16 + q) % 16 = q
  BY SMT

(* base16: what was encoded is decoded (cclcrypto.cc:82-163), *)
LEMMA Base16There ==
  ASSUME NEW d \in Seq(0 .. 255)
  PROVE  Base16Decode(Base16Encode(d)) = d
<1> DEFINE x == Base16Encode(d)
           n == Len(d)
           Q(i) == d[i] \div 16
           R(i) == d[i] % 16
<1>1. n \in Nat /\ \A i \in 1 .. n : d[i] \in 0 .. 255
  BY LenProperties, ElementOfSeq
<1>2. Len(x) = 2 * n /\ DOMAIN x = 1 .. 2 * n
  <2>1. DOMAIN x = 1 .. 2 * n /\ 2 * n \in Nat
    BY <1>1 DEF Base16Encode
  <2>2. x \in Seq({x[i] : i \in 1 .. 2 * n})
    BY <1>1, <2>1, SMT DEF Base16Encode
  <2>3. QED  BY <2>1, <2>2, LenProperties, SMT
<1>3. \A i \in 1 .. n : Q(i) \in 0 .. 15 /\ R(i) \in 0 .. 15 /\ Q(i) * 16 + R(i) = d[i]
  <2> SUFFICES ASSUME NEW i \in 1 .. n
               PROVE  Q(i) \in 0 .. 15 /\ R(i) \in 0 .. 15 /\ Q(i) * 16 + R(i) = d[i]
    OBVIOUS
  <2> DEFINE k == d[i]
  <2>1. k \in 0 .. 255
    BY <1>1
  <2> HIDE DEF k
  <2>2. k \div 16 \in 0 .. 15 /\ k % 16 \in 0 .. 15 /\ (k \div 16) * 16 + (k % 16) = k
    BY <2>1, SMT
  <2>3. QED  BY <2>2 DEF k
<1>4. \A i \in 1 .. n : x[2 * i - 1] = Digit(Q(i)) /\ x[2 * i] = Digit(R(i))
  <2> SUFFICES ASSUME NEW i \in 1 .. n
               PROVE  x[2 * i - 1] = Digit(Q(i)) /\ x[2 * i] = Digit(R(i))
    OBVIOUS
  <2>1. /\ 2 * i - 1 \in 1 .. 2 * n /\ ((2 * i - 1) + 1) \div 2 = i /\ (2 * i - 1) % 2 = 1
        /\ 2 * i \in 1 .. 2 * n /\ (2 * i + 1) \div 2 = i /\ (2 * i) % 2 = 0
    BY <1>1, SMT
  <2>2. QED  BY <1>1, <2>1 DEF Base16Encode
<1> HIDE DEF Q, R
<1>5. \A i \in 1 .. n : /\ IsDigit(x[2 * i - 1]) /\ IsDigit(x[2 * i])
                        /\ Nibble(x[2 * i - 1]) * 16 + Nibble(x[2 * i]) = d[i]
  <2> SUFFICES ASSUME NEW i \in 1 .. n
               PROVE  /\ IsDigit(x[2 * i - 1]) /\ IsDigit(x[2 * i])
                      /\ Nibble(x[2 * i - 1]) * 16 + Nibble(x[2 * i]) = d[i]
    OBVIOUS
  <2> HIDE DEF x, n
  <2>1. /\ IsDigit(Digit(Q(i))) /\ Nibble(Digit(Q(i))) = Q(i)
        /\ IsDigit(Digit(R(i))) /\ Nibble(Digit(R(i))) = R(i)
    BY <1>3, DigitOfNibble
  <2>2. QED  BY <1>3, <1>4, <2>1
<1>6. \A j \in DOMAIN x : IsDigit(x[j])
  <2> SUFFICES ASSUME NEW j \in 1 .. 2 * n
               PROVE  IsDigit(x[j])
    BY <1>2
  <2>1. /\ (j + 1) \div 2 \in 1 .. n
        /\ (j = 2 * ((j + 1) \div 2) - 1 \/ j = 2 * ((j + 1) \div 2))
    BY <1>1, SMT
  <2>2. QED  BY <2>1, <1>5
<1> HIDE DEF x, n
<1>7. Base16Decode(x) = [i \in 1 .. n |-> d[i]]
  <2>1. Len(x) % 2 = 0 /\ Len(x) \div 2 = n
    BY <1>1, <1>2, SMT
  <2>2. Base16Decode(x) = [i \in 1 .. n |-> Nibble(x[2 * i - 1]) * 16 + Nibble(x[2 * i])]
    BY <1>6, <2>1 DEF Base16Decode
  <2>3. QED  BY <1>5, <2>2
<1>8. d = [i \in 1 .. n |-> d[i]]
  BY LenProperties DEF n
<1>9. QED  BY <1>7, <1>8 DEF x

(* and only an encoding is decoded, but for the case of its letters. *)
LEMMA Base16Back ==
  ASSUME NEW d \in Seq(0 .. 255), Base16Decode(d) # Error
  PROVE  Base16Encode(Base16Decode(d)) = [i \in DOMAIN d |-> Lower(d[i])]
<1> DEFINE x == Base16Decode(d)
           m == Len(d) \div 2
           N(i) == Nibble(d[i])
<1>1. Len(d) \in Nat /\ \A i \in DOMAIN d : d[i] \in 0 .. 255
  BY LenProperties, ElementOfSeq
<1>2. /\ Len(d) % 2 = 0 /\ \A i \in DOMAIN d : IsDigit(d[i])
      /\ x = [i \in 1 .. m |-> N(2 * i - 1) * 16 + N(2 * i)]
  BY DEF Base16Decode
<1>3. m \in Nat /\ Len(d) = 2 * m /\ DOMAIN d = 1 .. 2 * m
  BY <1>1, <1>2, LenProperties, SMT
<1>4. \A i \in 1 .. 2 * m : N(i) \in 0 .. 15 /\ Digit(N(i)) = Lower(d[i])
  BY <1>1, <1>2, <1>3, NibbleOfDigit
<1>5. Len(x) = m
  <2>1. x = [i \in 1 .. m |-> x[i]]
    BY <1>2
  <2> HIDE DEF x, m
  <2>2. QED  BY <1>3, <2>1, Given
<1> HIDE DEF m, N, x
<1>6. \A i \in 1 .. 2 * m :
        LET ch == x[(i + 1) \div 2]
        IN  N(i) = IF i % 2 = 1 THEN ch \div 16 ELSE ch % 16
  <2> SUFFICES ASSUME NEW i \in 1 .. 2 * m
               PROVE  N(i) = IF i % 2 = 1 THEN x[(i + 1) \div 2] \div 16 ELSE x[(i + 1) \div 2] % 16
    OBVIOUS
  <2> DEFINE h == (i + 1) \div 2
             p == N(2 * h - 1)
             q == N(2 * h)
  <2>1. h \in 1 .. m /\ 2 * h \in 1 .. 2 * m /\ 2 * h - 1 \in 1 .. 2 * m
        /\ (i % 2 = 1 => i = 2 * h - 1) /\ (i % 2 # 1 => i = 2 * h)
    BY <1>3, SMT
  <2>2. x[h] = p * 16 + q /\ p \in 0 .. 15 /\ q \in 0 .. 15
    BY <1>2, <1>4, <2>1
  <2>3. (i % 2 = 1 => N(i) = p) /\ (i % 2 # 1 => N(i) = q)
    BY <2>1
  <2> HIDE DEF h, p, q
  <2>4. (p * 16 + q) \div 16 = p /\ (p * 16 + q) % 16 = q
    BY <2>2, TwoDigits
  <2>5. N(i) = IF i % 2 = 1 THEN x[h] \div 16 ELSE x[h] % 16
    BY <2>2, <2>3, <2>4
  <2>6. QED  BY <2>5 DEF h
<1>7. Base16Encode(x) = [i \in 1 .. 2 * m |-> Digit(N(i))]
  BY <1>5, <1>6 DEF Base16Encode
<1>8. Base16Encode(x) = [i \in DOMAIN d |-> Lower(d[i])]
  BY <1>3, <1>4, <1>7
<1>9. QED  BY <1>8 DEF x

(* The least of a set of numbers. *)
LEMMA Least ==
  ASSUME NEW T, T \subseteq Nat, T # {}
  PROVE  \E x \in T : \A y \in T : x <= y
<1> DEFINE Less == {p \in Nat \X Nat : p[1] < p[2]}
<1>1. IsWellFoundedOn(Less, Nat)
  BY NatLessThanWellFounded DEF OpToRel
<1>2. PICK x \in T : \A y \in T : ~(<<y, x>> \in Less)
  BY <1>1, WFMin
<1>3. \A y \in T : ~(y < x)
  BY <1>2
<1>4. QED  BY <1>3

(* Induction up to n: a set with 0 that is closed under + 1. *)
LEMMA UpTo ==
  ASSUME NEW n \in Nat, NEW S, 0 \in S, \A i \in 0 .. n - 1 : i \in S => i + 1 \in S
  PROVE  0 .. n \subseteq S
<1> DEFINE T == (0 .. n) \ S
<1>1. SUFFICES ASSUME T # {}
               PROVE  FALSE
  OBVIOUS
<1>2. PICK x \in T : \A y \in T : x <= y
  <2>1. T \subseteq Nat
    OBVIOUS
  <2> HIDE DEF T
  <2>2. QED  BY <1>1, <2>1, Least
<1>3. x # 0 /\ x - 1 \in 0 .. n - 1 /\ x - 1 \notin T
  BY <1>2
<1>4. x - 1 \in S
  BY <1>3
<1>5. QED  BY <1>2, <1>3, <1>4

(* g begins with base and goes on by F. *)
Iterates(g, n, T, base, F) ==
  /\ DOMAIN g = 0 .. n /\ \A i \in 0 .. n : g[i] \in T
  /\ g[0] = base /\ \A i \in 1 .. n : g[i] = F[i][g[i - 1]]

(* A recursion over 0 .. n has a solution. *)
LEMMA Iteration ==
  ASSUME NEW n \in Nat, NEW T, NEW base \in T, NEW F, \A i \in 1 .. n, x \in T : F[i][x] \in T
  PROVE  \E g : Iterates(g, n, T, base, F)
<1> DEFINE Good(k, g) == /\ g \in [0 .. k -> T] /\ g[0] = base
                         /\ \A i \in 1 .. k : g[i] = F[i][g[i - 1]]
           S == {k \in 0 .. n : \E g : Good(k, g)}
<1>1. 0 \in S
  <2>1. Good(0, [i \in 0 .. 0 |-> base]) /\ 0 \in 0 .. n
    OBVIOUS
  <2> HIDE DEF Good
  <2>2. QED  BY <2>1
<1>2. ASSUME NEW k \in 0 .. n - 1, k \in S
      PROVE  k + 1 \in S
  <2>1. PICK g : Good(k, g)
    BY <1>2
  <2> DEFINE h == [i \in 0 .. k + 1 |-> IF i = k + 1 THEN F[k + 1][g[k]] ELSE g[i]]
  <2>2. k \in 0 .. k /\ k + 1 \in 1 .. n /\ g[k] \in T
    BY <2>1
  <2>3. F[k + 1][g[k]] \in T
    BY <2>2
  <2>4. h \in [0 .. k + 1 -> T]
    BY <2>1, <2>3
  <2>5. h[0] = base
    BY <2>1
  <2>6. \A i \in 1 .. k + 1 : h[i] = F[i][h[i - 1]]
    <3> SUFFICES ASSUME NEW i \in 1 .. k + 1
                 PROVE  h[i] = F[i][h[i - 1]]
      OBVIOUS
    <3>1. i - 1 \in 0 .. k + 1 /\ i - 1 # k + 1 /\ i \in 0 .. k + 1
      OBVIOUS
    <3>2. h[i - 1] = g[i - 1]
      BY <3>1
    <3>3. CASE i = k + 1
      <4>1. h[i] = F[k + 1][g[k]] /\ i - 1 = k
        BY <3>3
      <4> HIDE DEF h
      <4>2. QED  BY <3>2, <3>3, <4>1
    <3>4. CASE i # k + 1
      <4>1. h[i] = g[i] /\ i \in 1 .. k
        BY <3>4
      <4>2. g[i] = F[i][g[i - 1]]
        BY <2>1, <4>1
      <4> HIDE DEF h
      <4>3. QED  BY <3>2, <4>1, <4>2
    <3>5. QED  BY <3>3, <3>4
  <2>7. Good(k + 1, h)
    <3> HIDE DEF h
    <3>1. QED  BY <2>4, <2>5, <2>6
  <2>8. k + 1 \in 0 .. n
    OBVIOUS
  <2> HIDE DEF Good, h
  <2>9. QED  BY <2>7, <2>8
<1>3. 0 .. n \subseteq S
  <2> HIDE DEF S
  <2>1. QED  BY <1>1, <1>2, UpTo
<1>4. n \in S
  <2> HIDE DEF S
  <2>1. QED  BY <1>3
<1>5. PICK g : Good(n, g)
  BY <1>4
<1>6. g \in [0 .. n -> T] /\ g[0] = base /\ \A i \in 1 .. n : g[i] = F[i][g[i - 1]]
  BY <1>5
<1>7. DOMAIN g = 0 .. n /\ \A i \in 0 .. n : g[i] \in T
  BY <1>6
<1>8. Iterates(g, n, T, base, F)
  BY <1>6, <1>7 DEF Iterates
<1>9. QED  BY <1>8

-----------------------------------------------------------------------------
(* join: f[n] is the result after n tokens. *)
Results(f, tokens, delim) ==
  f = [n \in 0 .. Len(tokens) |->
         IF n = 0 THEN <<>>
         ELSE IF n = 1 THEN tokens[1] ELSE f[n - 1] \o delim \o tokens[n]]

Leads(f, tokens, delim) ==
  /\ f[0] = <<>> /\ Join(tokens, delim) = f[Len(tokens)]
  /\ \A n \in 1 .. Len(tokens) :
       f[n] = IF n = 1 THEN tokens[1] ELSE f[n - 1] \o delim \o tokens[n]

(* join has one: the results after each token. *)
LEMMA JoinResults ==
  ASSUME NEW C, NEW tokens \in Seq(Seq(C)), NEW delim \in Seq(C)
  PROVE  \E f \in [0 .. Len(tokens) -> Seq(C)] :
           Leads(f, tokens, delim)
<1> DEFINE m == Len(tokens)
           T == Seq(C)
           F == [i \in 1 .. m |->
                   [r \in T |-> IF i = 1 THEN tokens[1] ELSE r \o delim \o tokens[i]]]
<1>1. m \in Nat /\ \A i \in 1 .. m : tokens[i] \in T
  BY LenProperties, ElementOfSeq
<1>2. \A i \in 1 .. m, r \in T : F[i][r] \in T
  <2> SUFFICES ASSUME NEW i \in 1 .. m, NEW s \in T
               PROVE  (IF i = 1 THEN tokens[1] ELSE s \o delim \o tokens[i]) \in T
    OBVIOUS
  <2>1. s \o delim \in T
    BY ConcatProperties
  <2>2. s \o delim \o tokens[i] \in T
    BY <1>1, <2>1, ConcatProperties
  <2>3. QED  BY <1>1, <2>2
<1>3. <<>> \in T
  OBVIOUS
<1>4. PICK f : /\ f \in [0 .. m -> T] /\ f[0] = <<>>
               /\ \A i \in 1 .. m : f[i] = F[i][f[i - 1]]
  <2>1. PICK g : Iterates(g, m, T, <<>>, F)
    <3> HIDE DEF F, T, m
    <3>1. QED  BY <1>1, <1>2, <1>3, Iteration
  <2> DEFINE f == [i \in 0 .. m |-> g[i]]
  <2>2. \A i \in 1 .. m : i \in 0 .. m /\ i - 1 \in 0 .. m
    BY <1>1
  <2>3. f \in [0 .. m -> T] /\ f[0] = <<>> /\ \A i \in 1 .. m : f[i] = F[i][f[i - 1]]
    <3> HIDE DEF F, T, m
    <3>1. 0 \in 0 .. m
      BY <1>1 DEF m
    <3>2. QED  BY <2>1, <2>2, <3>1 DEF Iterates
  <2> HIDE DEF f, F, T, m
  <2>4. QED  BY <2>3
<1>5. \A i \in 1 .. m : f[i] = IF i = 1 THEN tokens[1] ELSE f[i - 1] \o delim \o tokens[i]
  <2> SUFFICES ASSUME NEW i \in 1 .. m
               PROVE  f[i] = IF i = 1 THEN tokens[1] ELSE f[i - 1] \o delim \o tokens[i]
    OBVIOUS
  <2>1. i - 1 \in 0 .. m
    BY <1>1
  <2>2. f[i - 1] \in T
    BY <1>4, <2>1
  <2>3. f[i] = F[i][f[i - 1]]
    BY <1>4
  <2> HIDE DEF T, m
  <2>4. QED  BY <2>2, <2>3
<1>6. Results(f, tokens, delim)
  <2> DEFINE c == [n \in 0 .. m |-> IF n = 0 THEN <<>>
                     ELSE IF n = 1 THEN tokens[1] ELSE f[n - 1] \o delim \o tokens[n]]
  <2>1. \A n \in 0 .. m : f[n] = c[n]
    <3> SUFFICES ASSUME NEW n \in 0 .. m
                 PROVE  f[n] = IF n = 0 THEN <<>>
                               ELSE IF n = 1 THEN tokens[1] ELSE f[n - 1] \o delim \o tokens[n]
      OBVIOUS
    <3>1. n = 0 \/ (n # 0 /\ n \in 1 .. m)
      BY <1>1
    <3> HIDE DEF F, T, m
    <3>2. QED  BY <1>4, <1>5, <3>1
  <2>2. f = c
    <3>1. f = [n \in 0 .. m |-> f[n]] /\ c = [n \in 0 .. m |-> c[n]]
      BY <1>4
    <3> HIDE DEF c
    <3>2. QED  BY <2>1, <3>1
  <2>3. QED  BY <2>2, Zenon DEF Results
<1>7. \A g : Results(g, tokens, delim) => g = f
  <2> SUFFICES ASSUME NEW g, Results(g, tokens, delim)
               PROVE  g = f
    OBVIOUS
  <2> DEFINE S == {i \in 0 .. m : g[i] = f[i]}
  <2>1. /\ g = [n \in 0 .. m |-> g[n]] /\ g[0] = <<>>
        /\ \A i \in 1 .. m : g[i] = IF i = 1 THEN tokens[1] ELSE g[i - 1] \o delim \o tokens[i]
    <3> DEFINE c == [n \in 0 .. m |-> IF n = 0 THEN <<>>
                       ELSE IF n = 1 THEN tokens[1] ELSE g[n - 1] \o delim \o tokens[n]]
    <3>1. g = c
      BY Zenon DEF Results
    <3>2. /\ c = [n \in 0 .. m |-> c[n]] /\ c[0] = <<>>
          /\ \A i \in 1 .. m : c[i] = IF i = 1 THEN tokens[1] ELSE g[i - 1] \o delim \o tokens[i]
      <4>1. 0 \in 0 .. m /\ \A i \in 1 .. m : i \in 0 .. m /\ i # 0
        BY <1>1
      <4>2. \A n \in 0 .. m : c[n] = IF n = 0 THEN <<>>
                       ELSE IF n = 1 THEN tokens[1] ELSE g[n - 1] \o delim \o tokens[n]
        OBVIOUS
      <4>3. c = [n \in 0 .. m |-> c[n]]
        OBVIOUS
      <4> HIDE DEF c, m, F, T
      <4>4. QED  BY <4>1, <4>2, <4>3
    <3> HIDE DEF c
    <3>3. QED  BY <3>1, <3>2
  <2>2. 0 \in S
    BY <1>1, <1>4, <2>1
  <2>3. ASSUME NEW i \in 0 .. m - 1, i \in S
        PROVE  i + 1 \in S
    <3>1. i + 1 \in 1 .. m /\ (i + 1) - 1 = i /\ i + 1 \in 0 .. m
      BY <1>1
    <3> HIDE DEF F, T, m
    <3>2. g[i] = f[i]
      BY <2>3
    <3>3. /\ g[i + 1] = IF i + 1 = 1 THEN tokens[1] ELSE g[i] \o delim \o tokens[i + 1]
          /\ f[i + 1] = IF i + 1 = 1 THEN tokens[1] ELSE f[i] \o delim \o tokens[i + 1]
      <4> DEFINE k == i + 1
      <4>1. k \in 1 .. m /\ k - 1 = i
        BY <3>1
      <4> HIDE DEF k
      <4>2. /\ g[k] = IF k = 1 THEN tokens[1] ELSE g[i] \o delim \o tokens[k]
            /\ f[k] = IF k = 1 THEN tokens[1] ELSE f[i] \o delim \o tokens[k]
        BY <1>5, <2>1, <4>1
      <4>3. QED  BY <4>2 DEF k
    <3>4. g[i + 1] = f[i + 1]
      BY <3>2, <3>3
    <3>5. QED  BY <3>1, <3>4
  <2>4. 0 .. m \subseteq S
    <3> HIDE DEF S
    <3>1. QED  BY <1>1, <2>2, <2>3, UpTo
  <2>5. f = [n \in 0 .. m |-> f[n]]
    BY <1>4
  <2>6. QED  BY <2>1, <2>4, <2>5
<1>8. Join(tokens, delim) = f[m]
  <2> DEFINE R == CHOOSE g : Results(g, tokens, delim)
  <2>1. R = f
    BY <1>6, <1>7
  <2>2. Join(tokens, delim) = R[Len(tokens)]
    BY Zenon DEF Join, Results
  <2>3. QED  BY <2>1, <2>2
<1>9. Leads(f, tokens, delim)
  BY <1>4, <1>5, <1>8 DEF Leads
<1>10. QED  BY <1>4, <1>9

(* What join gives. *)
LEMMA JoinType ==
  ASSUME NEW C, NEW tokens \in Seq(Seq(C)), NEW delim \in Seq(C)
  PROVE  Join(tokens, delim) \in Seq(C) /\ (tokens = <<>> => Join(tokens, delim) = <<>>)
<1>1. PICK f \in [0 .. Len(tokens) -> Seq(C)] :
           f[0] = <<>> /\ Join(tokens, delim) = f[Len(tokens)]
  BY JoinResults DEF Leads
<1>2. Len(tokens) \in Nat /\ (tokens = <<>> => Len(tokens) = 0)
  BY LenProperties
<1>3. Len(tokens) \in 0 .. Len(tokens)
  BY <1>2
<1>4. QED  BY <1>1, <1>2, <1>3

Longer(tokens, delim, w) ==
  IF tokens = <<>> THEN w ELSE Join(tokens, delim) \o delim \o w

(* join with one more token. *)
LEMMA JoinAppend ==
  ASSUME NEW C, NEW tokens \in Seq(Seq(C)), NEW delim \in Seq(C), NEW w \in Seq(C)
  PROVE  Join(Append(tokens, w), delim) = Longer(tokens, delim, w)
<1> DEFINE m == Len(tokens)
           T == Seq(C)
           more == Append(tokens, w)
<1>1. m \in Nat /\ (tokens = <<>> <=> m = 0) /\ \A i \in 1 .. m : tokens[i] \in T
  BY LenProperties, ElementOfSeq, EmptySeq
<1>2. /\ more \in Seq(T) /\ Len(more) = m + 1 /\ more[m + 1] = w
      /\ \A i \in 1 .. m : more[i] = tokens[i]
  BY AppendProperties
<1>3. PICK f : Leads(f, tokens, delim)
  BY JoinResults
<1>4. PICK g : Leads(g, more, delim)
  <2> HIDE DEF more
  <2>1. QED  BY <1>2, JoinResults
<1> HIDE DEF m, more
<1> DEFINE S == {i \in 0 .. m : g[i] = f[i]}
<1>5. 0 \in S
  BY <1>1, <1>3, <1>4 DEF Leads
<1>6. ASSUME NEW i \in 0 .. m - 1, i \in S
      PROVE  i + 1 \in S
  <2> DEFINE k == i + 1
  <2>1. /\ k \in 1 .. m /\ k - 1 = i /\ k \in 1 .. Len(more) /\ k \in 0 .. m
        /\ (k = 1 => 1 \in 1 .. m)
    BY <1>1, <1>2
  <2>2. g[i] = f[i]
    BY <1>6
  <2> HIDE DEF k
  <2>3. g[k] = f[k]
    BY <1>2, <1>3, <1>4, <2>1, <2>2 DEF Leads, m
  <2>4. k \in S
    BY <2>1, <2>3
  <2>5. QED  BY <2>4 DEF k
<1>7. 0 .. m \subseteq S
  <2> HIDE DEF S
  <2>1. QED  BY <1>1, <1>5, <1>6, UpTo
<1>8. g[m] = f[m]
  BY <1>1, <1>7
<1>9. g[m + 1] = IF m = 0 THEN w ELSE g[m] \o delim \o w
  <2> DEFINE k == m + 1
  <2>1. k \in 1 .. Len(more) /\ k - 1 = m /\ (k = 1 <=> m = 0)
    BY <1>1, <1>2
  <2>2. more[k] = w
    BY <1>2
  <2> HIDE DEF k
  <2>3. g[k] = IF k = 1 THEN more[1] ELSE g[m] \o delim \o w
    BY <1>4, <2>1, <2>2 DEF Leads
  <2>4. g[k] = IF m = 0 THEN w ELSE g[m] \o delim \o w
    BY <2>1, <2>2, <2>3
  <2>5. QED  BY <2>4 DEF k
<1>10. Join(more, delim) = g[m + 1]
  BY <1>2, <1>4 DEF Leads
<1>11. QED  BY <1>1, <1>3, <1>8, <1>9, <1>10 DEF more, Leads, m, Longer

-----------------------------------------------------------------------------
(* Parts of a text: the tokens so far, each with a delimiter behind it,    *)
(* are the first p characters.                                             *)
Glued(tokens, delim, t, p) ==
  IF tokens = <<>> THEN p = 0 ELSE Join(tokens, delim) \o delim = SubSeq(t, 1, p)

(* A part of a text. *)
LEMMA PartType ==
  ASSUME NEW C, NEW t \in Seq(C), NEW p \in 0 .. Len(t), NEW q \in p .. Len(t)
  PROVE  /\ SubSeq(t, p + 1, q) \in Seq(C) /\ Len(SubSeq(t, p + 1, q)) = q - p
         /\ SubSeq(t, 1, p) \o SubSeq(t, p + 1, q) = SubSeq(t, 1, q)
         /\ \A i \in 1 .. q - p : SubSeq(t, p + 1, q)[i] = t[p + i]
<1>1. Len(t) \in Nat /\ \A i \in 1 .. Len(t) : t[i] \in C
  BY LenProperties, ElementOfSeq
<1>2. \A i \in p + 1 .. q : t[i] \in C
  BY <1>1
<1>3. p + 1 \in Int /\ q \in Int
  BY <1>1
<1>4. /\ SubSeq(t, p + 1, q) \in Seq(C)
      /\ Len(SubSeq(t, p + 1, q)) = IF p + 1 <= q THEN q - (p + 1) + 1 ELSE 0
      /\ \A i \in 1 .. q - (p + 1) + 1 : SubSeq(t, p + 1, q)[i] = t[(p + 1) + i - 1]
  <2> DEFINE a == p + 1
  <2>1. a \in Int /\ \A i \in a .. q : t[i] \in C
    BY <1>2, <1>3
  <2> HIDE DEF a
  <2>2. /\ SubSeq(t, a, q) \in Seq(C) /\ Len(SubSeq(t, a, q)) = IF a <= q THEN q - a + 1 ELSE 0
        /\ \A i \in 1 .. q - a + 1 : SubSeq(t, a, q)[i] = t[a + i - 1]
    BY <1>3, <2>1, SubSeqProperties
  <2>3. QED  BY <2>2 DEF a
<1>5. Len(SubSeq(t, p + 1, q)) = q - p
  BY <1>1, <1>4
<1>6. ASSUME NEW i \in 1 .. q - p
      PROVE  SubSeq(t, p + 1, q)[i] = t[p + i]
  <2>1. i \in 1 .. q - (p + 1) + 1 /\ (p + 1) + i - 1 = p + i
    BY <1>1
  <2>2. SubSeq(t, p + 1, q)[i] = t[(p + 1) + i - 1]
    BY <1>4, <2>1
  <2>3. QED  BY <2>1, <2>2
<1>7. SubSeq(t, 1, p) \o SubSeq(t, p + 1, q) = SubSeq(t, 1, q)
  <2>1. 1 \in 1 .. Len(t) + 1 /\ p \in 1 - 1 .. Len(t) /\ q \in p .. Len(t)
    BY <1>1
  <2>2. QED  BY <2>1, ConcatAdjacentSubSeq
<1>8. QED  BY <1>4, <1>5, <1>6, <1>7

(* With the rest behind them the tokens make up the text, *)
LEMMA GluedEnd ==
  ASSUME NEW C, NEW t \in Seq(C), NEW delim \in Seq(C), NEW tokens \in Seq(Seq(C)),
         NEW p \in 0 .. Len(t), NEW q \in p .. Len(t), Glued(tokens, delim, t, p)
  PROVE  Join(Append(tokens, SubSeq(t, p + 1, q)), delim) = SubSeq(t, 1, q)
<1> DEFINE w == SubSeq(t, p + 1, q)
<1>1. w \in Seq(C) /\ SubSeq(t, 1, p) \o w = SubSeq(t, 1, q)
  BY PartType
<1>2. CASE tokens = <<>>
  <2>1. p = 0
    BY <1>2 DEF Glued
  <2>2. w = SubSeq(t, 1, q)
    <3>1. p + 1 = 1
      BY <2>1
    <3>2. QED  BY <3>1
  <2> HIDE DEF w
  <2>3. Join(Append(tokens, w), delim) = w
    <3>1. Join(Append(tokens, w), delim) = Longer(tokens, delim, w)
      BY <1>1, JoinAppend
    <3>2. QED  BY <1>2, <3>1 DEF Longer
  <2>4. QED  BY <2>2, <2>3 DEF w
<1>3. CASE tokens # <<>>
  <2> HIDE DEF w
  <2>1. Join(Append(tokens, w), delim) = Join(tokens, delim) \o delim \o w
    <3>1. Join(Append(tokens, w), delim) = Longer(tokens, delim, w)
      BY <1>1, JoinAppend
    <3>2. QED  BY <1>3, <3>1 DEF Longer
  <2>2. Join(tokens, delim) \o delim = SubSeq(t, 1, p)
    BY <1>3 DEF Glued
  <2>3. QED  BY <1>1, <2>1, <2>2 DEF w
<1>4. QED  BY <1>2, <1>3

(* and with one more token and the delimiter behind it a longer part. *)
LEMMA GluedToken ==
  ASSUME NEW C, NEW t \in Seq(C), NEW delim \in Seq(C), NEW tokens \in Seq(Seq(C)),
         NEW p \in 0 .. Len(t), NEW q \in p .. Len(t), Glued(tokens, delim, t, p),
         q + Len(delim) <= Len(t), SubSeq(t, q + 1, q + Len(delim)) = delim
  PROVE  Glued(Append(tokens, SubSeq(t, p + 1, q)), delim, t, q + Len(delim))
<1> DEFINE w == SubSeq(t, p + 1, q)
           e == q + Len(delim)
<1>1. w \in Seq(C)
  BY PartType
<1>2. Join(Append(tokens, w), delim) = SubSeq(t, 1, q)
  BY GluedEnd
<1>3. q \in 0 .. Len(t) /\ e \in q .. Len(t)
  BY LenProperties
<1>4. SubSeq(t, 1, q) \o SubSeq(t, q + 1, e) = SubSeq(t, 1, e)
  <2> HIDE DEF e
  <2>1. QED  BY <1>3, PartType
<1>5. Append(tokens, w) # <<>>
  <2> HIDE DEF w
  <2>1. QED  BY <1>1, AppendProperties
<1>6. QED  BY <1>2, <1>4, <1>5 DEF Glued

(* What Find finds. *)
Stands(t, by, p) == SubSeq(t, p + 1, p + Len(by)) = by

FoundAt(t, by, from, p) ==
  /\ p \in from .. Len(t) - Len(by) /\ Stands(t, by, p)
  /\ \A q \in from .. p - 1 : ~Stands(t, by, q)

FoundNone(t, by, from) == \A q \in from .. Len(t) - Len(by) : ~Stands(t, by, q)

(* Find gives the first place where by stands, or none. *)
LEMMA FindIs ==
  ASSUME NEW t, NEW by, Len(t) \in Nat, Len(by) \in Nat, NEW from \in Nat
  PROVE  \/ Find(t, by, from) = NPos /\ FoundNone(t, by, from)
         \/ FoundAt(t, by, from, Find(t, by, from))
<1> DEFINE S == {p \in from .. Len(t) - Len(by) : SubSeq(t, p + 1, p + Len(by)) = by}
<1>1. Find(t, by, from) = IF S = {} THEN NPos ELSE Min(S)
  BY DEF Find
<1>2. CASE S = {}
  BY <1>1, <1>2 DEF FoundNone, Stands
<1>3. CASE S # {}
  <2>1. \E x \in S : \A y \in S : x <= y
    <3>1. S \subseteq Nat
      OBVIOUS
    <3> HIDE DEF S
    <3>2. QED  BY <1>3, <3>1, Least
  <2>2. Min(S) \in S /\ \A y \in S : Min(S) <= y
    BY <2>1 DEF Min
  <2> DEFINE m == Min(S)
  <2>3. m \in S /\ \A y \in S : m <= y
    BY <2>2
  <2> HIDE DEF m
  <2>4. m \in from .. Len(t) - Len(by) /\ Stands(t, by, m)
    BY <2>3 DEF Stands
  <2>5. ASSUME NEW q \in from .. m - 1
        PROVE  ~Stands(t, by, q)
    <3>1. q \in from .. Len(t) - Len(by) /\ ~(m <= q)
      BY <2>4
    <3>2. q \notin S
      <4> HIDE DEF S
      <4>1. QED  BY <2>3, <3>1
    <3>3. QED  BY <3>1, <3>2 DEF Stands
  <2>6. FoundAt(t, by, from, m)
    BY <2>4, <2>5 DEF FoundAt
  <2>7. QED  BY <1>1, <1>3, <2>6 DEF m
<1>4. QED  BY <1>2, <1>3

(* Where by stands first Find finds it, *)
LEMMA FindFirst ==
  ASSUME NEW t, NEW by, Len(t) \in Nat, Len(by) \in Nat, NEW from \in Nat,
         NEW p, FoundAt(t, by, from, p)
  PROVE  Find(t, by, from) = p
<1> DEFINE f == Find(t, by, from)
<1>1. ~FoundNone(t, by, from)
  BY DEF FoundAt, FoundNone
<1>2. FoundAt(t, by, from, f)
  BY <1>1, FindIs
<1> HIDE DEF f
<1>3. p \in Nat /\ f \in Nat /\ ~(p < f) /\ ~(f < p)
  BY <1>2 DEF FoundAt
<1>4. QED  BY <1>3 DEF f

(* and nothing where it stands nowhere. *)
LEMMA FindNone ==
  ASSUME NEW t, NEW by, Len(t) \in Nat, Len(by) \in Nat, NEW from \in Nat, FoundNone(t, by, from)
  PROVE  Find(t, by, from) = NPos
<1>1. ~FoundAt(t, by, from, Find(t, by, from))
  BY DEF FoundAt, FoundNone
<1>2. QED  BY <1>1, FindIs

(* A part of a part of a text. *)
LEMMA PartOfPart ==
  ASSUME NEW C, NEW t \in Seq(C), NEW p \in 0 .. Len(t), NEW q \in p .. Len(t),
         NEW i \in 0 .. q - p, NEW j \in i .. q - p
  PROVE  SubSeq(SubSeq(t, p + 1, q), i + 1, j) = SubSeq(t, (p + i) + 1, p + j)
<1> DEFINE u == SubSeq(t, p + 1, q)
           x == SubSeq(u, i + 1, j)
           k == p + i
           l == p + j
           y == SubSeq(t, k + 1, l)
<1>1. Len(t) \in Nat
  BY LenProperties
<1>2. /\ u \in Seq(C) /\ Len(u) = q - p /\ \A n \in 1 .. q - p : u[n] = t[p + n]
  BY PartType
<1>3. k \in 0 .. Len(t) /\ l \in k .. Len(t) /\ l - k = j - i
  BY <1>1
<1>4. i \in 0 .. Len(u) /\ j \in i .. Len(u)
  BY <1>2
<1>5. x \in Seq(C) /\ Len(x) = j - i /\ \A n \in 1 .. j - i : x[n] = u[i + n]
  <2> HIDE DEF u
  <2>1. QED  BY <1>2, <1>4, PartType
<1>6. y \in Seq(C) /\ Len(y) = l - k /\ \A n \in 1 .. l - k : y[n] = t[k + n]
  <2> HIDE DEF k, l
  <2>1. QED  BY <1>3, PartType
<1>7. \A n \in 1 .. j - i : x[n] = y[n]
  <2> SUFFICES ASSUME NEW n \in 1 .. j - i
               PROVE  x[n] = y[n]
    OBVIOUS
  <2>1. i + n \in 1 .. q - p /\ p + (i + n) = k + n /\ n \in 1 .. l - k
    BY <1>1, <1>3
  <2>2. x[n] = u[i + n] /\ u[i + n] = t[p + (i + n)] /\ y[n] = t[k + n]
    BY <1>2, <1>5, <1>6, <2>1
  <2> HIDE DEF x, y, u, k, l
  <2>3. QED  BY <2>1, <2>2
<1> HIDE DEF x, y
<1>8. x = y
  BY <1>3, <1>5, <1>6, <1>7, SeqEqual
<1>9. QED  BY <1>8 DEF x, y

(* split, replace: a token ends at the first delimiter. *)
LEMMA TokenCut ==
  ASSUME NEW C, NEW t \in Seq(C), NEW by \in Seq(C), by # <<>>,
         NEW p \in 0 .. Len(t), NEW q, FoundAt(t, by, p, q)
  PROVE  Find(SubSeq(t, p + 1, q) \o by, by, 0) = Len(SubSeq(t, p + 1, q))
<1> DEFINE n == Len(by)
           e == q + n
           u == SubSeq(t, p + 1, e)
<1>1. Len(t) \in Nat /\ n \in Nat /\ n >= 1
  BY LenProperties, EmptySeq
<1>2. q \in p .. Len(t) /\ e \in q .. Len(t) /\ q \in 0 .. Len(t) /\ e \in p .. Len(t)
  BY <1>1 DEF FoundAt
<1>3. Len(SubSeq(t, p + 1, q)) = q - p
  BY <1>2, PartType
<1>4. u \in Seq(C) /\ Len(u) = e - p
  BY <1>2, PartType
<1>5. SubSeq(t, p + 1, q) \o by = u
  <2>1. by = SubSeq(t, q + 1, e)
    BY DEF FoundAt, Stands
  <2>2. /\ p + 1 \in 1 .. Len(t) + 1 /\ q \in (p + 1) - 1 .. Len(t) /\ e \in q .. Len(t)
    BY <1>1, <1>2
  <2>3. SubSeq(t, p + 1, q) \o SubSeq(t, q + 1, e) = SubSeq(t, p + 1, e)
    <3> DEFINE a == p + 1
    <3>1. a \in 1 .. Len(t) + 1 /\ q \in a - 1 .. Len(t)
      BY <2>2
    <3> HIDE DEF a, e
    <3>2. SubSeq(t, a, q) \o SubSeq(t, q + 1, e) = SubSeq(t, a, e)
      BY <2>2, <3>1, ConcatAdjacentSubSeq
    <3>3. QED  BY <3>2 DEF a
  <2>4. QED  BY <2>1, <2>3
<1>6. \A i \in 0 .. q - p : Stands(u, by, i) <=> Stands(t, by, p + i)
  <2> SUFFICES ASSUME NEW i \in 0 .. q - p
               PROVE  Stands(u, by, i) <=> Stands(t, by, p + i)
    OBVIOUS
  <2> DEFINE j == i + n
  <2>1. i \in 0 .. e - p /\ j \in i .. e - p /\ p + j = (p + i) + n
    BY <1>1, <1>2
  <2>2. SubSeq(u, i + 1, j) = SubSeq(t, (p + i) + 1, p + j)
    <3> HIDE DEF j, e
    <3>1. QED  BY <1>2, <2>1, PartOfPart
  <2> HIDE DEF u
  <2>3. QED  BY <2>1, <2>2 DEF Stands
<1>7. FoundAt(u, by, 0, q - p)
  <2>1. q - p \in 0 .. Len(u) - n /\ p + (q - p) = q
    BY <1>1, <1>2, <1>4
  <2>2. Stands(u, by, q - p)
    <3>1. q - p \in 0 .. q - p
      BY <2>1
    <3>2. Stands(u, by, q - p) <=> Stands(t, by, p + (q - p))
      BY <1>6, <3>1
    <3>3. QED  BY <2>1, <3>2 DEF FoundAt
  <2>3. ASSUME NEW i \in 0 .. (q - p) - 1
        PROVE  ~Stands(u, by, i)
    <3>1. i \in 0 .. q - p /\ p + i \in p .. q - 1
      BY <1>1, <1>2
    <3>2. QED  BY <1>6, <3>1 DEF FoundAt
  <2> HIDE DEF u
  <2>4. QED  BY <2>1, <2>2, <2>3 DEF FoundAt
<1> HIDE DEF u
<1>8. Find(u, by, 0) = q - p
  <2>1. Len(u) \in Nat /\ 0 \in Nat
    BY <1>4, LenProperties
  <2>2. QED  BY <1>1, <1>7, <2>1, FindFirst
<1>9. QED  BY <1>3, <1>5, <1>8

(* and the last one has none. *)
LEMMA LastCut ==
  ASSUME NEW C, NEW t \in Seq(C), NEW by \in Seq(C), by # <<>>,
         NEW p \in 0 .. Len(t), FoundNone(t, by, p)
  PROVE  Find(SubSeq(t, p + 1, Len(t)), by, 0) = NPos
<1> DEFINE n == Len(by)
           e == Len(t)
           u == SubSeq(t, p + 1, e)
<1>1. e \in Nat /\ n \in Nat /\ n >= 1
  BY LenProperties, EmptySeq
<1>2. e \in p .. Len(t)
  BY <1>1
<1>3. u \in Seq(C) /\ Len(u) = e - p
  BY <1>2, PartType
<1>4. FoundNone(u, by, 0)
  <2> SUFFICES ASSUME NEW i \in 0 .. Len(u) - n
               PROVE  ~Stands(u, by, i)
    BY DEF FoundNone
  <2> DEFINE j == i + n
  <2>1. i \in 0 .. e - p /\ j \in i .. e - p /\ p + j = (p + i) + n /\ p + i \in p .. Len(t) - n
    BY <1>1, <1>3
  <2>2. SubSeq(u, i + 1, j) = SubSeq(t, (p + i) + 1, p + j)
    <3> HIDE DEF j
    <3>1. QED  BY <1>2, <2>1, PartOfPart
  <2>3. ~Stands(t, by, p + i)
    BY <2>1 DEF FoundNone
  <2> HIDE DEF u
  <2>4. QED  BY <2>1, <2>2, <2>3 DEF Stands
<1> HIDE DEF u
<1>5. Find(u, by, 0) = NPos
  <2>1. Len(u) \in Nat /\ 0 \in Nat
    BY <1>3, LenProperties
  <2>2. QED  BY <1>1, <1>4, <2>1, FindNone
<1>6. QED  BY <1>5 DEF u

(* What regexec finds: a match, none further left, none longer there. *)
Matches(re, s, so, eo) == so \in 0 .. Len(s) /\ eo \in so .. Len(s) /\ Fits(re, s, so, eo)

Best(re, s, so, eo) ==
  /\ Matches(re, s, so, eo)
  /\ \A x, y \in 0 .. Len(s) : Matches(re, s, x, y) => so <= x /\ (x = so => y <= eo)

NoMatch(re, s) == \A x, y \in 0 .. Len(s) : ~Matches(re, s, x, y)

(* Regexec gives the best match, or none when there is none. *)
LEMMA RegexecIs ==
  ASSUME NEW re, NEW s, Len(s) \in Nat
  PROVE  \/ Regexec(re, s) = <<NPos, NPos>> /\ NoMatch(re, s)
         \/ /\ Regexec(re, s) = <<Regexec(re, s)[1], Regexec(re, s)[2]>>
            /\ Best(re, s, Regexec(re, s)[1], Regexec(re, s)[2])
<1> DEFINE N == 0 .. Len(s)
           H == Hits(re, s)
           Starts == {m[1] : m \in H}
           so == Min(Starts)
           Ends == {m[2] : m \in {k \in H : k[1] = so}}
           eo == Max(Ends)
<1>1. H \subseteq N \X N /\ \A x, y \in N : <<x, y>> \in H <=> Matches(re, s, x, y)
  BY DEF Hits, Matches
<1>2. Regexec(re, s) = IF H = {} THEN <<NPos, NPos>> ELSE <<so, eo>>
  BY DEF Regexec
<1> HIDE DEF H
<1>3. CASE H = {}
  BY <1>1, <1>2, <1>3 DEF NoMatch
<1>4. CASE H # {}
  <2>1. Starts \subseteq Nat /\ Starts # {}
    BY <1>1, <1>4
  <2>2. so \in Starts /\ \A x \in Starts : so <= x
    <3>1. \E x \in Starts : \A y \in Starts : x <= y
      <4> HIDE DEF Starts
      <4>1. QED  BY <2>1, Least
    <3>2. QED  BY <3>1 DEF Min
  <2> HIDE DEF so
  <2>3. Ends \subseteq N /\ Ends # {}
    BY <1>1, <2>2
  <2>4. eo \in Ends /\ \A x \in Ends : x <= eo
    <3> DEFINE T == {Len(s) - x : x \in Ends}
    <3> HIDE DEF Ends
    <3>1. T \subseteq Nat /\ T # {}
      <4>1. \A x \in Ends : Len(s) - x \in Nat
        BY <2>3
      <4>2. QED  BY <2>3, <4>1, Zenon
    <3>2. PICK z \in T : \A y \in T : z <= y
      <4> HIDE DEF T
      <4>1. QED  BY <3>1, Least
    <3>3. PICK x \in Ends : z = Len(s) - x
      BY <3>2
    <3>4. ASSUME NEW y \in Ends
          PROVE  x >= y
      <4>1. Len(s) - y \in T
        OBVIOUS
      <4>2. z <= Len(s) - y
        <5> HIDE DEF T
        <5>1. QED  BY <3>2, <4>1
      <4>3. x \in Int /\ y \in Int
        BY <2>3
      <4>4. QED  BY <3>3, <4>2, <4>3
    <3>5. eo \in Ends /\ \A y \in Ends : eo >= y
      BY <3>4 DEF Max
    <3> HIDE DEF eo
    <3>6. eo \in Int /\ \A y \in Ends : y \in Int
      BY <2>3, <3>5
    <3>7. QED  BY <3>5, <3>6
  <2> HIDE DEF eo
  <2>5. <<so, eo>> \in H /\ so \in N /\ eo \in N
    BY <1>1, <2>3, <2>4
  <2>6. ASSUME NEW x \in N, NEW y \in N, Matches(re, s, x, y)
        PROVE  so <= x /\ (x = so => y <= eo)
    <3>1. <<x, y>> \in H
      BY <1>1, <2>6
    <3>2. x \in Starts /\ (x = so => y \in Ends)
      BY <3>1
    <3>3. QED  BY <2>2, <2>4, <3>2
  <2>7. Best(re, s, so, eo)
    BY <1>1, <2>5, <2>6 DEF Best
  <2>8. Regexec(re, s) = <<so, eo>>
    BY <1>2, <1>4 DEF so, eo
  <2>9. QED  BY <2>7, <2>8
<1>5. QED  BY <1>3, <1>4

(* A match of each expression. *)
AllB(s, so, eo) == \A i \in so + 1 .. eo : s[i] = b

(* What "bb*" and "b*" match: a run of b; *)
LEMMA FitsRun ==
  ASSUME NEW C, NEW s \in Seq(C), NEW so \in 0 .. Len(s), NEW eo \in so .. Len(s)
  PROVE  /\ Fits("bb*", s, so, eo) <=> so < eo /\ AllB(s, so, eo)
         /\ Fits("b*", s, so, eo) <=> AllB(s, so, eo)
<1> DEFINE w == SubSeq(s, so + 1, eo)
<1>1. w \in Seq(C) /\ Len(w) = eo - so /\ \A i \in 1 .. eo - so : w[i] = s[so + i]
  BY PartType
<1>2. DOMAIN w = 1 .. eo - so /\ Len(s) \in Nat
  BY <1>1, LenProperties
<1>3. (\A i \in DOMAIN w : w[i] = b) <=> AllB(s, so, eo)
  <2>1. ASSUME AllB(s, so, eo), NEW i \in DOMAIN w
        PROVE  w[i] = b
    <3>1. so + i \in so + 1 .. eo /\ i \in 1 .. eo - so
      BY <1>2
    <3>2. w[i] = s[so + i]
      BY <1>1, <3>1
    <3>3. s[so + i] = b
      BY <2>1, <3>1 DEF AllB
    <3>4. QED  BY <3>2, <3>3
  <2>2. ASSUME \A i \in DOMAIN w : w[i] = b, NEW i \in so + 1 .. eo
        PROVE  s[i] = b
    <3>1. i - so \in 1 .. eo - so /\ so + (i - so) = i
      BY <1>2
    <3>2. w[i - so] = b /\ w[i - so] = s[so + (i - so)]
      BY <1>1, <1>2, <2>2, <3>1
    <3>3. QED  BY <3>1, <3>2
  <2> HIDE DEF w
  <2>3. QED  BY <2>1, <2>2 DEF AllB
<1>4. QED  BY <1>3 DEF Fits

(* what "^b" and "b$" match: one b at its place. *)
LEMMA FitsTied ==
  ASSUME NEW C, NEW s \in Seq(C), NEW so \in 0 .. Len(s), NEW eo \in so .. Len(s)
  PROVE  /\ Fits("^b", s, so, eo) <=> so = 0 /\ eo = 1 /\ s[1] = b
         /\ Fits("b$", s, so, eo) <=> so = Len(s) - 1 /\ eo = Len(s) /\ s[Len(s)] = b
<1> DEFINE w == SubSeq(s, so + 1, eo)
<1>1. w \in Seq(C) /\ Len(w) = eo - so /\ \A i \in 1 .. eo - so : w[i] = s[so + i]
  BY PartType
<1>2. Len(s) \in Nat
  BY LenProperties
<1> HIDE DEF w
<1>3. w = <<b>> <=> eo = so + 1 /\ s[eo] = b
  <2>1. ASSUME w = <<b>>
        PROVE  eo = so + 1 /\ s[eo] = b
    <3>1. Len(w) = 1 /\ w[1] = b
      BY <2>1
    <3>2. eo = so + 1 /\ 1 \in 1 .. eo - so
      <4>1. eo - so = 1
        BY <1>1, <3>1, Zenon
      <4>2. QED  BY <1>2, <4>1
    <3>3. w[1] = s[so + 1]
      BY <1>1, <3>2
    <3>4. QED  BY <3>1, <3>2, <3>3
  <2>2. ASSUME eo = so + 1, s[eo] = b
        PROVE  w = <<b>>
    <3>1. Len(w) = 1 /\ 1 \in 1 .. eo - so
      BY <1>1, <1>2, <2>2
    <3>2. w[1] = b
      BY <1>1, <2>2, <3>1
    <3>3. QED  BY <1>1, <3>1, <3>2
  <2>3. QED  BY <2>1, <2>2
<1>4. /\ Fits("^b", s, so, eo) <=> so = 0 /\ w = <<b>>
      /\ Fits("b$", s, so, eo) <=> eo = Len(s) /\ w = <<b>>
  BY DEF Fits, w
<1>5. QED  BY <1>2, <1>3, <1>4

(* The first whole run of b in s is so + 1 .. eo. *)
FirstRun(s, so, eo) ==
  /\ so \in Nat /\ eo \in so + 1 .. Len(s) /\ AllB(s, so, eo)
  /\ \A i \in 1 .. so : s[i] # b
  /\ eo = Len(s) \/ s[eo + 1] # b

(* "bb*" matches any b. *)
LEMMA OneFits ==
  ASSUME NEW C, NEW s \in Seq(C), NEW i \in 1 .. Len(s), s[i] = b
  PROVE  Matches("bb*", s, i - 1, i)
<1> DEFINE x == i - 1
<1>1. Len(s) \in Nat
  BY LenProperties
<1>2. x \in 0 .. Len(s) /\ i \in x .. Len(s) /\ x < i /\ x + 1 = i
  BY <1>1
<1>3. AllB(s, x, i)
  <2> HIDE DEF x
  <2>1. \A j \in x + 1 .. i : j = i
    BY <1>2
  <2>2. QED  BY <2>1 DEF AllB
<1>4. Fits("bb*", s, x, i)
  <2> HIDE DEF x
  <2>1. QED  BY <1>2, <1>3, FitsRun
<1>5. QED  BY <1>2, <1>4 DEF Matches

(* "bb*" finds the first whole run of b. *)
LEMMA RunOf ==
  ASSUME NEW C, NEW s \in Seq(C)
  PROVE  \/ Regexec("bb*", s) = <<NPos, NPos>> /\ \A i \in 1 .. Len(s) : s[i] # b
         \/ FirstRun(s, Regexec("bb*", s)[1], Regexec("bb*", s)[2])
<1> DEFINE m == Regexec("bb*", s)
<1>1. Len(s) \in Nat
  BY LenProperties
<1>2. CASE m = <<NPos, NPos>> /\ NoMatch("bb*", s)
  <2>1. ASSUME NEW i \in 1 .. Len(s), s[i] = b
        PROVE  FALSE
    <3>1. Matches("bb*", s, i - 1, i)
      BY <2>1, OneFits
    <3>2. i - 1 \in 0 .. Len(s) /\ i \in 0 .. Len(s)
      BY <1>1
    <3>3. QED  BY <1>2, <3>1, <3>2 DEF NoMatch
  <2>2. QED  BY <1>2, <2>1
<1>3. CASE Best("bb*", s, m[1], m[2])
  <2> DEFINE so == m[1]
             eo == m[2]
  <2>1. Best("bb*", s, so, eo)
    BY <1>3
  <2> HIDE DEF so, eo, m
  <2>2. so \in 0 .. Len(s) /\ eo \in so .. Len(s) /\ so < eo /\ AllB(s, so, eo)
    <3>1. so \in 0 .. Len(s) /\ eo \in so .. Len(s) /\ Fits("bb*", s, so, eo)
      BY <2>1 DEF Best, Matches
    <3>2. QED  BY <3>1, FitsRun
  <2>3. ASSUME NEW i \in 1 .. so, s[i] = b
        PROVE  FALSE
    <3>1. i \in 1 .. Len(s) /\ i - 1 \in 0 .. Len(s) /\ i \in 0 .. Len(s)
      BY <1>1, <2>2
    <3>2. Matches("bb*", s, i - 1, i)
      BY <2>3, <3>1, OneFits
    <3>3. so <= i - 1
      BY <2>1, <3>1, <3>2 DEF Best
    <3>4. QED  BY <2>2, <3>3
  <2>4. ASSUME eo # Len(s), s[eo + 1] = b
        PROVE  FALSE
    <3> DEFINE e == eo + 1
    <3>1. e \in 0 .. Len(s) /\ e \in so .. Len(s) /\ so < e /\ e # eo /\ ~(e <= eo)
      BY <1>1, <2>2, <2>4
    <3>2. AllB(s, so, e)
      <4>1. \A i \in so + 1 .. e : i = e \/ i \in so + 1 .. eo
        BY <1>1, <2>2
      <4>2. s[e] = b
        BY <2>4
      <4> HIDE DEF e
      <4>3. QED  BY <2>2, <4>1, <4>2 DEF AllB
    <3> HIDE DEF e
    <3>3. Fits("bb*", s, so, e)
      BY <2>2, <3>1, <3>2, FitsRun
    <3>4. Matches("bb*", s, so, e)
      BY <2>2, <3>1, <3>3 DEF Matches
    <3>5. QED  BY <2>1, <2>2, <3>1, <3>4 DEF Best
  <2>5. so \in Nat /\ eo \in so + 1 .. Len(s)
    BY <1>1, <2>2
  <2>6. FirstRun(s, so, eo)
    BY <2>2, <2>3, <2>4, <2>5 DEF FirstRun
  <2>7. QED  BY <2>6 DEF so, eo, m
<1>4. QED
  <2>1. \/ m = <<NPos, NPos>> /\ NoMatch("bb*", s)
        \/ Best("bb*", s, m[1], m[2])
    BY <1>1, RegexecIs
  <2>2. QED  BY <1>2, <1>3, <2>1

(* "b*" matches where it is tried, and takes the run of b there. *)
Leading(s, so, eo) ==
  so = 0 /\ eo \in 0 .. Len(s) /\ AllB(s, 0, eo) /\ (eo = Len(s) \/ s[eo + 1] # b)

(* "b*" is never without a match. *)
LEMMA LeadingOf ==
  ASSUME NEW C, NEW s \in Seq(C)
  PROVE  Leading(s, Regexec("b*", s)[1], Regexec("b*", s)[2])
<1> DEFINE m == Regexec("b*", s)
           so == m[1]
           eo == m[2]
<1>1. Len(s) \in Nat /\ 0 \in 0 .. Len(s) /\ 0 \in 0 .. Len(s)
  BY LenProperties
<1>2. Matches("b*", s, 0, 0)
  <2>1. AllB(s, 0, 0)
    BY DEF AllB
  <2>2. Fits("b*", s, 0, 0)
    BY <1>1, <2>1, FitsRun
  <2>3. QED  BY <1>1, <2>2 DEF Matches
<1>3. Best("b*", s, so, eo)
  <2>1. ~NoMatch("b*", s)
    BY <1>1, <1>2 DEF NoMatch
  <2>2. QED  BY <1>1, <2>1, RegexecIs
<1> HIDE DEF m, so, eo
<1>4. so = 0 /\ eo \in 0 .. Len(s) /\ AllB(s, 0, eo)
  <2>1. so \in 0 .. Len(s) /\ eo \in so .. Len(s) /\ Fits("b*", s, so, eo)
    BY <1>3 DEF Best, Matches
  <2>2. so <= 0
    BY <1>1, <1>2, <1>3 DEF Best
  <2>3. so = 0
    BY <1>1, <2>1, <2>2
  <2>4. AllB(s, so, eo)
    BY <2>1, FitsRun
  <2>5. QED  BY <1>1, <2>1, <2>3, <2>4
<1>5. ASSUME eo # Len(s), s[eo + 1] = b
      PROVE  FALSE
  <2> DEFINE e == eo + 1
  <2>1. e \in 0 .. Len(s) /\ ~(e <= eo)
    BY <1>1, <1>4, <1>5
  <2>2. AllB(s, 0, e)
    <3>1. \A i \in 0 + 1 .. e : i = e \/ i \in 0 + 1 .. eo
      BY <1>1, <1>4
    <3>2. s[e] = b
      BY <1>5
    <3> HIDE DEF e
    <3>3. QED  BY <1>4, <3>1, <3>2 DEF AllB
  <2> HIDE DEF e
  <2>3. Matches("b*", s, 0, e)
    <3>1. Fits("b*", s, 0, e)
      BY <1>1, <2>1, <2>2, FitsRun
    <3>2. QED  BY <1>1, <2>1, <3>1 DEF Matches
  <2>4. QED  BY <1>1, <1>3, <1>4, <2>1, <2>3 DEF Best
<1>6. QED  BY <1>4, <1>5 DEF Leading, m, so, eo

(* "^b" matches one b where it is tried, "b$" one b at the end. *)
LEMMA FirstOf ==
  ASSUME NEW C, NEW s \in Seq(C)
  PROVE  Regexec("^b", s) = IF s # <<>> /\ s[1] = b THEN <<0, 1>> ELSE <<NPos, NPos>>
<1> DEFINE m == Regexec("^b", s)
<1>1. Len(s) \in Nat /\ (s # <<>> <=> Len(s) >= 1)
  BY LenProperties, EmptySeq
<1>2. \A x, y : Matches("^b", s, x, y) <=> Len(s) >= 1 /\ x = 0 /\ y = 1 /\ s[1] = b
  <2>1. ASSUME NEW x, NEW y, Matches("^b", s, x, y)
        PROVE  Len(s) >= 1 /\ x = 0 /\ y = 1 /\ s[1] = b
    <3>1. x \in 0 .. Len(s) /\ y \in x .. Len(s) /\ Fits("^b", s, x, y)
      BY <2>1 DEF Matches
    <3>2. x = 0 /\ y = 1 /\ s[1] = b
      BY <3>1, FitsTied
    <3>3. QED  BY <1>1, <3>1, <3>2
  <2>2. ASSUME Len(s) >= 1, s[1] = b
        PROVE  Matches("^b", s, 0, 1)
    <3>1. 0 \in 0 .. Len(s) /\ 1 \in 0 .. Len(s)
      BY <1>1, <2>2
    <3>2. Fits("^b", s, 0, 1)
      BY <2>2, <3>1, FitsTied
    <3>3. QED  BY <3>1, <3>2 DEF Matches
  <2>3. QED  BY <2>1, <2>2
<1>3. \/ m = <<NPos, NPos>> /\ NoMatch("^b", s)
      \/ m = <<m[1], m[2]>> /\ Best("^b", s, m[1], m[2])
  BY <1>1, RegexecIs
<1> HIDE DEF m
<1>4. CASE NoMatch("^b", s) /\ m = <<NPos, NPos>>
  <2>1. ~(s # <<>> /\ s[1] = b)
    <3>1. ASSUME s # <<>>, s[1] = b
          PROVE  FALSE
      <4>1. Matches("^b", s, 0, 1) /\ 0 \in 0 .. Len(s) /\ 1 \in 0 .. Len(s)
        BY <1>1, <1>2, <3>1
      <4>2. QED  BY <1>4, <4>1 DEF NoMatch
    <3>2. QED  BY <3>1
  <2>2. QED  BY <1>4, <2>1 DEF m
<1>5. CASE m = <<m[1], m[2]>> /\ Best("^b", s, m[1], m[2])
  <2>1. Matches("^b", s, m[1], m[2])
    BY <1>5 DEF Best
  <2>2. Len(s) >= 1 /\ m[1] = 0 /\ m[2] = 1 /\ s[1] = b
    BY <1>2, <2>1
  <2>3. m = <<0, 1>> /\ s # <<>>
    BY <1>1, <1>5, <2>2
  <2>4. QED  BY <2>2, <2>3 DEF m
<1>6. QED  BY <1>3, <1>4, <1>5

(* and "b$" one b at the end. *)
LEMMA LastOf ==
  ASSUME NEW C, NEW s \in Seq(C)
  PROVE  Regexec("b$", s) = IF s # <<>> /\ s[Len(s)] = b
                            THEN <<Len(s) - 1, Len(s)>> ELSE <<NPos, NPos>>
<1> DEFINE m == Regexec("b$", s)
           n == Len(s)
<1>1. n \in Nat /\ (s # <<>> <=> n >= 1)
  BY LenProperties, EmptySeq
<1>2. \A x, y : Matches("b$", s, x, y) <=> n >= 1 /\ x = n - 1 /\ y = n /\ s[n] = b
  <2>1. ASSUME NEW x, NEW y, Matches("b$", s, x, y)
        PROVE  n >= 1 /\ x = n - 1 /\ y = n /\ s[n] = b
    <3>1. x \in 0 .. Len(s) /\ y \in x .. Len(s) /\ Fits("b$", s, x, y)
      BY <2>1 DEF Matches
    <3>2. x = n - 1 /\ y = n /\ s[n] = b
      BY <3>1, FitsTied
    <3>3. QED  BY <1>1, <3>1, <3>2
  <2>2. ASSUME n >= 1, s[n] = b
        PROVE  Matches("b$", s, n - 1, n)
    <3>1. n - 1 \in 0 .. Len(s) /\ n \in n - 1 .. Len(s) /\ n \in 0 .. Len(s)
      BY <1>1, <2>2
    <3>2. Fits("b$", s, n - 1, n)
      BY <2>2, <3>1, FitsTied
    <3>3. QED  BY <3>1, <3>2 DEF Matches
  <2>3. QED  BY <2>1, <2>2
<1>3. \/ m = <<NPos, NPos>> /\ NoMatch("b$", s)
      \/ m = <<m[1], m[2]>> /\ Best("b$", s, m[1], m[2])
  BY <1>1, RegexecIs
<1> HIDE DEF m
<1>4. CASE NoMatch("b$", s) /\ m = <<NPos, NPos>>
  <2>1. ~(s # <<>> /\ s[Len(s)] = b)
    <3>1. ASSUME s # <<>>, s[Len(s)] = b
          PROVE  FALSE
      <4>1. Matches("b$", s, n - 1, n) /\ n - 1 \in 0 .. Len(s) /\ n \in 0 .. Len(s)
        BY <1>1, <1>2, <3>1
      <4>2. QED  BY <1>4, <4>1 DEF NoMatch
    <3>2. QED  BY <3>1
  <2>2. QED  BY <1>4, <2>1 DEF m
<1>5. CASE m = <<m[1], m[2]>> /\ Best("b$", s, m[1], m[2])
  <2>1. Matches("b$", s, m[1], m[2])
    BY <1>5 DEF Best
  <2>2. Len(s) >= 1 /\ m[1] = n - 1 /\ m[2] = n /\ s[Len(s)] = b
    BY <1>2, <2>1
  <2>3. m = <<n - 1, n>> /\ s # <<>>
    BY <1>1, <1>5, <2>2
  <2>4. QED  BY <2>2, <2>3 DEF m
<1>6. QED  BY <1>3, <1>4, <1>5

(* k[i] is what Without keeps of the first i characters of t. *)
Kept(k, t) ==
  k = [i \in 0 .. Len(t) |->
         IF i = 0 THEN <<>> ELSE IF t[i] = b THEN k[i - 1] ELSE Append(k[i - 1], t[i])]

Keeps(k, t) ==
  /\ k[0] = <<>> /\ Without(t) = k[Len(t)]
  /\ \A i \in 1 .. Len(t) : k[i] = IF t[i] = b THEN k[i - 1] ELSE Append(k[i - 1], t[i])

(* Without has one solution. *)
LEMMA KeptTexts ==
  ASSUME NEW C, NEW t \in Seq(C)
  PROVE  \E k \in [0 .. Len(t) -> Seq(C)] : Keeps(k, t)
<1> DEFINE m == Len(t)
           T == Seq(C)
           F == [i \in 1 .. m |-> [r \in T |-> IF t[i] = b THEN r ELSE Append(r, t[i])]]
<1>1. m \in Nat /\ \A i \in 1 .. m : t[i] \in C
  BY LenProperties, ElementOfSeq
<1>2. \A i \in 1 .. m, r \in T : F[i][r] \in T
  <2> SUFFICES ASSUME NEW i \in 1 .. m, NEW s \in T
               PROVE  (IF t[i] = b THEN s ELSE Append(s, t[i])) \in T
    OBVIOUS
  <2>1. Append(s, t[i]) \in T
    BY <1>1, AppendProperties
  <2>2. QED  BY <2>1
<1>3. <<>> \in T
  OBVIOUS
<1>4. PICK f : /\ f \in [0 .. m -> T] /\ f[0] = <<>>
               /\ \A i \in 1 .. m : f[i] = F[i][f[i - 1]]
  <2>1. PICK g : Iterates(g, m, T, <<>>, F)
    <3> HIDE DEF F, T, m
    <3>1. QED  BY <1>1, <1>2, <1>3, Iteration
  <2> DEFINE f == [i \in 0 .. m |-> g[i]]
  <2>2. \A i \in 1 .. m : i \in 0 .. m /\ i - 1 \in 0 .. m
    BY <1>1
  <2>3. f \in [0 .. m -> T] /\ f[0] = <<>> /\ \A i \in 1 .. m : f[i] = F[i][f[i - 1]]
    <3> HIDE DEF F, T, m
    <3>1. 0 \in 0 .. m
      BY <1>1 DEF m
    <3>2. QED  BY <2>1, <2>2, <3>1 DEF Iterates
  <2> HIDE DEF f, F, T, m
  <2>4. QED  BY <2>3
<1>5. \A i \in 1 .. m : f[i] = IF t[i] = b THEN f[i - 1] ELSE Append(f[i - 1], t[i])
  <2> SUFFICES ASSUME NEW i \in 1 .. m
               PROVE  f[i] = IF t[i] = b THEN f[i - 1] ELSE Append(f[i - 1], t[i])
    OBVIOUS
  <2>1. i - 1 \in 0 .. m
    BY <1>1
  <2>2. f[i - 1] \in T
    BY <1>4, <2>1
  <2>3. f[i] = F[i][f[i - 1]]
    BY <1>4
  <2> HIDE DEF T, m
  <2>4. QED  BY <2>2, <2>3
<1>6. Kept(f, t)
  <2> DEFINE c == [i \in 0 .. m |->
         IF i = 0 THEN <<>> ELSE IF t[i] = b THEN f[i - 1] ELSE Append(f[i - 1], t[i])]
  <2>1. \A n \in 0 .. m : f[n] = c[n]
    <3> SUFFICES ASSUME NEW n \in 0 .. m
                 PROVE  f[n] = IF n = 0 THEN <<>>
                               ELSE IF t[n] = b THEN f[n - 1] ELSE Append(f[n - 1], t[n])
      OBVIOUS
    <3>1. n = 0 \/ (n # 0 /\ n \in 1 .. m)
      BY <1>1
    <3> HIDE DEF F, T, m
    <3>2. QED  BY <1>4, <1>5, <3>1
  <2>2. f = c
    <3>1. f = [n \in 0 .. m |-> f[n]] /\ c = [n \in 0 .. m |-> c[n]]
      BY <1>4
    <3> HIDE DEF c
    <3>2. QED  BY <2>1, <3>1
  <2>3. QED  BY <2>2, Zenon DEF Kept
<1>7. \A g : Kept(g, t) => g = f
  <2> SUFFICES ASSUME NEW g, Kept(g, t)
               PROVE  g = f
    OBVIOUS
  <2> DEFINE S == {i \in 0 .. m : g[i] = f[i]}
  <2>1. /\ g = [n \in 0 .. m |-> g[n]] /\ g[0] = <<>>
        /\ \A i \in 1 .. m : g[i] = IF t[i] = b THEN g[i - 1] ELSE Append(g[i - 1], t[i])
    <3> DEFINE c == [i \in 0 .. m |->
         IF i = 0 THEN <<>> ELSE IF t[i] = b THEN g[i - 1] ELSE Append(g[i - 1], t[i])]
    <3>1. g = c
      BY Zenon DEF Kept
    <3>2. /\ c = [n \in 0 .. m |-> c[n]] /\ c[0] = <<>>
          /\ \A i \in 1 .. m : c[i] = IF t[i] = b THEN g[i - 1] ELSE Append(g[i - 1], t[i])
      <4>1. 0 \in 0 .. m /\ \A i \in 1 .. m : i \in 0 .. m /\ i # 0
        BY <1>1
      <4>2. \A i \in 0 .. m : c[i] = IF i = 0 THEN <<>>
                       ELSE IF t[i] = b THEN g[i - 1] ELSE Append(g[i - 1], t[i])
        OBVIOUS
      <4>3. c = [n \in 0 .. m |-> c[n]]
        OBVIOUS
      <4> HIDE DEF c, m, F, T
      <4>4. QED  BY <4>1, <4>2, <4>3
    <3> HIDE DEF c
    <3>3. QED  BY <3>1, <3>2
  <2>2. 0 \in S
    BY <1>1, <1>4, <2>1
  <2>3. ASSUME NEW i \in 0 .. m - 1, i \in S
        PROVE  i + 1 \in S
    <3>1. i + 1 \in 1 .. m /\ (i + 1) - 1 = i /\ i + 1 \in 0 .. m
      BY <1>1
    <3> HIDE DEF F, T, m
    <3>2. g[i] = f[i]
      BY <2>3
    <3>3. g[i + 1] = f[i + 1]
      <4> DEFINE k == i + 1
      <4>1. k \in 1 .. m /\ k - 1 = i
        BY <3>1
      <4> HIDE DEF k
      <4>2. g[k] = f[k]
        BY <1>5, <2>1, <3>2, <4>1
      <4>3. QED  BY <4>2 DEF k
    <3>4. QED  BY <3>1, <3>3
  <2>4. 0 .. m \subseteq S
    <3> HIDE DEF S
    <3>1. QED  BY <1>1, <2>2, <2>3, UpTo
  <2>5. f = [n \in 0 .. m |-> f[n]]
    BY <1>4
  <2>6. QED  BY <2>1, <2>4, <2>5
<1>8. Without(t) = f[m]
  <2> DEFINE R == CHOOSE g : Kept(g, t)
  <2>1. R = f
    BY <1>6, <1>7
  <2>2. Without(t) = R[Len(t)]
    BY Zenon DEF Without, Kept
  <2>3. QED  BY <2>1, <2>2
<1>9. Keeps(f, t)
  BY <1>4, <1>5, <1>8 DEF Keeps
<1>10. QED  BY <1>4, <1>9

(* What Without keeps of a prefix. *)
LEMMA WithoutPrefix ==
  ASSUME NEW C, NEW t \in Seq(C), NEW k, Keeps(k, t), NEW p \in 0 .. Len(t)
  PROVE  Without(SubSeq(t, 1, p)) = k[p]
<1> DEFINE u == SubSeq(t, 1, p)
<1>1. Len(t) \in Nat
  BY LenProperties
<1>2. u \in Seq(C) /\ Len(u) = p /\ \A i \in 1 .. p : u[i] = t[i]
  <2> DEFINE o == 0
  <2>1. o \in 0 .. Len(t) /\ p \in o .. Len(t) /\ o + 1 = 1
    BY <1>1
  <2> HIDE DEF o
  <2>2. /\ SubSeq(t, o + 1, p) \in Seq(C) /\ Len(SubSeq(t, o + 1, p)) = p - o
        /\ \A i \in 1 .. p - o : SubSeq(t, o + 1, p)[i] = t[o + i]
    BY <2>1, PartType
  <2>3. p - o = p /\ \A i \in 1 .. p : o + i = i
    BY <1>1 DEF o
  <2>4. QED  BY <2>1, <2>2, <2>3
<1>3. PICK h : Keeps(h, u)
  <2> HIDE DEF u
  <2>1. QED  BY <1>2, KeptTexts
<1> DEFINE S == {i \in 0 .. p : h[i] = k[i]}
<1> HIDE DEF u
<1>4. 0 \in S
  BY <1>1, <1>3 DEF Keeps
<1>5. ASSUME NEW i \in 0 .. p - 1, i \in S
      PROVE  i + 1 \in S
  <2> DEFINE j == i + 1
  <2>1. j \in 1 .. p /\ j - 1 = i /\ j \in 1 .. Len(t) /\ j \in 1 .. Len(u) /\ j \in 0 .. p
    BY <1>1, <1>2
  <2>2. h[i] = k[i] /\ u[j] = t[j]
    BY <1>2, <1>5, <2>1
  <2> HIDE DEF j
  <2>3. h[j] = k[j]
    BY <1>3, <2>1, <2>2 DEF Keeps
  <2>4. j \in S
    BY <2>1, <2>3
  <2>5. QED  BY <2>4 DEF j
<1>6. 0 .. p \subseteq S
  <2> HIDE DEF S
  <2>1. QED  BY <1>1, <1>4, <1>5, UpTo
<1>7. h[p] = k[p]
  <2>1. p \in 0 .. p
    BY <1>1
  <2>2. QED  BY <1>6, <2>1
<1>8. QED  BY <1>2, <1>3, <1>7 DEF Keeps, u

(* Three parts go together either way. *)
LEMMA Regroup ==
  ASSUME NEW C, NEW u \in Seq(C), NEW w \in Seq(C), NEW c \in C
  PROVE  Append(u \o w, c) = u \o (w \o <<c>>)
<1> DEFINE v == <<c>>
<1>1. v \in Seq(C)
  OBVIOUS
<1>2. Append(u \o w, c) = (u \o w) \o v
  BY ConcatProperties, AppendIsConcat
<1> HIDE DEF v
<1>3. (u \o w) \o v = u \o (w \o v)
  BY <1>1, ConcatAssociative
<1>4. QED  BY <1>2, <1>3 DEF v

(* A run of b adds nothing to it, a part without any b adds itself. *)
LEMMA WithoutParts ==
  ASSUME NEW C, NEW t \in Seq(C), NEW p \in 0 .. Len(t), NEW q \in p .. Len(t)
  PROVE  /\ Without(SubSeq(t, 1, p)) \in Seq(C)
         /\ AllB(t, p, q) => Without(SubSeq(t, 1, q)) = Without(SubSeq(t, 1, p))
         /\ (\A i \in p + 1 .. q : t[i] # b) =>
              Without(SubSeq(t, 1, q)) = Without(SubSeq(t, 1, p)) \o SubSeq(t, p + 1, q)
<1>1. Len(t) \in Nat /\ q \in 0 .. Len(t)
  BY LenProperties
<1>2. PICK k \in [0 .. Len(t) -> Seq(C)] : Keeps(k, t)
  BY KeptTexts
<1>3. \A j \in 0 .. Len(t) : Without(SubSeq(t, 1, j)) = k[j] /\ k[j] \in Seq(C)
  BY <1>2, WithoutPrefix
<1> DEFINE n == q - p
<1>4. n \in Nat /\ p + n = q
  BY <1>1
<1>5. ASSUME AllB(t, p, q)
      PROVE  k[q] = k[p]
  <2> DEFINE S == {j \in 0 .. n : k[p + j] = k[p]}
  <2>1. 0 \in S
    BY <1>1, <1>4
  <2>2. ASSUME NEW j \in 0 .. n - 1, j \in S
        PROVE  j + 1 \in S
    <3> DEFINE x == p + (j + 1)
    <3>1. x \in 1 .. Len(t) /\ x \in p + 1 .. q /\ x - 1 = p + j /\ j + 1 \in 0 .. n
      BY <1>1, <1>4
    <3> HIDE DEF x, n
    <3>2. k[x] = k[p + j] /\ k[p + j] = k[p]
      BY <1>2, <1>5, <2>2, <3>1 DEF Keeps, AllB
    <3>3. QED  BY <3>1, <3>2 DEF x
  <2>3. 0 .. n \subseteq S
    <3> HIDE DEF S, n
    <3>1. QED  BY <1>4, <2>1, <2>2, UpTo
  <2>4. n \in 0 .. n
    BY <1>4
  <2>5. n \in S
    <3> HIDE DEF S, n
    <3>1. QED  BY <2>3, <2>4
  <2>6. QED  BY <1>4, <2>5
<1>6. ASSUME \A i \in p + 1 .. q : t[i] # b
      PROVE  k[q] = k[p] \o SubSeq(t, p + 1, q)
  <2> DEFINE S == {j \in 0 .. n : k[p + j] = k[p] \o SubSeq(t, p + 1, p + j)}
  <2>1. 0 \in S
    <3>1. SubSeq(t, p + 1, p + 0) = <<>>
      <4>1. p + 1 \in Int /\ p + 0 \in Int /\ p + 0 < p + 1 /\ p + 0 = p
        BY <1>1
      <4> DEFINE a == p + 1
      <4>2. a \in Int /\ p < a /\ p \in Int
        BY <4>1
      <4> HIDE DEF a
      <4>3. SubSeq(t, a, p) = <<>>
        BY <4>2, SubSeqEmpty
      <4>4. QED  BY <4>1, <4>3 DEF a
    <3>2. k[p] \o <<>> = k[p]
      BY <1>3, ConcatEmptySeq
    <3>3. p + 0 = p /\ 0 \in 0 .. n
      BY <1>1, <1>4
    <3>4. QED  BY <3>1, <3>2, <3>3
  <2>2. ASSUME NEW j \in 0 .. n - 1, j \in S
        PROVE  j + 1 \in S
    <3> DEFINE x == p + (j + 1)
               a == p + 1
    <3>1. /\ x \in 1 .. Len(t) /\ x \in p + 1 .. q /\ x - 1 = p + j /\ j + 1 \in 0 .. n
          /\ a \in 1 .. Len(t) /\ x \in a .. Len(t) /\ p + j \in p .. Len(t)
      BY <1>1, <1>4
    <3>2. t[x] \in C
      BY <3>1, ElementOfSeq
    <3>3. SubSeq(t, p + 1, p + j) \in Seq(C)
      <4> DEFINE y == p + j
      <4>1. y \in p .. Len(t)
        BY <3>1
      <4> HIDE DEF y
      <4>2. SubSeq(t, p + 1, y) \in Seq(C)
        BY <4>1, PartType
      <4>3. QED  BY <4>2 DEF y
    <3>4. SubSeq(t, a, x) = SubSeq(t, a, x - 1) \o <<t[x]>>
      <4> HIDE DEF a, x
      <4>1. QED  BY <3>1, SubSeqRecursiveSecond
    <3> DEFINE w == SubSeq(t, p + 1, p + j)
    <3>5. w \in Seq(C) /\ SubSeq(t, p + 1, x) = w \o <<t[x]>>
      <4> HIDE DEF x
      <4>1. QED  BY <3>1, <3>3, <3>4
    <3>6. k[p + j] = k[p] \o w
      BY <2>2
    <3> HIDE DEF x, n, w
    <3>7. k[x] = Append(k[p + j], t[x])
      BY <1>2, <1>6, <3>1 DEF Keeps
    <3>8. k[p] \in Seq(C) /\ <<t[x]>> \in Seq(C) /\ k[p] \o w \in Seq(C)
      <4>1. k[p] \in Seq(C)
        BY <1>3
      <4>2. QED  BY <3>2, <3>5, <4>1, ConcatProperties
    <3>9. Append(k[p] \o w, t[x]) = k[p] \o (w \o <<t[x]>>)
      <4> DEFINE u == k[p]
                 c == t[x]
      <4>1. c \in C /\ u \in Seq(C) /\ w \in Seq(C)
        BY <3>2, <3>5, <3>8
      <4> HIDE DEF c, u
      <4>2. Append(u \o w, c) = u \o (w \o <<c>>)
        BY <4>1, Regroup
      <4>3. QED  BY <4>2 DEF c, u
    <3>10. k[x] = k[p] \o SubSeq(t, p + 1, x)
      BY <3>5, <3>6, <3>7, <3>9
    <3>11. QED  BY <3>1, <3>10 DEF x
  <2>3. 0 .. n \subseteq S
    <3> HIDE DEF S, n
    <3>1. QED  BY <1>4, <2>1, <2>2, UpTo
  <2>4. n \in 0 .. n
    BY <1>4
  <2>5. n \in S
    <3> HIDE DEF S, n
    <3>1. QED  BY <2>3, <2>4
  <2>6. QED  BY <1>4, <2>5
<1>7. QED  BY <1>1, <1>3, <1>5, <1>6

-----------------------------------------------------------------------------
(* The edges up to the end of the next run: one more. *)
Edges(t, p) == {i \in 1 .. p : Edge(t, i)}

(* MISSING *)
LEMMA NextEdge ==
  ASSUME NEW t, NEW p \in Nat, NEW q \in Nat, p <= q, NEW e \in Nat, q < e,
         \A i \in p + 1 .. q : t[i] # b, AllB(t, q, e), p = 0 \/ t[p + 1] # b
  PROVE  /\ Edges(t, e) = Edges(t, p) \cup {q + 1}
         /\ Cardinality(Edges(t, e)) = Cardinality(Edges(t, p)) + 1
<1>1. ASSUME NEW i \in 1 .. e
      PROVE  Edge(t, i) <=> i = q + 1 \/ (i <= p /\ Edge(t, i))
  <2>1. CASE i <= p
    BY <2>1
  <2>2. CASE i \in p + 1 .. q
    BY <2>2 DEF Edge
  <2>3. CASE i = q + 1
    <3>1. t[i] = b
      BY <2>3 DEF AllB
    <3>2. i = 1 \/ t[i - 1] # b
      <4>1. CASE p = q
        <5>1. p + 1 = i
          BY <2>3, <4>1
        <5>2. p = 0
          BY <3>1, <5>1
        <5>3. QED  BY <2>3, <4>1, <5>2
      <4>2. CASE p < q
        <5>1. i - 1 \in p + 1 .. q
          BY <2>3, <4>2
        <5>2. QED  BY <5>1
      <4>3. QED  BY <4>1, <4>2
    <3>3. QED  BY <2>3, <3>1, <3>2 DEF Edge
  <2>4. CASE i > q + 1
    <3>1. i - 1 \in q + 1 .. e /\ i # 1 /\ ~(i <= p) /\ i # q + 1
      BY <2>4
    <3>2. t[i - 1] = b
      BY <3>1 DEF AllB
    <3>3. QED  BY <3>1, <3>2 DEF Edge
  <2>5. QED  BY <2>1, <2>2, <2>3, <2>4
<1>2. Edges(t, e) = Edges(t, p) \cup {q + 1}
  <2>1. \A i : i \in 1 .. e /\ i <= p <=> i \in 1 .. p
    OBVIOUS
  <2>2. q + 1 \in 1 .. e
    OBVIOUS
  <2>3. QED  BY <1>1, <2>1, <2>2 DEF Edges
<1>3. q + 1 \notin Edges(t, p)
  BY DEF Edges
<1>4. IsFiniteSet(Edges(t, p))
  <2>1. 1 \in Int /\ p \in Int
    OBVIOUS
  <2>2. IsFiniteSet(1 .. p)
    BY <2>1, FS_Interval
  <2>3. Edges(t, p) \subseteq 1 .. p
    BY DEF Edges
  <2>4. QED  BY <2>2, <2>3, FS_Subset
<1>5. Cardinality(Edges(t, p) \cup {q + 1}) = Cardinality(Edges(t, p)) + 1
  BY <1>3, <1>4, FS_AddElement
<1>6. QED  BY <1>2, <1>5

(* split and replace: the text is cut as far as p. *)
Cuts(tokens, by, t, p) ==
  /\ Glued(tokens, by, t, p)
  /\ \A i \in DOMAIN tokens : Find(tokens[i] \o by, by, 0) = Len(tokens[i])

(* One more token, *)
LEMMA CutToken ==
  ASSUME NEW C, NEW t \in Seq(C), NEW by \in Seq(C), by # <<>>, NEW tokens \in Seq(Seq(C)),
         NEW p \in 0 .. Len(t), Cuts(tokens, by, t, p), NEW q, FoundAt(t, by, p, q)
  PROVE  /\ Append(tokens, SubSeq(t, p + 1, q)) \in Seq(Seq(C))
         /\ q + Len(by) \in 0 .. Len(t)
         /\ Cuts(Append(tokens, SubSeq(t, p + 1, q)), by, t, q + Len(by))
<1> DEFINE w == SubSeq(t, p + 1, q)
           o == Append(tokens, w)
<1>1. Len(t) \in Nat /\ Len(by) \in Nat
  BY LenProperties
<1>2. q \in p .. Len(t) /\ q + Len(by) <= Len(t) /\ SubSeq(t, q + 1, q + Len(by)) = by
  BY <1>1 DEF FoundAt, Stands
<1>3. w \in Seq(C)
  BY <1>2, PartType
<1>4. Glued(o, by, t, q + Len(by))
  BY <1>2, GluedToken DEF Cuts
<1>5. Find(w \o by, by, 0) = Len(w)
  BY TokenCut
<1> HIDE DEF w
<1>6. /\ o \in Seq(Seq(C)) /\ Len(o) = Len(tokens) + 1 /\ o[Len(tokens) + 1] = w
      /\ \A i \in 1 .. Len(tokens) : o[i] = tokens[i]
  BY <1>3, AppendProperties
<1>7. DOMAIN o = 1 .. Len(o) /\ DOMAIN tokens = 1 .. Len(tokens) /\ Len(tokens) \in Nat
  BY <1>6, LenProperties
<1> HIDE DEF o
<1>8. \A i \in DOMAIN o : i \in DOMAIN tokens \/ i = Len(tokens) + 1
  BY <1>6, <1>7
<1>9. \A i \in DOMAIN o : Find(o[i] \o by, by, 0) = Len(o[i])
  BY <1>5, <1>6, <1>7, <1>8 DEF Cuts
<1>10. q + Len(by) \in 0 .. Len(t)
  BY <1>1, <1>2
<1>11. QED  BY <1>4, <1>6, <1>9, <1>10 DEF Cuts, o, w

(* A sequence with one more. *)
LEMMA LastToken ==
  ASSUME NEW T, NEW tokens \in Seq(T), NEW w \in T
  PROVE  /\ Append(tokens, w) \in Seq(T) /\ Len(Append(tokens, w)) = Len(tokens) + 1
         /\ Last(Append(tokens, w)) = w
         /\ \A i \in 1 .. Len(tokens) : Append(tokens, w)[i] = tokens[i]
         /\ Append(tokens, w)[Len(tokens) + 1] = w
         /\ Len(tokens) \in Nat /\ DOMAIN tokens = 1 .. Len(tokens)
BY AppendProperties, LenProperties DEF Last

(* and the rest. *)
LEMMA CutLast ==
  ASSUME NEW C, NEW t \in Seq(C), NEW by \in Seq(C), by # <<>>, NEW tokens \in Seq(Seq(C)),
         NEW p \in 0 .. Len(t), Cuts(tokens, by, t, p), FoundNone(t, by, p)
  PROVE  CutAt(t, by, Append(tokens, SubSeq(t, p + 1, Len(t))))
<1> DEFINE w == SubSeq(t, p + 1, Len(t))
           o == Append(tokens, w)
<1>1. Len(t) \in Nat /\ Len(t) \in p .. Len(t)
  BY LenProperties
<1>2. w \in Seq(C)
  BY <1>1, PartType
<1>3. Join(o, by) = t
  <2> DEFINE e == Len(t)
  <2>1. e \in p .. Len(t) /\ SubSeq(t, 1, e) = t
    BY <1>1, SubSeqFull
  <2> HIDE DEF e
  <2>2. Join(Append(tokens, SubSeq(t, p + 1, e)), by) = SubSeq(t, 1, e)
    BY <2>1, GluedEnd DEF Cuts
  <2>3. QED  BY <2>1, <2>2 DEF e
<1>4. Find(w, by, 0) = NPos
  BY LastCut
<1> HIDE DEF w
<1>5. /\ Len(o) = Len(tokens) + 1 /\ Last(o) = w /\ \A i \in 1 .. Len(tokens) : o[i] = tokens[i]
      /\ Len(tokens) \in Nat /\ DOMAIN tokens = 1 .. Len(tokens)
  BY <1>2, LastToken
<1> HIDE DEF o
<1>6. \A i \in 1 .. Len(o) - 1 : Find(o[i] \o by, by, 0) = Len(o[i])
  <2>1. \A i \in 1 .. Len(o) - 1 : i \in 1 .. Len(tokens)
    BY <1>5
  <2>2. QED  BY <1>5, <2>1 DEF Cuts
<1>7. QED  BY <1>3, <1>4, <1>5, <1>6 DEF CutAt, o, w

-----------------------------------------------------------------------------
(* regex_c with "bb*": p is behind a whole run of b. *)
Runs(tokens, t, p) ==
  /\ Join(tokens, <<>>) = Without(SubSeq(t, 1, p))
  /\ Len(tokens) = Cardinality(Edges(t, p))
  /\ \A i \in 2 .. Len(tokens) : tokens[i] # <<>>
  /\ p = 0 \/ p = Len(t) \/ t[p + 1] # b
  /\ tokens = <<>> <=> p = 0

(* join without a delimiter. *)
LEMMA JoinPlain ==
  ASSUME NEW C, NEW tokens \in Seq(Seq(C)), NEW w \in Seq(C)
  PROVE  Join(Append(tokens, w), <<>>) = Join(tokens, <<>>) \o w
<1> DEFINE e == <<>>
<1>1. e \in Seq(C)
  OBVIOUS
<1> HIDE DEF e
<1>2. Join(tokens, e) \in Seq(C) /\ (tokens = <<>> => Join(tokens, e) = <<>>)
  BY <1>1, JoinType
<1>3. Join(Append(tokens, w), e) = Longer(tokens, e, w)
  BY <1>1, JoinAppend
<1>4. <<>> \o w = w
  BY ConcatEmptySeq
<1>5. Join(tokens, e) \o e = Join(tokens, e)
  BY <1>2, ConcatEmptySeq DEF e
<1>6. CASE tokens = <<>>
  BY <1>2, <1>3, <1>4, <1>6 DEF Longer, e
<1>7. CASE tokens # <<>>
  BY <1>3, <1>5, <1>7 DEF Longer, e
<1>8. QED  BY <1>6, <1>7

(* One more piece, up to the next run, *)
LEMMA RunToken ==
  ASSUME NEW C, NEW t \in Seq(C), NEW tokens \in Seq(Seq(C)), NEW p \in 0 .. Len(t),
         Runs(tokens, t, p), NEW so, NEW eo, FirstRun(SubSeq(t, p + 1, Len(t)), so, eo)
  PROVE  /\ Append(tokens, SubSeq(t, p + 1, p + so)) \in Seq(Seq(C))
         /\ p + eo \in 0 .. Len(t)
         /\ Runs(Append(tokens, SubSeq(t, p + 1, p + so)), t, p + eo)
<1> DEFINE s == SubSeq(t, p + 1, Len(t))
           q == p + so
           e == p + eo
           w == SubSeq(t, p + 1, q)
           o == Append(tokens, w)
<1>1. Len(t) \in Nat /\ Len(t) \in p .. Len(t)
  BY LenProperties
<1>2. Len(s) = Len(t) - p /\ \A i \in 1 .. Len(t) - p : s[i] = t[p + i]
  BY <1>1, PartType
<1>3. /\ so \in Nat /\ eo \in so + 1 .. Len(s) /\ AllB(s, so, eo)
      /\ \A i \in 1 .. so : s[i] # b
      /\ eo = Len(s) \/ s[eo + 1] # b
  BY DEF FirstRun
<1> HIDE DEF s
<1>4. /\ q \in p .. Len(t) /\ e \in q .. Len(t) /\ q < e /\ q \in Nat /\ e \in Nat /\ q <= e
      /\ q - p = so /\ e - p = eo /\ q \in 0 .. Len(t) /\ e \in 0 .. Len(t) /\ p <= q /\ e # 0
  BY <1>1, <1>2, <1>3
<1>5. \A i \in p + 1 .. q : t[i] # b
  <2> SUFFICES ASSUME NEW i \in p + 1 .. q
               PROVE  t[i] # b
    OBVIOUS
  <2>1. i - p \in 1 .. so /\ i - p \in 1 .. Len(t) - p /\ p + (i - p) = i
    BY <1>1, <1>4
  <2>2. s[i - p] = t[p + (i - p)] /\ s[i - p] # b
    BY <1>2, <1>3, <2>1
  <2>3. QED  BY <2>1, <2>2
<1>6. AllB(t, q, e)
  <2> SUFFICES ASSUME NEW i \in q + 1 .. e
               PROVE  t[i] = b
    BY DEF AllB
  <2>1. i - p \in so + 1 .. eo /\ i - p \in 1 .. Len(t) - p /\ p + (i - p) = i
    BY <1>1, <1>4
  <2>2. s[i - p] = t[p + (i - p)] /\ s[i - p] = b
    BY <1>2, <1>3, <2>1 DEF AllB
  <2>3. QED  BY <2>1, <2>2
<1>7. e = Len(t) \/ t[e + 1] # b
  <2>1. ASSUME e # Len(t)
        PROVE  t[e + 1] # b
    <3>1. eo + 1 \in 1 .. Len(t) - p /\ eo # Len(s) /\ p + (eo + 1) = e + 1
      <4> DEFINE l == Len(t)
                 k == Len(s)
      <4>1. l \in Nat /\ p \in 0 .. l /\ k = l - p /\ eo \in 1 .. k /\ p + eo # l
        BY <1>1, <1>2, <1>3, <2>1
      <4> HIDE DEF l, k
      <4>2. eo + 1 \in 1 .. l - p /\ eo # k /\ p + (eo + 1) = (p + eo) + 1
        BY <4>1
      <4>3. QED  BY <4>2 DEF l, k
    <3>2. s[eo + 1] = t[p + (eo + 1)] /\ s[eo + 1] # b
      BY <1>2, <1>3, <3>1
    <3>3. QED  BY <3>1, <3>2
  <2>2. QED  BY <2>1
<1>8. p = 0 \/ t[p + 1] # b
  <2>1. p # Len(t)
    BY <1>1, <1>4
  <2>2. QED  BY <2>1 DEF Runs
<1>9. w \in Seq(C) /\ (q # p => w # <<>>)
  <2> HIDE DEF q
  <2>1. w \in Seq(C) /\ Len(w) = q - p
    BY <1>4, PartType
  <2>2. q # p => Len(w) # 0
    BY <1>1, <1>4, <2>1
  <2> HIDE DEF w
  <2>3. Len(<<>>) = 0
    OBVIOUS
  <2>4. QED  BY <2>1, <2>2, <2>3
<1> HIDE DEF q, e
<1>10. Without(SubSeq(t, 1, e)) = Without(SubSeq(t, 1, p)) \o w
  <2>1. Without(SubSeq(t, 1, q)) = Without(SubSeq(t, 1, p)) \o w
    BY <1>4, <1>5, WithoutParts
  <2>2. Without(SubSeq(t, 1, e)) = Without(SubSeq(t, 1, q))
    BY <1>4, <1>6, WithoutParts
  <2>3. QED  BY <2>1, <2>2
<1>11. Cardinality(Edges(t, e)) = Cardinality(Edges(t, p)) + 1
  <2>1. p \in Nat
    BY <1>1
  <2>2. QED  BY <1>4, <1>5, <1>6, <1>8, <2>1, NextEdge
<1> HIDE DEF w
<1>12. Join(o, <<>>) = Join(tokens, <<>>) \o w
  BY <1>9, JoinPlain
<1>13. /\ o \in Seq(Seq(C)) /\ Len(o) = Len(tokens) + 1 /\ o[Len(tokens) + 1] = w
       /\ \A i \in 1 .. Len(tokens) : o[i] = tokens[i]
       /\ Len(tokens) \in Nat /\ o # <<>>
  BY <1>9, LastToken, AppendProperties
<1> HIDE DEF o
<1>14. \A i \in 2 .. Len(o) : o[i] # <<>>
  <2> SUFFICES ASSUME NEW i \in 2 .. Len(o)
               PROVE  o[i] # <<>>
    OBVIOUS
  <2>1. CASE i \in 2 .. Len(tokens)
    <3>1. i \in 1 .. Len(tokens)
      BY <2>1
    <3>2. QED  BY <1>13, <2>1, <3>1 DEF Runs
  <2>2. CASE i = Len(tokens) + 1
    <3>1. Len(tokens) # 0
      BY <1>13, <2>2
    <3>2. tokens # <<>>
      <4>1. Len(<<>>) = 0
        OBVIOUS
      <4>2. QED  BY <3>1, <4>1
    <3>3. p # 0 /\ t[p + 1] # b
      BY <1>8, <3>2 DEF Runs
    <3>4. p + 1 \in q + 1 .. e => t[p + 1] = b
      BY <1>6 DEF AllB
    <3>5. q # p
      BY <1>1, <1>4, <3>3, <3>4
    <3>6. QED  BY <1>9, <1>13, <2>2, <3>5
  <2>3. QED  BY <1>13, <2>1, <2>2
<1>15. Runs(o, t, e)
  BY <1>4, <1>7, <1>10, <1>11, <1>12, <1>13, <1>14 DEF Runs
<1>16. QED  BY <1>4, <1>13, <1>15 DEF o, w, q, e

(* and the rest, without any b. *)
LEMMA RunLast ==
  ASSUME NEW C, NEW t \in Seq(C), NEW tokens \in Seq(Seq(C)), NEW p \in 0 .. Len(t),
         Runs(tokens, t, p),
         \A i \in 1 .. Len(SubSeq(t, p + 1, Len(t))) : SubSeq(t, p + 1, Len(t))[i] # b
  PROVE  CutAtRuns(t, Append(tokens, SubSeq(t, p + 1, Len(t))))
<1> DEFINE e == Len(t)
           s == SubSeq(t, p + 1, e)
           o == Append(tokens, s)
<1>1. e \in Nat /\ e \in p .. Len(t) /\ SubSeq(t, 1, e) = t /\ DOMAIN t = 1 .. e
  BY LenProperties, SubSeqFull
<1>2. s \in Seq(C) /\ Len(s) = e - p /\ \A i \in 1 .. e - p : s[i] = t[p + i]
  <2> HIDE DEF e
  <2>1. QED  BY <1>1, PartType
<1>3. \A i \in p + 1 .. e : t[i] # b
  <2> SUFFICES ASSUME NEW i \in p + 1 .. e
               PROVE  t[i] # b
    OBVIOUS
  <2>1. i - p \in 1 .. e - p /\ p + (i - p) = i
    BY <1>1
  <2>2. s[i - p] # b /\ s[i - p] = t[p + (i - p)]
    BY <1>2, <2>1
  <2> HIDE DEF s, e
  <2>3. QED  BY <2>1, <2>2
<1>4. Without(SubSeq(t, 1, e)) = Without(SubSeq(t, 1, p)) \o s
  <2> HIDE DEF e
  <2>1. QED  BY <1>1, <1>3, WithoutParts
<1>5. {i \in DOMAIN t : Edge(t, i)} = Edges(t, p)
  <2>1. \A i \in 1 .. e : i \in 1 .. p \/ i \in p + 1 .. e
    OBVIOUS
  <2>2. \A i \in 1 .. p : i \in 1 .. e
    BY <1>1
  <2> HIDE DEF e
  <2>3. QED  BY <1>1, <1>3, <2>1, <2>2 DEF Edges, Edge
<1> HIDE DEF s
<1>6. Join(o, <<>>) = Join(tokens, <<>>) \o s
  BY <1>2, JoinPlain
<1>7. /\ Len(o) = Len(tokens) + 1 /\ \A i \in 1 .. Len(tokens) : o[i] = tokens[i]
      /\ Len(tokens) \in Nat
  BY <1>2, LastToken
<1> HIDE DEF o
<1>8. \A i \in 2 .. Len(o) - 1 : o[i] # <<>>
  <2>1. \A i \in 2 .. Len(o) - 1 : i \in 1 .. Len(tokens) /\ i \in 2 .. Len(tokens)
    BY <1>7
  <2>2. QED  BY <1>7, <2>1 DEF Runs
<1>9. QED  BY <1>1, <1>4, <1>5, <1>6, <1>7, <1>8 DEF CutAtRuns, Runs, o, s

(* "^b": every character so far was a b, and matched. *)
Firsts(tokens, t, p) == Len(tokens) = p /\ \A i \in 1 .. p : tokens[i] = <<>> /\ t[i] = b

(* One more match of "^b", *)
LEMMA FirstToken ==
  ASSUME NEW C, NEW t \in Seq(C), NEW tokens \in Seq(Seq(C)), NEW p \in 0 .. Len(t),
         Firsts(tokens, t, p), p # Len(t), t[p + 1] = b
  PROVE  /\ Append(tokens, <<>>) \in Seq(Seq(C)) /\ p + 1 \in 0 .. Len(t)
         /\ Firsts(Append(tokens, <<>>), t, p + 1)
<1> DEFINE w == <<>>
           o == Append(tokens, w)
<1>1. Len(t) \in Nat /\ w \in Seq(C)
  BY LenProperties
<1> HIDE DEF w
<1>2. /\ o \in Seq(Seq(C)) /\ Len(o) = Len(tokens) + 1 /\ o[Len(tokens) + 1] = w
      /\ \A i \in 1 .. Len(tokens) : o[i] = tokens[i]
  BY <1>1, LastToken
<1> HIDE DEF o
<1>3. Len(tokens) = p /\ \A i \in 1 .. p + 1 : i \in 1 .. p \/ i = p + 1
  BY <1>1 DEF Firsts
<1>4. Firsts(o, t, p + 1)
  BY <1>2, <1>3 DEF Firsts, w
<1>5. p + 1 \in 0 .. Len(t)
  BY <1>1
<1>6. QED  BY <1>2, <1>4, <1>5 DEF o, w

(* Sequences of one and two tokens. *)
LEMMA TokenPair ==
  ASSUME NEW C, NEW v \in Seq(C), NEW w \in Seq(C)
  PROVE  /\ <<v>> \in Seq(Seq(C)) /\ Append(<<>>, w) = <<w>> /\ Append(<<v>>, w) = <<v, w>>
         /\ Join(<<w>>, <<>>) = w
<1>1. <<v>> \in Seq(Seq(C)) /\ Append(<<>>, w) = <<w>> /\ Append(<<v>>, w) = <<v, w>>
  <2>1. <<v>> \in Seq(Seq(C)) /\ Append(<<>>, w) = <<w>>
    OBVIOUS
  <2> DEFINE T == Seq(C)
             x == Append(<<v>>, w)
             y == <<v, w>>
  <2>2. v \in T /\ w \in T
    OBVIOUS
  <2> HIDE DEF T
  <2>3. x \in Seq(T) /\ y \in Seq(T) /\ Len(x) = 2 /\ Len(y) = 2
    BY <2>2
  <2>4. (\A i \in 1 .. 1 : x[i] = <<v>>[i]) /\ x[2] = w /\ <<v>>[1] = v /\ y[1] = v /\ y[2] = w
    BY <2>2
  <2> HIDE DEF x, y
  <2>5. x[1] = y[1] /\ x[2] = y[2] /\ \A i \in 1 .. Len(x) : i = 1 \/ i = 2
    BY <2>3, <2>4
  <2>6. x = y
    BY <2>3, <2>5, SeqEqual
  <2>7. QED  BY <2>1, <2>6 DEF x, y
<1>2. Join(Append(<<>>, w), <<>>) = w
  <2>1. <<>> \in Seq(Seq(C)) /\ <<>> \in Seq(C)
    OBVIOUS
  <2> DEFINE e == <<>>
  <2>2. e \in Seq(Seq(C)) /\ e \in Seq(C) /\ e = <<>>
    BY <2>1
  <2> HIDE DEF e
  <2>3. Join(Append(e, w), e) = Longer(e, e, w)
    BY <2>2, JoinAppend
  <2>4. QED  BY <2>2, <2>3 DEF Longer
<1>3. QED  BY <1>1, <1>2

(* and the rest.  Only a second b in front makes it cut more than once. *)
LEMMA FirstLast ==
  ASSUME NEW C, NEW t \in Seq(C), NEW tokens \in Seq(Seq(C)), NEW p \in 0 .. Len(t),
         Firsts(tokens, t, p), p = Len(t) \/ t[p + 1] # b
  PROVE  Append(tokens, SubSeq(t, p + 1, Len(t))) = CutOnce("^b", t)
           <=> ~(Len(t) > 1 /\ t[1] = b /\ t[2] = b)
<1> DEFINE e == Len(t)
           w == SubSeq(t, p + 1, e)
           o == Append(tokens, w)
<1>1. e \in Nat /\ (t # <<>> <=> e >= 1) /\ e \in p .. Len(t)
  BY LenProperties, EmptySeq
<1>0. SubSeq(t, 1, e) = t
  BY SubSeqFull
<1>2. w \in Seq(C)
  <2> HIDE DEF e
  <2>1. QED  BY <1>1, PartType
<1>3. Len(o) = Len(tokens) + 1 /\ Len(tokens) = p
  <2> HIDE DEF w
  <2>1. QED  BY <1>2, LastToken DEF Firsts
<1>4. CASE p = 0
  <2>1. tokens = <<>>
    BY <1>3, <1>4, EmptySeq
  <2>2. w = t
    <3>1. p + 1 = 1
      BY <1>4
    <3> HIDE DEF e
    <3>2. QED  BY <1>0, <3>1
  <2>3. o = <<t>>
    BY <2>1, <2>2
  <2>4. t = <<>> \/ t[1] # b
    BY <1>1, <1>4
  <2>5. CutOnce("^b", t) = <<t>>
    BY <2>4 DEF CutOnce
  <2>6. ~(Len(t) > 1 /\ t[1] = b /\ t[2] = b)
    BY <1>1, <2>4
  <2>7. QED  BY <2>3, <2>5, <2>6
<1>5. CASE p = 1
  <2>1. tokens = <<<<>>>>
    <3>1. Len(tokens) = 1 /\ 1 \in 1 .. p
      BY <1>3, <1>5
    <3>2. tokens[1] = <<>>
      BY <3>1 DEF Firsts
    <3>3. <<<<>>>> \in Seq(Seq(C)) /\ Len(<<<<>>>>) = 1 /\ <<<<>>>>[1] = <<>>
      OBVIOUS
    <3>4. \A i \in 1 .. Len(tokens) : i = 1
      BY <3>1
    <3> DEFINE v == <<<<>>>>
    <3>5. v \in Seq(Seq(C)) /\ Len(tokens) = Len(v) /\ \A i \in 1 .. Len(tokens) : tokens[i] = v[i]
      BY <3>1, <3>2, <3>3, <3>4
    <3> HIDE DEF v
    <3>6. tokens = v
      BY <3>5, SeqEqual
    <3>7. QED  BY <3>6 DEF v
  <2>2. t # <<>> /\ t[1] = b /\ e >= 1
    BY <1>1, <1>5 DEF Firsts
  <2>3. w = Tail(t)
    <3>1. Tail(t) = SubSeq(t, 2, Len(t))
      BY <2>2, TailIsSubSeq
    <3>2. p + 1 = 2
      BY <1>5
    <3>3. QED  BY <3>1, <3>2
  <2>4. o = <<<<>>, Tail(t)>>
    <3>1. o = Append(<<<<>>>>, Tail(t))
      BY <2>1, <2>3
    <3>2. <<>> \in Seq(C) /\ Tail(t) \in Seq(C)
      BY <2>2, HeadTailProperties
    <3> DEFINE v == <<>>
    <3>3. v \in Seq(C)
      BY <3>2
    <3> HIDE DEF v
    <3>4. Append(<<v>>, Tail(t)) = <<v, Tail(t)>>
      BY <3>2, <3>3, TokenPair
    <3>5. QED  BY <3>1, <3>4 DEF v
  <2>5. CutOnce("^b", t) = <<<<>>, Tail(t)>>
    BY <2>2 DEF CutOnce
  <2>6. ~(Len(t) > 1 /\ t[1] = b /\ t[2] = b)
    <3>1. p = Len(t) \/ t[2] # b
      <4>1. p + 1 = 2
        BY <1>5
      <4>2. QED  BY <4>1
    <3>2. QED  BY <1>1, <1>5, <3>1
  <2>7. QED  BY <2>4, <2>5, <2>6
<1>6. CASE p >= 2
  <2>1. Len(t) > 1 /\ t[1] = b /\ t[2] = b
    <3>1. 1 \in 1 .. p /\ 2 \in 1 .. p /\ Len(t) > 1
      <4> HIDE DEF o, w
      <4>1. QED  BY <1>1, <1>6
    <3>2. QED  BY <3>1 DEF Firsts
  <2>2. Len(o) > 2
    BY <1>3, <1>6
  <2>3. t # <<>>
    <3> HIDE DEF o, w
    <3>1. QED  BY <1>1, <2>1
  <2>4. CutOnce("^b", t) = <<<<>>, Tail(t)>>
    BY <2>1, <2>3 DEF CutOnce
  <2>5. Len(<<<<>>, Tail(t)>>) = 2
    OBVIOUS
  <2>6. o # CutOnce("^b", t)
    <3>1. o = CutOnce("^b", t) => Len(o) = 2
      BY <2>4, <2>5, Zenon
    <3>2. ~(2 > 2)
      OBVIOUS
    <3>3. QED  BY <2>2, <3>1, <3>2, Zenon
  <2>7. QED  BY <2>1, <2>6
<1>7. p = 0 \/ p = 1 \/ p >= 2
  <2> HIDE DEF o, w
  <2>1. QED  BY <1>1
<1>8. QED  BY <1>4, <1>5, <1>6, <1>7

-----------------------------------------------------------------------------
(* "b$": it is tried once, and once more behind the end. *)
Lasts(tokens, t, p) ==
  \/ p = 0 /\ tokens = <<>>
  \/ p = Len(t) /\ t # <<>> /\ Last(t) = b /\ tokens = <<Front(t)>>

(* The match of "b$", *)
LEMMA LastMatch ==
  ASSUME NEW C, NEW t \in Seq(C), t # <<>>, t[Len(t)] = b
  PROVE  /\ Front(t) \in Seq(C) /\ <<Front(t)>> \in Seq(Seq(C)) /\ Lasts(<<Front(t)>>, t, Len(t))
         /\ Append(<<>>, SubSeq(t, 1, Len(t) - 1)) = <<Front(t)>>
<1> DEFINE q == Len(t) - 1
           o == 0
<1>1. q \in 0 .. Len(t) /\ o \in 0 .. Len(t) /\ q \in o .. Len(t) /\ o + 1 = 1
  BY LenProperties, EmptySeq
<1> HIDE DEF q, o
<1>2. SubSeq(t, o + 1, q) \in Seq(C)
  BY <1>1, PartType
<1>3. Front(t) = SubSeq(t, 1, q)
  BY DEF Front, q
<1>4. Front(t) \in Seq(C)
  BY <1>1, <1>2, <1>3
<1>5. <<Front(t)>> \in Seq(Seq(C)) /\ Append(<<>>, Front(t)) = <<Front(t)>>
  BY <1>4, TokenPair
<1>6. QED  BY <1>3, <1>4, <1>5 DEF Lasts, Last, q

(* and what is left behind it or without it. *)
LEMMA LastLast ==
  ASSUME NEW C, NEW t \in Seq(C), NEW tokens \in Seq(Seq(C)), NEW p \in 0 .. Len(t),
         Lasts(tokens, t, p), p = Len(t) \/ t[Len(t)] # b
  PROVE  Append(tokens, SubSeq(t, p + 1, Len(t))) = CutOnce("b$", t)
<1> DEFINE e == Len(t)
<1>1. e \in Nat /\ (t # <<>> <=> e >= 1) /\ e \in p .. Len(t) /\ SubSeq(t, 1, e) = t
  BY LenProperties, EmptySeq, SubSeqFull
<1>2. CASE p = 0 /\ tokens = <<>>
  <2>1. SubSeq(t, p + 1, e) = t
    <3>1. p + 1 = 1
      BY <1>2
    <3> HIDE DEF e
    <3>2. QED  BY <1>1, <3>1
  <2>2. Append(tokens, t) = <<t>>
    BY <1>2
  <2>3. ~(t # <<>> /\ Last(t) = b)
    BY <1>1, <1>2 DEF Last
  <2>4. CutOnce("b$", t) = <<t>>
    BY <2>3 DEF CutOnce
  <2>5. QED  BY <2>1, <2>2, <2>4
<1>3. CASE p = Len(t) /\ t # <<>> /\ Last(t) = b /\ tokens = <<Front(t)>>
  <2>1. SubSeq(t, p + 1, e) = <<>>
    <3> DEFINE a == p + 1
    <3>1. a \in Int /\ e \in Int /\ e < a
      BY <1>1, <1>3
    <3> HIDE DEF a, e
    <3>2. SubSeq(t, a, e) = <<>>
      BY <3>1, SubSeqEmpty
    <3>3. QED  BY <3>2 DEF a
  <2>2. Append(<<Front(t)>>, <<>>) = <<Front(t), <<>>>>
    <3>1. Front(t) \in Seq(C)
      BY <1>3, LastMatch, TokenPair DEF Last
    <3> DEFINE v == <<>>
    <3>2. v \in Seq(C)
      OBVIOUS
    <3> HIDE DEF v
    <3>3. Append(<<Front(t)>>, v) = <<Front(t), v>>
      BY <3>1, <3>2, TokenPair
    <3>4. QED  BY <3>3 DEF v
  <2>3. CutOnce("b$", t) = <<Front(t), <<>>>>
    BY <1>3 DEF CutOnce
  <2> HIDE DEF e
  <2>4. QED  BY <1>3, <2>1, <2>2, <2>3 DEF e
<1>4. QED  BY <1>2, <1>3 DEF Lasts

-----------------------------------------------------------------------------
(* readln: the last line. *)
Whole(t) == IF t = <<>> \/ Last(t) = NL THEN t ELSE Front(t)

(* The last line: without its last character when no newline ends the text. *)
LEMMA LineLast ==
  ASSUME NEW C, NL \in C, NEW t \in Seq(C), NEW tokens \in Seq(Seq(C)), NEW p \in 0 .. Len(t),
         Glued(tokens, <<NL>>, t, p), FoundNone(t, <<NL>>, p)
  PROVE  /\ p = Len(t) => Join(Append(tokens, <<>>), <<NL>>) = Whole(t)
         /\ p # Len(t) => Join(Append(tokens, SubSeq(t, p + 1, Len(t) - 1)), <<NL>>) = Whole(t)
<1> DEFINE e == Len(t)
           d == <<NL>>
<1>1. e \in Nat /\ (t # <<>> <=> e >= 1) /\ e \in p .. Len(t) /\ e \in Int
  BY LenProperties, EmptySeq
<1>0. SubSeq(t, 1, e) = t
  BY SubSeqFull
<1>2. d \in Seq(C) /\ Len(d) = 1 /\ d[1] = NL
  OBVIOUS
<1>3. ASSUME p = Len(t)
      PROVE  Join(Append(tokens, <<>>), d) = Whole(t)
  <2>1. SubSeq(t, p + 1, e) = <<>>
    <3> DEFINE a == p + 1
    <3>1. a \in Int /\ e \in Int /\ e < a
      BY <1>1, <1>3
    <3> HIDE DEF a, e
    <3>2. SubSeq(t, a, e) = <<>>
      BY <3>1, SubSeqEmpty
    <3>3. QED  BY <3>2 DEF a
  <2>2. Join(Append(tokens, <<>>), d) = t
    <3> HIDE DEF e, d
    <3>1. Join(Append(tokens, SubSeq(t, p + 1, e)), d) = SubSeq(t, 1, e)
      BY <1>1, <1>2, GluedEnd DEF d
    <3>2. QED  BY <1>0, <2>1, <3>1
  <2>3. t = <<>> \/ Last(t) = NL
    <3>1. CASE tokens = <<>>
      BY <1>1, <1>3, <3>1 DEF Glued
    <3>2. CASE tokens # <<>>
      <4> DEFINE j == Join(tokens, d)
      <4>1. j \o d = t
        BY <1>0, <1>3, <3>2 DEF Glued
      <4>2. j \in Seq(C)
        <5> HIDE DEF d
        <5>1. QED  BY <1>2, JoinType
      <4>3. Len(j) \in Nat
        BY <4>2, LenProperties
      <4> HIDE DEF j, d
      <4>4. Len(j \o d) = Len(j) + 1 /\ (j \o d)[Len(j) + 1] = NL
        <5>1. /\ Len(j \o d) = Len(j) + Len(d)
              /\ \A i \in 1 .. Len(j) + Len(d) :
                   (j \o d)[i] = IF i <= Len(j) THEN j[i] ELSE d[i - Len(j)]
          BY <1>2, <4>2, ConcatProperties
        <5> DEFINE i == Len(j) + 1
        <5>2. i \in 1 .. Len(j) + Len(d) /\ ~(i <= Len(j)) /\ i - Len(j) = 1
          BY <1>2, <4>3
        <5> HIDE DEF i
        <5>3. (j \o d)[i] = NL
          BY <1>2, <5>1, <5>2
        <5>4. QED  BY <1>2, <5>1, <5>3 DEF i
      <4>5. QED  BY <4>1, <4>4 DEF Last
    <3>3. QED  BY <3>1, <3>2
  <2>4. QED  BY <2>2, <2>3 DEF Whole
<1>4. ASSUME p # Len(t)
      PROVE  Join(Append(tokens, SubSeq(t, p + 1, e - 1)), d) = Whole(t)
  <2> DEFINE q == e - 1
  <2>1. q \in p .. Len(t) /\ q + 1 = e /\ q \in p .. Len(t) - Len(d) /\ q + Len(d) = e
    BY <1>1, <1>2, <1>4
  <2>2. Join(Append(tokens, SubSeq(t, p + 1, q)), d) = SubSeq(t, 1, q)
    <3> HIDE DEF q, d
    <3>1. QED  BY <1>2, <2>1, GluedEnd DEF d
  <2>3. SubSeq(t, 1, q) = Front(t)
    BY DEF Front
  <2>4. t # <<>>
    BY <1>1, <1>4
  <2>5. Last(t) # NL
    <3>1. ~Stands(t, d, q)
      BY <2>1 DEF FoundNone
    <3>2. SubSeq(t, q + 1, q + Len(d)) # d
      BY <3>1 DEF Stands
    <3>3. SubSeq(t, e, e) # d
      <4> HIDE DEF q, d, e
      <4>1. QED  BY <2>1, <3>2
    <3>4. ASSUME t[e] = NL
          PROVE  FALSE
      <4> DEFINE x == SubSeq(t, e, e)
      <4>1. /\ x \in Seq(C) /\ Len(x) = IF e <= e THEN e - e + 1 ELSE 0
            /\ \A i \in 1 .. e - e + 1 : x[i] = t[e + i - 1]
        <5>1. \A i \in e .. e : t[i] \in C
          <6>1. e \in 1 .. Len(t) /\ \A i \in e .. e : i = e
            BY <1>1, <2>4
          <6>2. t[e] \in C
            <7> HIDE DEF e
            <7>1. QED  BY <6>1, ElementOfSeq
          <6>3. QED  BY <6>1, <6>2
        <5> HIDE DEF e
        <5>2. QED  BY <1>1, <5>1, SubSeqProperties
      <4>2. Len(x) = 1 /\ 1 \in 1 .. e - e + 1 /\ e + 1 - 1 = e
        BY <1>1, <4>1
      <4>3. x[1] = NL
        <5> HIDE DEF x, e
        <5>1. QED  BY <3>4, <4>1, <4>2
      <4> HIDE DEF x
      <4>4. x = d
        <5>1. Len(x) = Len(d) /\ \A i \in 1 .. Len(x) : i = 1
          BY <1>2, <4>2
        <5>2. \A i \in 1 .. Len(x) : x[i] = d[i]
          BY <1>2, <4>3, <5>1
        <5> HIDE DEF d
        <5>3. QED  BY <1>2, <4>1, <5>1, <5>2, SeqEqual
      <4>5. QED  BY <3>3, <4>4 DEF x
    <3>5. QED  BY <3>4 DEF Last
  <2>6. QED  BY <2>2, <2>3, <2>4, <2>5 DEF Whole
<1>5. QED  BY <1>3, <1>4

Chars == STRING \cup {NL}

Passed(t, p) == \A i \in DOMAIN t : t[i] # b => p < i

AheadCut(j, o, p) ==
  /\ j.by # <<>> => Cuts(o, j.by, j.text, p)
  /\ j.by = <<>> => p = 0 /\ (j.op = "replace" => o = <<>>)

AheadMatch(j, o, p) ==
  /\ j.by = "bb*" => Runs(o, j.text, p)
  /\ j.by = "b*" => Passed(j.text, p)
  /\ j.by = "^b" => Firsts(o, j.text, p)
  /\ j.by = "b$" => Lasts(o, j.text, p)

Ahead(j, o, p) ==
  /\ p \in 0 .. Len(j.text) /\ o \in Seq(Seq(Chars))
  /\ j.op \in {"split", "replace"} => AheadCut(j, o, p)
  /\ j.op \in {"regex_split", "regex_replace"} => AheadMatch(j, o, p)
  /\ j.op = "readln" => Glued(o, <<NL>>, j.text, p)
  /\ j.op = "read" => Glued(o, <<>>, j.text, p)
  /\ j.op = "format" => o = <<>> /\ p = 0


TextInv ==
  /\ job \in Jobs
  /\ at \in {"loop", "done", "threw"}
  /\ at = "loop" => job.op \notin {"codec", "passwd"} /\ Ahead(job, out, pos)
  /\ TextExact

(* The types of the fields of a job. *)
LEMMA JobKinds ==
  ASSUME NEW j \in Jobs
  PROVE  /\ j.op \notin {"codec", "passwd"} => j.text \in Seq(Chars)
         /\ j.op = "codec" => j.text \in Seq(0 .. 255)
         /\ j.op = "passwd" => j.text \in Passwds /\ j.by \in Salts
         /\ j.op \in {"split", "replace"} => j.by \in Seq(Chars)
         /\ j.op \in {"regex_split", "regex_replace"} => j.by \in {"bb*", "b*", "^b", "b$"}
<1>1. Texts \subseteq Seq(Chars) /\ Delims \subseteq Seq(Chars)
  <2>1. STRING \subseteq Chars
    BY DEF Chars
  <2>2. Seq(STRING) \subseteq Seq(Chars)
    BY <2>1, SeqMonotonic
  <2>3. QED  BY <2>2, TextAssumption
<1>2. CASE j \in [op : {"split", "replace"}, text : Texts, by : Delims]
  BY <1>1, <1>2
<1>3. CASE j \in [op : {"regex_split", "regex_replace"}, text : Texts, by : Regexes]
  BY <1>1, <1>3, TextAssumption
<1>4. CASE j \in [op : {"readln", "read", "format"}, text : Texts, by : {""}]
  BY <1>1, <1>4
<1>5. CASE j \in [op : {"codec"}, text : Data, by : {""}]
  BY <1>5, TextAssumption
<1>6. CASE j \in [op : {"passwd"}, text : Passwds, by : Salts]
  BY <1>6
<1>7. QED  BY <1>2, <1>3, <1>4, <1>5, <1>6 DEF Jobs

(* A loop that goes on keeps the invariant when it is Ahead. *)
LEMMA GoesOn ==
  ASSUME job \in Jobs, job.op \notin {"codec", "passwd"}, job' = job, at' = "loop", Ahead(job, out', pos')
  PROVE  TextInv'
BY DEF TextInv, TextExact

(* The first state is Ahead, whatever the call. *)
LEMMA TextStart ==
  ASSUME TextInit
  PROVE  TextInv
<1>1. job \in Jobs /\ pos = 0 /\ out = <<>>
  BY DEF TextInit
<1>2. CASE job.op \in {"codec", "passwd"}
  <2>1. at = "done"
    BY <1>2 DEF TextInit
  <2>2. TextExact
    BY <1>2 DEF TextExact, Endless
  <2>3. QED  BY <1>1, <1>2, <2>1, <2>2 DEF TextInv
<1>3. CASE job.op \notin {"codec", "passwd"}
  <2> DEFINE t == job.text
  <2>1. t \in Seq(Chars) /\ Len(t) \in Nat /\ at = "loop" /\ DOMAIN t = 1 .. Len(t)
    BY <1>1, <1>3, JobKinds, LenProperties DEF TextInit
  <2>2. pos \in 0 .. Len(t) /\ out \in Seq(Seq(Chars))
    BY <1>1, <2>1
  <2>3. \A d : Glued(out, d, t, 0)
    BY <1>1 DEF Glued
  <2>4. AheadCut(job, out, pos)
    <3>1. DOMAIN out = {}
      BY <1>1
    <3>2. QED  BY <1>1, <2>3, <3>1 DEF AheadCut, Cuts
  <2>5. Runs(out, t, 0)
    <3>1. SubSeq(t, 1, 0) = <<>>
      BY SubSeqEmpty
    <3>2. Without(<<>>) = <<>>
      <4> DEFINE e == <<>>
      <4>1. e \in Seq(Chars) /\ Len(e) = 0
        OBVIOUS
      <4> HIDE DEF e
      <4>2. PICK k : Keeps(k, e)
        BY <4>1, KeptTexts
      <4>3. Without(e) = <<>>
        BY <4>1, <4>2 DEF Keeps
      <4>4. QED  BY <4>3 DEF e
    <3>3. Join(out, <<>>) = <<>>
      <4> DEFINE e == <<>>
      <4>1. e \in Seq(Seq(Chars)) /\ e \in Seq(Chars) /\ e = <<>>
        OBVIOUS
      <4> HIDE DEF e
      <4>2. Join(e, e) = <<>>
        BY <4>1, JoinType
      <4>3. QED  BY <1>1, <4>1, <4>2
    <3>4. Edges(t, 0) = {}
      BY DEF Edges
    <3>5. Cardinality(Edges(t, 0)) = 0 /\ Len(out) = 0
      BY <1>1, <3>4, FS_EmptySet
    <3>6. \A i \in 2 .. Len(out) : out[i] # <<>>
      BY <3>5
    <3>7. QED  BY <1>1, <3>1, <3>2, <3>3, <3>5, <3>6 DEF Runs
  <2>6. Passed(t, 0) /\ Firsts(out, t, 0) /\ Lasts(out, t, 0)
    <3>1. Len(out) = 0 /\ \A i \in DOMAIN t : 0 < i
      BY <1>1, <2>1
    <3>2. QED  BY <1>1, <3>1 DEF Passed, Firsts, Lasts
  <2>7. Ahead(job, out, pos)
    <3> HIDE DEF t
    <3>1. QED  BY <1>1, <2>2, <2>3, <2>4, <2>5, <2>6 DEF Ahead, AheadMatch, t
  <2>8. TextExact
    BY <2>1 DEF TextExact
  <2>9. QED  BY <1>1, <1>3, <2>1, <2>7, <2>8 DEF TextInv
<1>4. QED  BY <1>2, <1>3

-----------------------------------------------------------------------------
(* split, replace *)
LEMMA FoundEmpty ==
  ASSUME NEW t, Len(t) \in Nat
  PROVE  Find(t, <<>>, 0) = 0
<1> DEFINE e == <<>>
<1>1. Len(e) = 0
  OBVIOUS
<1>2. SubSeq(t, 1, 0) = <<>>
  BY SubSeqEmpty
<1>3. Stands(t, e, 0)
  <2>1. 0 + 1 = 1 /\ 0 + Len(e) = 0
    BY <1>1
  <2>2. QED  BY <1>2, <2>1 DEF Stands
<1> HIDE DEF e
<1>4. FoundAt(t, e, 0, 0)
  <2>1. 0 \in 0 .. Len(t) - Len(e) /\ 0 .. 0 - 1 = {}
    BY <1>1
  <2>2. QED  BY <1>3, <2>1 DEF FoundAt
<1>5. Find(t, e, 0) = 0
  BY <1>1, <1>4, FindFirst
<1>6. QED  BY <1>5 DEF e

(* split and replace: what follows from what find() gave. *)
LEMMA CutFinds ==
  ASSUME TextInv, at = "loop", job.op \in {"split", "replace"}, job.by # <<>>
  PROVE  /\ Find(text, job.by, pos) = NPos => CutAt(text, job.by, Append(out, From(pos)))
         /\ Find(text, job.by, pos) # NPos =>
              LET p == Find(text, job.by, pos)
              IN  /\ p < Len(text)
                  /\ Ahead(job, Append(out, Part(pos, p - pos)), p + Len(job.by))
<1> DEFINE t == job.text
           by == job.by
           p == Find(t, by, pos)
<1>1. /\ t \in Seq(Chars) /\ by \in Seq(Chars) /\ by # <<>> /\ pos \in 0 .. Len(t)
      /\ out \in Seq(Seq(Chars)) /\ Cuts(out, by, t, pos)
  BY JobKinds DEF TextInv, Ahead, AheadCut
<1>2. Len(t) \in Nat /\ Len(by) \in Nat /\ Len(by) >= 1 /\ pos \in Nat
  BY <1>1, LenProperties, EmptySeq
<1>3. \/ p = NPos /\ FoundNone(t, by, pos)
      \/ FoundAt(t, by, pos, p)
  <2> HIDE DEF t, by
  <2>1. QED  BY <1>2, FindIs
<1>4. ASSUME p = NPos
      PROVE  CutAt(t, by, Append(out, From(pos)))
  <2>1. FoundNone(t, by, pos)
    <3>1. ~FoundAt(t, by, pos, NPos)
      BY <1>2 DEF FoundAt, NPos
    <3>2. QED  BY <1>3, <1>4, <3>1
  <2>2. CutAt(t, by, Append(out, SubSeq(t, pos + 1, Len(t))))
    <3> HIDE DEF t, by
    <3>1. QED  BY <1>1, <2>1, CutLast
  <2>3. QED  BY <2>2 DEF From, text
<1>5. ASSUME p # NPos
      PROVE  p < Len(t) /\ Ahead(job, Append(out, Part(pos, p - pos)), p + Len(by))
  <2>1. FoundAt(t, by, pos, p)
    BY <1>3, <1>5
  <2> HIDE DEF p
  <2>2. p \in pos .. Len(t) - Len(by)
    BY <2>1 DEF FoundAt
  <2>3. p < Len(t) /\ pos + (p - pos) = p
    BY <1>2, <2>2
  <2> DEFINE o == Append(out, SubSeq(t, pos + 1, p))
  <2>4. o \in Seq(Seq(Chars)) /\ p + Len(by) \in 0 .. Len(t) /\ Cuts(o, by, t, p + Len(by))
    <3> HIDE DEF t, by
    <3>1. QED  BY <1>1, <2>1, CutToken
  <2>5. Part(pos, p - pos) = SubSeq(t, pos + 1, p)
    BY <2>3 DEF Part, text
  <2> HIDE DEF o
  <2>6. Ahead(job, o, p + Len(by))
    BY <1>1, <2>4 DEF Ahead, AheadCut
  <2>7. QED  BY <2>3, <2>5, <2>6 DEF o
<1>6. QED  BY <1>4, <1>5 DEF text

(* split: an empty delimiter never ends it (cclstr.cc:37-58). *)
LEMMA SplitStep ==
  ASSUME TextInv, Split
  PROVE  TextInv'
<1> DEFINE p == Find(text, job.by, pos)
<1>1. at = "loop" /\ job.op = "split" /\ job \in Jobs /\ Ahead(job, out, pos)
  BY DEF Split, Is, TextInv
<1>2. CASE job.by = <<>>
  <2>1. pos = 0 /\ out \in Seq(Seq(Chars))
    BY <1>1, <1>2 DEF Ahead, AheadCut
  <2>2. text \in Seq(Chars) /\ Len(text) \in Nat
    BY <1>1, JobKinds, LenProperties DEF text
  <2>3. p = 0
    BY <1>2, <2>1, <2>2, FoundEmpty
  <2>4. /\ out' = Append(out, Part(pos, p - pos)) /\ pos' = p + Len(job.by)
        /\ job' = job /\ at' = at
    <3>1. p # NPos
      BY <2>3 DEF NPos
    <3>2. Token(Part(pos, p - pos), p + Len(job.by))
      BY <3>1 DEF Split
    <3>3. QED  BY <3>2 DEF Token
  <2>5. pos' = 0 /\ Part(pos, p - pos) = <<>>
    <3>1. Len(job.by) = 0
      BY <1>2
    <3>2. p - pos = 0 /\ pos = 0
      BY <2>1, <2>3
    <3>3. SubSeq(text, 0 + 1, 0 + 0) = <<>>
      BY SubSeqEmpty
    <3> HIDE DEF p
    <3>4. Part(pos, p - pos) = <<>>
      BY <3>2, <3>3 DEF Part
    <3>5. QED  BY <2>3, <2>4, <3>1, <3>4
  <2>6. out' \in Seq(Seq(Chars))
    <3> DEFINE e == <<>>
    <3>1. e \in Seq(Chars)
      OBVIOUS
    <3> HIDE DEF e
    <3>2. Append(out, e) \in Seq(Seq(Chars))
      BY <2>1, <3>1, AppendProperties
    <3>3. QED  BY <2>4, <2>5, <3>2 DEF e
  <2>7. Ahead(job, out', pos')
    BY <1>1, <1>2, <2>2, <2>5, <2>6 DEF Ahead, AheadCut, text
  <2>8. QED  BY <1>1, <2>4, <2>7, GoesOn
<1>3. CASE job.by # <<>> /\ p = NPos
  <2>1. out' = Append(out, From(pos)) /\ at' = "done" /\ job' = job
    BY <1>3 DEF Split, Finish
  <2>2. CutAt(text, job.by, out')
    BY <1>1, <1>3, <2>1, CutFinds
  <2>3. TextExact'
    BY <1>1, <1>3, <2>1, <2>2 DEF TextExact, Endless, text
  <2>4. QED  BY <1>1, <2>1, <2>3 DEF TextInv
<1>4. CASE job.by # <<>> /\ p # NPos
  <2>1. Token(Part(pos, p - pos), p + Len(job.by))
    BY <1>4 DEF Split
  <2>2. /\ out' = Append(out, Part(pos, p - pos)) /\ pos' = p + Len(job.by)
        /\ job' = job /\ at' = at
    BY <2>1 DEF Token
  <2>3. Ahead(job, out', pos')
    BY <1>1, <1>4, <2>2, CutFinds
  <2>4. QED  BY <1>1, <2>2, <2>3, GoesOn
<1>5. QED  BY <1>2, <1>3, <1>4

(* replace (cclstr.cc:130-166). *)
LEMMA ReplaceStep ==
  ASSUME TextInv, Replace
  PROVE  TextInv'
<1> DEFINE p == Find(text, job.by, pos)
           end == IF p = NPos THEN Len(text) ELSE p
<1>1. at = "loop" /\ job.op = "replace" /\ job \in Jobs /\ Ahead(job, out, pos)
  BY DEF Replace, Is, TextInv
<1>2. text \in Seq(Chars) /\ Len(text) \in Nat /\ pos \in 0 .. Len(text)
  BY <1>1, JobKinds, LenProperties DEF text, Ahead
<1>3. /\ job.by = <<>> => Finish(<<text>>)
      /\ job.by # <<>> /\ end >= Len(text) => Finish(Append(out, Part(pos, end - pos)))
      /\ job.by # <<>> /\ ~(end >= Len(text)) =>
           Token(Part(pos, end - pos), end + Len(job.by))
  BY DEF Replace
<1>4. CASE job.by = <<>>
  <2>1. out' = <<text>> /\ at' = "done" /\ job' = job
    BY <1>3, <1>4 DEF Finish
  <2>2. TextExact'
    BY <1>1, <1>4, <2>1 DEF TextExact, Endless, text
  <2>3. QED  BY <1>1, <2>1, <2>2 DEF TextInv
<1>5. CASE job.by # <<>> /\ p = NPos
  <2>1. end = Len(text) /\ pos + (end - pos) = Len(text)
    BY <1>2, <1>5
  <2>2. Part(pos, end - pos) = From(pos)
    <3> HIDE DEF end
    <3>1. QED  BY <2>1 DEF Part, From
  <2>3. Finish(Append(out, Part(pos, end - pos)))
    <3>1. end >= Len(text)
      BY <1>2, <2>1
    <3> HIDE DEF end
    <3>2. QED  BY <1>3, <1>5, <3>1
  <2>4. out' = Append(out, From(pos)) /\ at' = "done" /\ job' = job
    BY <2>2, <2>3 DEF Finish
  <2>5. CutAt(text, job.by, out')
    BY <1>1, <1>5, <2>4, CutFinds
  <2>6. TextExact'
    BY <1>1, <1>5, <2>4, <2>5 DEF TextExact, Endless, text
  <2>7. QED  BY <1>1, <2>4, <2>6 DEF TextInv
<1>6. CASE job.by # <<>> /\ p # NPos
  <2>1. end = p
    BY <1>6
  <2>2. p < Len(text) /\ Ahead(job, Append(out, Part(pos, p - pos)), p + Len(job.by))
    BY <1>1, <1>6, CutFinds
  <2>3. ~(p >= Len(text))
    <3>1. p \in Int
      BY <1>2, <1>6, <2>2, FindIs DEF FoundAt
    <3> HIDE DEF p
    <3>2. QED  BY <1>2, <2>2, <3>1
  <2> HIDE DEF end, p
  <2>4. Token(Part(pos, p - pos), p + Len(job.by))
    BY <1>3, <1>6, <2>1, <2>3
  <2>5. /\ out' = Append(out, Part(pos, p - pos)) /\ pos' = p + Len(job.by)
        /\ job' = job /\ at' = at
    BY <2>4 DEF Token
  <2>6. QED  BY <1>1, <2>2, <2>5, GoesOn
<1>7. QED  BY <1>4, <1>5, <1>6

(* regex_c: what is left when nothing matches any more. *)
Matched(re, t, o) ==
  /\ re = "bb*" => CutAtRuns(t, o)
  /\ re \in {"^b", "b$"} =>
       (o = CutOnce(re, t) <=> ~(re = "^b" /\ Len(t) > 1 /\ t[1] = b /\ t[2] = b))

Found(j, o, p, m) ==
  /\ m[1] \in Nat /\ m[2] \in Nat /\ p + m[1] <= Len(j.text)
  /\ Ahead(j, Append(o, SubSeq(j.text, p + 1, p + m[1])), p + m[2])
  /\ p + m[1] = Len(j.text) => j.by = "b*" /\ p = Len(j.text)

(* regex_c, by expression: what follows from what regexec gave. *)
LEMMA RunFinds ==
  ASSUME NEW j \in Jobs, j.op \in {"regex_split", "regex_replace"}, j.by = "bb*",
         NEW o, NEW p, Ahead(j, o, p), NEW m, m = Regexec("bb*", SubSeq(j.text, p + 1, Len(j.text)))
  PROVE  \/ m[1] = NPos /\ Matched(j.by, j.text, Append(o, SubSeq(j.text, p + 1, Len(j.text))))
         \/ m[1] # NPos /\ Found(j, o, p, m)
<1> DEFINE t == j.text
           s == SubSeq(t, p + 1, Len(t))
<1>1. t \in Seq(Chars) /\ p \in 0 .. Len(t) /\ o \in Seq(Seq(Chars)) /\ Runs(o, t, p)
  BY JobKinds DEF Ahead, AheadMatch
<1>2. Len(t) \in Nat /\ Len(t) \in p .. Len(t)
  BY <1>1, LenProperties
<1>3. s \in Seq(Chars) /\ Len(s) = Len(t) - p
  <2> HIDE DEF t
  <2>1. QED  BY <1>1, <1>2, PartType
<1>4. \/ m = <<NPos, NPos>> /\ \A i \in 1 .. Len(s) : s[i] # b
      \/ FirstRun(s, m[1], m[2])
  <2> HIDE DEF s
  <2>1. QED  BY <1>3, RunOf DEF s
<1>5. CASE m = <<NPos, NPos>> /\ \A i \in 1 .. Len(s) : s[i] # b
  <2>1. CutAtRuns(t, Append(o, s))
    <3> HIDE DEF t
    <3>1. QED  BY <1>1, <1>5, RunLast
  <2>2. Matched(j.by, t, Append(o, s))
    BY <2>1 DEF Matched
  <2>3. QED  BY <1>5, <2>2
<1>6. CASE FirstRun(s, m[1], m[2])
  <2> DEFINE so == m[1]
             eo == m[2]
  <2>1. so \in Nat /\ eo \in so + 1 .. Len(s)
    BY <1>6 DEF FirstRun
  <2> DEFINE w == Append(o, SubSeq(t, p + 1, p + so))
  <2>2. w \in Seq(Seq(Chars)) /\ p + eo \in 0 .. Len(t) /\ Runs(w, t, p + eo)
    <3> HIDE DEF t, so, eo
    <3>1. QED  BY <1>1, <1>6, RunToken DEF so, eo
  <2> HIDE DEF w, so, eo
  <2>3. Ahead(j, w, p + eo)
    BY <2>2 DEF Ahead, AheadMatch
  <2>4. so # NPos /\ eo \in Nat /\ p + so <= Len(t) /\ p + so # Len(t)
    <3> HIDE DEF s
    <3>1. QED  BY <1>1, <1>2, <1>3, <2>1 DEF NPos
  <2>5. QED  BY <2>1, <2>3, <2>4 DEF Found, w, so, eo
<1>7. QED  BY <1>4, <1>5, <1>6

(* "b*" always matches, and leaves only runs of b behind it. *)
LEMMA EmptyFinds ==
  ASSUME NEW j \in Jobs, j.op \in {"regex_split", "regex_replace"}, j.by = "b*",
         NEW o, NEW p, Ahead(j, o, p), NEW m, m = Regexec("b*", SubSeq(j.text, p + 1, Len(j.text)))
  PROVE  m[1] # NPos /\ Found(j, o, p, m)
<1> DEFINE t == j.text
           s == SubSeq(t, p + 1, Len(t))
           eo == m[2]
<1>1. t \in Seq(Chars) /\ p \in 0 .. Len(t) /\ o \in Seq(Seq(Chars)) /\ Passed(t, p)
  BY JobKinds DEF Ahead, AheadMatch
<1>2. Len(t) \in Nat /\ Len(t) \in p .. Len(t) /\ DOMAIN t = 1 .. Len(t)
  BY <1>1, LenProperties
<1>3. s \in Seq(Chars) /\ Len(s) = Len(t) - p /\ \A i \in 1 .. Len(t) - p : s[i] = t[p + i]
  <2> HIDE DEF t
  <2>1. QED  BY <1>1, <1>2, PartType
<1>4. m[1] = 0 /\ eo \in 0 .. Len(s) /\ AllB(s, 0, eo)
  <2> HIDE DEF s
  <2>1. Leading(s, m[1], m[2])
    BY <1>3, LeadingOf DEF s
  <2>2. QED  BY <2>1 DEF Leading
<1> HIDE DEF s, eo
<1>5. Passed(t, p + eo)
  <2> SUFFICES ASSUME NEW i \in 1 .. Len(t), t[i] # b
               PROVE  p + eo < i
    BY <1>2 DEF Passed
  <2>1. p < i
    BY <1>1, <1>2 DEF Passed
  <2>2. ASSUME i - p \in 0 + 1 .. eo
        PROVE  FALSE
    <3>1. i - p \in 1 .. Len(t) - p /\ p + (i - p) = i
      BY <1>1, <1>2, <2>1
    <3>2. s[i - p] = t[p + (i - p)]
      BY <1>3, <3>1
    <3>3. s[i - p] = b
      BY <1>4, <2>2 DEF AllB
    <3>4. t[i] = b
      BY <3>1, <3>2, <3>3, Zenon
    <3>5. QED  BY <3>4
  <2>3. p \in Int /\ eo \in Int
    BY <1>1, <1>4
  <2> HIDE DEF t
  <2>4. QED  BY <2>1, <2>2, <2>3
<1>6. SubSeq(t, p + 1, p + 0) = <<>>
  <2>1. p + 1 \in Int /\ p + 0 \in Int /\ p + 0 < p + 1
    BY <1>1
  <2> DEFINE a == p + 1
             z == p + 0
  <2>2. a \in Int /\ z \in Int /\ z < a
    BY <2>1
  <2> HIDE DEF a, z, t
  <2>3. SubSeq(t, a, z) = <<>>
    BY <2>2, SubSeqEmpty
  <2>4. QED  BY <2>3 DEF a, z
<1> DEFINE w == Append(o, SubSeq(t, p + 1, p + 0))
<1>7. w \in Seq(Seq(Chars))
  <2> DEFINE e == <<>>
  <2>1. e \in Seq(Chars)
    OBVIOUS
  <2> HIDE DEF e
  <2>2. Append(o, e) \in Seq(Seq(Chars))
    BY <1>1, <2>1, AppendProperties
  <2>3. QED  BY <1>6, <2>2 DEF e
<1>8. p + eo \in 0 .. Len(t) /\ eo \in Nat /\ p + 0 = p
  <2> HIDE DEF t
  <2>1. QED  BY <1>1, <1>2, <1>3, <1>4
<1> HIDE DEF w
<1>9. Ahead(j, w, p + eo)
  BY <1>5, <1>7, <1>8 DEF Ahead, AheadMatch
<1>10. /\ m[1] = 0 /\ 0 # NPos /\ p + m[1] = p /\ p <= Len(t)
       /\ SubSeq(t, p + 1, p + m[1]) = SubSeq(t, p + 1, p + 0)
  BY <1>1, <1>2, <1>4, <1>8 DEF NPos
<1>11. Ahead(j, Append(o, SubSeq(t, p + 1, p + m[1])), p + m[2])
  BY <1>9, <1>10 DEF w, eo
<1>12. m[1] \in Nat /\ m[2] \in Nat /\ p + m[1] <= Len(t)
  <2> HIDE DEF t
  <2>1. QED  BY <1>8, <1>10 DEF eo
<1>13. QED  BY <1>10, <1>11, <1>12 DEF Found

(* "^b" cuts at each b in front. *)
LEMMA FirstFinds ==
  ASSUME NEW j \in Jobs, j.op \in {"regex_split", "regex_replace"}, j.by = "^b",
         NEW o, NEW p, Ahead(j, o, p), NEW m, m = Regexec("^b", SubSeq(j.text, p + 1, Len(j.text)))
  PROVE  \/ m[1] = NPos /\ Matched(j.by, j.text, Append(o, SubSeq(j.text, p + 1, Len(j.text))))
         \/ m[1] # NPos /\ Found(j, o, p, m)
<1> DEFINE t == j.text
           s == SubSeq(t, p + 1, Len(t))
<1>1. t \in Seq(Chars) /\ p \in 0 .. Len(t) /\ o \in Seq(Seq(Chars)) /\ Firsts(o, t, p)
  BY JobKinds DEF Ahead, AheadMatch
<1>2. Len(t) \in Nat /\ Len(t) \in p .. Len(t)
  BY <1>1, LenProperties
<1>3. s \in Seq(Chars) /\ Len(s) = Len(t) - p /\ \A i \in 1 .. Len(t) - p : s[i] = t[p + i]
  <2> HIDE DEF t
  <2>1. QED  BY <1>1, <1>2, PartType
<1>4. m = IF s # <<>> /\ s[1] = b THEN <<0, 1>> ELSE <<NPos, NPos>>
  <2> HIDE DEF s
  <2>1. QED  BY <1>3, FirstOf DEF s
<1>5. (s # <<>> /\ s[1] = b) <=> (p # Len(t) /\ t[p + 1] = b)
  <2>1. s # <<>> <=> Len(s) # 0
    <3> HIDE DEF s
    <3>1. QED  BY <1>3, EmptySeq
  <2>2. p # Len(t) => s[1] = t[p + 1]
    <3>1. p # Len(t) => 1 \in 1 .. Len(t) - p
      BY <1>1, <1>2
    <3> HIDE DEF s
    <3>2. QED  BY <1>3, <3>1
  <2> HIDE DEF s
  <2>3. Len(s) # 0 <=> p # Len(t)
    BY <1>1, <1>2, <1>3
  <2>4. QED  BY <2>1, <2>2, <2>3
<1>6. CASE ~(p # Len(t) /\ t[p + 1] = b)
  <2>1. m[1] = NPos
    <3> HIDE DEF s
    <3>1. QED  BY <1>4, <1>5, <1>6
  <2>2. Append(o, s) = CutOnce("^b", t) <=> ~(Len(t) > 1 /\ t[1] = b /\ t[2] = b)
    <3> HIDE DEF t
    <3>1. QED  BY <1>1, <1>6, FirstLast
  <2> HIDE DEF s
  <2>3. Matched(j.by, t, Append(o, s))
    BY <2>2 DEF Matched
  <2>4. QED  BY <2>1, <2>3 DEF s
<1>7. CASE p # Len(t) /\ t[p + 1] = b
  <2>1. m[1] = 0 /\ m[2] = 1
    <3> HIDE DEF s
    <3>1. QED  BY <1>4, <1>5, <1>7
  <2>2. /\ Append(o, <<>>) \in Seq(Seq(Chars)) /\ p + 1 \in 0 .. Len(t)
        /\ Firsts(Append(o, <<>>), t, p + 1)
    <3> HIDE DEF t
    <3>1. QED  BY <1>1, <1>7, FirstToken
  <2>3. Ahead(j, Append(o, <<>>), p + 1)
    <3> DEFINE w == Append(o, <<>>)
    <3>1. w \in Seq(Seq(Chars)) /\ p + 1 \in 0 .. Len(t) /\ Firsts(w, t, p + 1)
      BY <2>2
    <3> HIDE DEF w
    <3>2. Ahead(j, w, p + 1)
      BY <3>1 DEF Ahead, AheadMatch
    <3>3. QED  BY <3>2 DEF w
  <2>4. SubSeq(t, p + 1, p + 0) = <<>>
    <3> DEFINE a == p + 1
               z == p + 0
    <3>1. a \in Int /\ z \in Int /\ z < a
      BY <1>1
    <3> HIDE DEF a, z, t
    <3>2. SubSeq(t, a, z) = <<>>
      BY <3>1, SubSeqEmpty
    <3>3. QED  BY <3>2 DEF a, z
  <2>5. 0 # NPos /\ p + 0 = p /\ p <= Len(t) /\ 0 \in Nat /\ 1 \in Nat
    BY <1>1, <1>2 DEF NPos
  <2>6. Found(j, o, p, m)
    BY <1>7, <2>1, <2>3, <2>4, <2>5 DEF Found
  <2>7. QED  BY <2>1, <2>5, <2>6
<1>8. QED  BY <1>6, <1>7

(* "b$" cuts once. *)
LEMMA LastFinds ==
  ASSUME NEW j \in Jobs, j.op \in {"regex_split", "regex_replace"}, j.by = "b$",
         NEW o, NEW p, Ahead(j, o, p), NEW m, m = Regexec("b$", SubSeq(j.text, p + 1, Len(j.text)))
  PROVE  \/ m[1] = NPos /\ Matched(j.by, j.text, Append(o, SubSeq(j.text, p + 1, Len(j.text))))
         \/ m[1] # NPos /\ Found(j, o, p, m)
<1> DEFINE t == j.text
           s == SubSeq(t, p + 1, Len(t))
<1>1. t \in Seq(Chars) /\ p \in 0 .. Len(t) /\ o \in Seq(Seq(Chars)) /\ Lasts(o, t, p)
  BY JobKinds DEF Ahead, AheadMatch
<1>2. Len(t) \in Nat /\ Len(t) \in p .. Len(t) /\ (t # <<>> <=> Len(t) # 0)
  BY <1>1, LenProperties, EmptySeq
<1>3. s \in Seq(Chars) /\ Len(s) = Len(t) - p /\ \A i \in 1 .. Len(t) - p : s[i] = t[p + i]
  <2> HIDE DEF t
  <2>1. QED  BY <1>1, <1>2, PartType
<1>4. m = IF s # <<>> /\ s[Len(s)] = b THEN <<Len(s) - 1, Len(s)>> ELSE <<NPos, NPos>>
  <2> HIDE DEF s
  <2>1. QED  BY <1>3, LastOf DEF s
<1>5. (s # <<>> /\ s[Len(s)] = b) <=> (p # Len(t) /\ t[Len(t)] = b)
  <2>1. s # <<>> <=> Len(s) # 0
    <3> HIDE DEF s
    <3>1. QED  BY <1>3, EmptySeq
  <2>2. p # Len(t) => s[Len(s)] = t[Len(t)]
    <3>1. p # Len(t) => Len(t) - p \in 1 .. Len(t) - p /\ p + (Len(t) - p) = Len(t)
      BY <1>1, <1>2
    <3> HIDE DEF s, t
    <3>2. QED  BY <1>3, <3>1
  <2> HIDE DEF s
  <2>3. Len(s) # 0 <=> p # Len(t)
    BY <1>1, <1>2, <1>3
  <2>4. QED  BY <2>1, <2>2, <2>3
<1>6. CASE ~(p # Len(t) /\ t[Len(t)] = b)
  <2>1. m[1] = NPos
    <3> HIDE DEF s
    <3>1. QED  BY <1>4, <1>5, <1>6
  <2>2. Append(o, s) = CutOnce("b$", t)
    <3> HIDE DEF t
    <3>1. QED  BY <1>1, <1>6, LastLast
  <2> HIDE DEF s
  <2>3. Matched(j.by, t, Append(o, s))
    BY <2>2 DEF Matched
  <2>4. QED  BY <2>1, <2>3 DEF s
<1>7. CASE p # Len(t) /\ t[Len(t)] = b
  <2>1. p = 0 /\ o = <<>> /\ t # <<>>
    <3>1. p = 0 /\ o = <<>>
      BY <1>1, <1>7 DEF Lasts
    <3> HIDE DEF t
    <3>2. QED  BY <1>2, <1>7, <3>1
  <2>2. m[1] = Len(t) - 1 /\ m[2] = Len(t)
    <3> HIDE DEF s
    <3>1. Len(s) = Len(t)
      BY <1>2, <1>3, <2>1
    <3>2. QED  BY <1>4, <1>5, <1>7, <3>1
  <2>3. /\ <<Front(t)>> \in Seq(Seq(Chars)) /\ Lasts(<<Front(t)>>, t, Len(t))
        /\ Append(<<>>, SubSeq(t, 1, Len(t) - 1)) = <<Front(t)>>
    <3> HIDE DEF t
    <3>1. QED  BY <1>1, <1>7, <2>1, LastMatch
  <2>4. /\ p + 1 = 1 /\ p + m[1] = Len(t) - 1 /\ p + m[2] = Len(t) /\ m[1] \in Nat /\ m[2] \in Nat
        /\ Len(t) - 1 <= Len(t) /\ Len(t) - 1 # Len(t) /\ m[1] # NPos /\ Len(t) \in 0 .. Len(t)
    <3>1. Len(t) \in Nat /\ Len(t) # 0
      BY <1>2, <2>1
    <3> HIDE DEF t
    <3>2. QED  BY <2>1, <2>2, <3>1 DEF NPos
  <2> DEFINE w == <<Front(t)>>
  <2>5. Append(o, SubSeq(t, p + 1, p + m[1])) = w
    BY <2>1, <2>3, <2>4
  <2>6. w \in Seq(Seq(Chars)) /\ Lasts(w, t, Len(t))
    BY <2>3
  <2> HIDE DEF w
  <2>7. Ahead(j, w, Len(t))
    BY <2>4, <2>6 DEF Ahead, AheadMatch
  <2>8. Found(j, o, p, m)
    BY <2>4, <2>5, <2>7 DEF Found
  <2>9. QED  BY <2>4, <2>8
<1>8. QED  BY <1>6, <1>7

(* regex_c, all expressions together. *)
LEMMA MatchFinds ==
  ASSUME TextInv, at = "loop", job.op \in {"regex_split", "regex_replace"}
  PROVE  LET m == Regexec(job.by, From(pos))
         IN  \/ m[1] = NPos /\ job.by # "b*" /\ Matched(job.by, text, Append(out, From(pos)))
             \/ m[1] # NPos /\ Found(job, out, pos, m)
<1> DEFINE m == Regexec(job.by, From(pos))
           s == SubSeq(job.text, pos + 1, Len(job.text))
<1>1. job \in Jobs /\ Ahead(job, out, pos) /\ job.by \in {"bb*", "b*", "^b", "b$"}
  BY JobKinds DEF TextInv
<1>2. From(pos) = s /\ m = Regexec(job.by, s)
  BY DEF From, text
<1> HIDE DEF m
<1>3. CASE job.by = "bb*"
  <2>1. m = Regexec("bb*", s) /\ job.by # "b*"
    BY <1>2, <1>3
  <2>2. \/ m[1] = NPos /\ Matched(job.by, job.text, Append(out, s))
        \/ m[1] # NPos /\ Found(job, out, pos, m)
    BY <1>1, <1>3, <2>1, RunFinds
  <2>3. QED  BY <1>2, <2>1, <2>2 DEF text, m
<1>4. CASE job.by = "b*"
  <2>1. m = Regexec("b*", s)
    BY <1>2, <1>4
  <2>2. m[1] # NPos /\ Found(job, out, pos, m)
    BY <1>1, <1>4, <2>1, EmptyFinds
  <2>3. QED  BY <2>2 DEF m
<1>5. CASE job.by = "^b"
  <2>1. m = Regexec("^b", s) /\ job.by # "b*"
    BY <1>2, <1>5
  <2>2. \/ m[1] = NPos /\ Matched(job.by, job.text, Append(out, s))
        \/ m[1] # NPos /\ Found(job, out, pos, m)
    BY <1>1, <1>5, <2>1, FirstFinds
  <2>3. QED  BY <1>2, <2>1, <2>2 DEF text, m
<1>6. CASE job.by = "b$"
  <2>1. m = Regexec("b$", s) /\ job.by # "b*"
    BY <1>2, <1>6
  <2>2. \/ m[1] = NPos /\ Matched(job.by, job.text, Append(out, s))
        \/ m[1] # NPos /\ Found(job, out, pos, m)
    BY <1>1, <1>6, <2>1, LastFinds
  <2>3. QED  BY <1>2, <2>1, <2>2 DEF text, m
<1>7. QED  BY <1>1, <1>3, <1>4, <1>5, <1>6

(* A loop of regex_c that ends keeps the invariant. *)
LEMMA Settled ==
  ASSUME TextInv, job.op \in {"regex_split", "regex_replace"}, job' = job, at' = "done",
         Matched(job.by, text, out'),
         job.by = "b*" => job.op = "regex_replace" /\ \A i \in DOMAIN text : text[i] = b
  PROVE  TextInv'
<1>1. job \in Jobs /\ job.by \in {"bb*", "b*", "^b", "b$"}
  BY JobKinds DEF TextInv
<1>2. ~Endless'
  BY DEF Endless, text
<1>3. CASE job.by = "bb*"
  <2>1. CutAtRuns(text, out')
    BY <1>3 DEF Matched
  <2>2. TextExact'
    BY <1>2, <1>3, <2>1 DEF TextExact, text
  <2>3. QED  BY <1>1, <2>2 DEF TextInv
<1>4. CASE job.by = "b*"
  <2>1. TextExact'
    BY <1>2, <1>4 DEF TextExact, text
  <2>2. QED  BY <1>1, <2>1 DEF TextInv
<1>5. CASE job.by \in {"^b", "b$"}
  <2>1. out' = CutOnce(job.by, text)
          <=> ~(job.by = "^b" /\ Len(text) > 1 /\ text[1] = b /\ text[2] = b)
    BY <1>5 DEF Matched
  <2>2. TextExact'
    BY <1>2, <1>5, <2>1 DEF TextExact, text
  <2>3. QED  BY <1>1, <2>2 DEF TextInv
<1>6. QED  BY <1>1, <1>3, <1>4, <1>5

(* regex_c::split (cclstr.cc:247-268). *)
LEMMA RegexSplitStep ==
  ASSUME TextInv, RegexSplit
  PROVE  TextInv'
<1> DEFINE m == Regexec(job.by, From(pos))
<1>1. at = "loop" /\ job.op = "regex_split" /\ job \in Jobs
  BY DEF RegexSplit, Is, TextInv
<1>2. /\ m[1] = NPos => Finish(Append(out, From(pos)))
      /\ m[1] # NPos => Token(Part(pos, m[1]), pos + m[2])
  BY DEF RegexSplit
<1>3. \/ m[1] = NPos /\ job.by # "b*" /\ Matched(job.by, text, Append(out, From(pos)))
      \/ m[1] # NPos /\ Found(job, out, pos, m)
  BY <1>1, MatchFinds
<1> HIDE DEF m
<1>4. CASE m[1] = NPos /\ job.by # "b*" /\ Matched(job.by, text, Append(out, From(pos)))
  <2>1. out' = Append(out, From(pos)) /\ at' = "done" /\ job' = job
    BY <1>2, <1>4 DEF Finish
  <2>2. QED  BY <1>1, <1>4, <2>1, Settled
<1>5. CASE m[1] # NPos /\ Found(job, out, pos, m)
  <2>1. /\ out' = Append(out, Part(pos, m[1])) /\ pos' = pos + m[2]
        /\ job' = job /\ at' = at
    BY <1>2, <1>5 DEF Token
  <2>2. Ahead(job, out', pos')
    BY <1>5, <2>1 DEF Found, Part, text
  <2>3. QED  BY <1>1, <2>1, <2>2, GoesOn
<1>6. QED  BY <1>3, <1>4, <1>5

(* regex_c::replace (cclstr.cc:277-313). *)
LEMMA RegexReplaceStep ==
  ASSUME TextInv, RegexReplace
  PROVE  TextInv'
<1> DEFINE m == Regexec(job.by, From(pos))
           end == IF m[1] = NPos THEN Len(text) ELSE pos + m[1]
<1>1. at = "loop" /\ job.op = "regex_replace" /\ job \in Jobs /\ Ahead(job, out, pos)
  BY DEF RegexReplace, Is, TextInv
<1>2. /\ text \in Seq(Chars) /\ Len(text) \in Nat /\ DOMAIN text = 1 .. Len(text)
      /\ pos \in 0 .. Len(text)
  BY <1>1, JobKinds, LenProperties DEF text, Ahead
<1>3. /\ end >= Len(text) => Finish(Append(out, Part(pos, end - pos)))
      /\ ~(end >= Len(text)) => Token(Part(pos, end - pos), end + (m[2] - m[1]))
  BY DEF RegexReplace
<1>4. \/ m[1] = NPos /\ job.by # "b*" /\ Matched(job.by, text, Append(out, From(pos)))
      \/ m[1] # NPos /\ Found(job, out, pos, m)
  BY <1>1, MatchFinds
<1> HIDE DEF m
<1>5. CASE m[1] = NPos /\ job.by # "b*" /\ Matched(job.by, text, Append(out, From(pos)))
  <2>1. end = Len(text)
    BY <1>5
  <2> HIDE DEF end
  <2>2. pos + (end - pos) = Len(text) /\ end >= Len(text)
    BY <1>2, <2>1
  <2>3. Part(pos, end - pos) = From(pos)
    BY <2>2 DEF Part, From
  <2>4. out' = Append(out, From(pos)) /\ at' = "done" /\ job' = job
    BY <1>3, <2>2, <2>3 DEF Finish
  <2>5. QED  BY <1>1, <1>5, <2>4, Settled
<1>6. CASE m[1] # NPos /\ Found(job, out, pos, m)
  <2>1. end = pos + m[1]
    BY <1>6
  <2> HIDE DEF end
  <2>2. m[1] \in Nat /\ m[2] \in Nat /\ end <= Len(text)
    BY <1>6, <2>1 DEF Found, text
  <2>3. end - pos = m[1] /\ end + (m[2] - m[1]) = pos + m[2] /\ end \in Int
    BY <1>2, <2>1, <2>2
  <2>4. CASE end = Len(text)
    <3>1. job.by = "b*" /\ pos = Len(text)
      BY <1>6, <2>1, <2>4 DEF Found, text
    <3>2. \A i \in DOMAIN text : text[i] = b
      <4>1. Passed(text, pos)
        BY <1>1, <3>1 DEF Ahead, AheadMatch, text
      <4>2. \A i \in DOMAIN text : ~(pos < i)
        BY <1>2, <3>1
      <4>3. QED  BY <4>1, <4>2 DEF Passed
    <3>3. end >= Len(text)
      BY <1>2, <2>4
    <3>4. at' = "done" /\ job' = job
      BY <1>3, <3>3 DEF Finish
    <3>5. Matched(job.by, text, out')
      BY <3>1 DEF Matched
    <3>6. QED  BY <1>1, <3>1, <3>2, <3>4, <3>5, Settled
  <2>5. CASE end # Len(text)
    <3>1. ~(end >= Len(text))
      <4> DEFINE e == Len(text)
      <4>1. e \in Int
        BY <1>2
      <4>2. end \in Int /\ end <= e /\ end # e
        BY <2>2, <2>3, <2>5, Zenon
      <4> HIDE DEF e
      <4>3. ~(end >= e)
        BY <4>1, <4>2
      <4>4. QED  BY <4>3 DEF e
    <3>2. Token(Part(pos, m[1]), pos + m[2])
      BY <1>3, <2>3, <3>1
    <3>3. /\ out' = Append(out, Part(pos, m[1])) /\ pos' = pos + m[2]
          /\ job' = job /\ at' = at
      BY <3>2 DEF Token
    <3>4. Ahead(job, out', pos')
      BY <1>6, <3>3 DEF Found, Part, text
    <3>5. QED  BY <1>1, <3>3, <3>4, GoesOn
  <2>6. QED  BY <2>4, <2>5
<1>7. QED  BY <1>4, <1>5, <1>6

-----------------------------------------------------------------------------
(* streams and format *)
LEMMA ReadlnStep ==
  ASSUME TextInv, Readln
  PROVE  TextInv'
<1> DEFINE d == <<NL>>
           t == job.text
           p == Find(text, d, pos)
           n == IF p = NPos THEN Len(text) - pos ELSE p + 1 - pos
           line == IF n = 0 THEN <<>> ELSE Part(pos, n - 1)
<1>1. at = "loop" /\ job.op = "readln" /\ job \in Jobs /\ Ahead(job, out, pos) /\ text = t
  BY DEF Readln, Is, TextInv, text
<1>2. /\ t \in Seq(Chars) /\ pos \in 0 .. Len(t) /\ out \in Seq(Seq(Chars)) /\ Glued(out, d, t, pos)
  BY <1>1, JobKinds DEF Ahead
<1>3. Len(t) \in Nat /\ pos \in Nat /\ d \in Seq(Chars) /\ NL \in Chars /\ Len(d) = 1
  <2>1. NL \in Chars
    BY DEF Chars
  <2>2. Len(t) \in Nat
    BY <1>2, LenProperties
  <2>3. d \in Seq(Chars) /\ Len(d) = 1
    BY <2>1
  <2>4. QED  BY <1>2, <2>1, <2>2, <2>3
<1>4. /\ p = NPos => Finish(Append(out, line))
      /\ p # NPos => Token(line, pos + n)
  BY DEF Readln
<1>5. \/ p = NPos /\ FoundNone(t, d, pos)
      \/ FoundAt(t, d, pos, p)
  <2> HIDE DEF t, d
  <2>1. QED  BY <1>1, <1>3, FindIs
<1>6. CASE p = NPos
  <2>1. FoundNone(t, d, pos)
    <3>1. ~FoundAt(t, d, pos, NPos)
      BY <1>3 DEF FoundAt, NPos
    <3>2. QED  BY <1>5, <1>6, <3>1
  <2>2. n = Len(t) - pos
    BY <1>1, <1>6
  <2>3. /\ pos = Len(t) => Join(Append(out, <<>>), d) = Whole(t)
        /\ pos # Len(t) => Join(Append(out, SubSeq(t, pos + 1, Len(t) - 1)), d) = Whole(t)
    <3> HIDE DEF t
    <3>1. QED  BY <1>2, <1>3, <2>1, LineLast
  <2> HIDE DEF d, p
  <2>4. Join(Append(out, line), d) = Whole(t)
    <3>1. CASE pos = Len(t)
      <4> HIDE DEF t
      <4>1. n = 0
        <5> HIDE DEF n
        <5>1. QED  BY <1>3, <2>2, <3>1
      <4>2. line = <<>>
        <5> HIDE DEF n
        <5>1. QED  BY <4>1
      <4> HIDE DEF line
      <4>3. QED  BY <2>3, <3>1, <4>2
    <3>2. CASE pos # Len(t)
      <4>1. n # 0 /\ pos + (n - 1) = Len(t) - 1
        <5> HIDE DEF n, t
        <5>1. QED  BY <1>2, <1>3, <2>2, <3>2
      <4> HIDE DEF n, t
      <4>2. line = SubSeq(t, pos + 1, Len(t) - 1)
        BY <1>1, <4>1 DEF Part
      <4> HIDE DEF line
      <4>3. QED  BY <2>3, <3>2, <4>2
    <3>3. QED  BY <3>1, <3>2
  <2> HIDE DEF line
  <2>5. out' = Append(out, line) /\ at' = "done" /\ job' = job
    BY <1>4, <1>6 DEF Finish
  <2>6. TextExact'
    BY <1>1, <2>4, <2>5 DEF TextExact, Endless, text, Whole, d
  <2>7. QED  BY <1>1, <2>5, <2>6 DEF TextInv
<1>7. CASE p # NPos
  <2>1. FoundAt(t, d, pos, p) /\ n = p + 1 - pos
    BY <1>5, <1>7
  <2> HIDE DEF n, p, t, d
  <2>2. p \in pos .. Len(t) - 1 /\ SubSeq(t, p + 1, p + Len(d)) = d
    BY <1>3, <2>1 DEF FoundAt, Stands
  <2>3. /\ p \in pos .. Len(t) /\ n # 0 /\ pos + (n - 1) = p /\ pos + n = p + Len(d)
        /\ p + Len(d) <= Len(t) /\ p + Len(d) \in 0 .. Len(t)
    BY <1>2, <1>3, <2>1, <2>2
  <2>4. line = SubSeq(t, pos + 1, p)
    BY <1>1, <2>3 DEF Part
  <2> HIDE DEF line
  <2>5. Glued(Append(out, line), d, t, p + Len(d))
    BY <1>2, <1>3, <2>2, <2>3, <2>4, GluedToken
  <2>6. Append(out, line) \in Seq(Seq(Chars))
    <3>1. line \in Seq(Chars)
      BY <1>2, <2>3, <2>4, PartType
    <3>2. QED  BY <1>2, <3>1, AppendProperties
  <2>7. out' = Append(out, line) /\ pos' = p + Len(d) /\ job' = job /\ at' = at
    BY <1>4, <1>7, <2>3 DEF Token
  <2>8. Ahead(job, out', pos')
    BY <1>1, <2>3, <2>5, <2>6, <2>7 DEF Ahead, t, d
  <2>9. QED  BY <1>1, <2>7, <2>8, GoesOn
<1>8. QED  BY <1>6, <1>7

(* The smaller of two. *)
LEMMA Less ==
  ASSUME NEW x \in Nat, NEW y \in Nat
  PROVE  Min({x, y}) = IF x <= y THEN x ELSE y
<1>1. PICK z \in {x, y} : \A w \in {x, y} : z <= w
  OBVIOUS
<1>2. Min({x, y}) \in {x, y} /\ \A w \in {x, y} : Min({x, y}) <= w
  BY <1>1 DEF Min
<1> DEFINE m == Min({x, y})
<1>3. m \in {x, y} /\ m <= x /\ m <= y
  BY <1>2
<1> HIDE DEF m
<1>4. m = IF x <= y THEN x ELSE y
  BY <1>3
<1>5. QED  BY <1>4 DEF m

(* stream_c::read (cclsys.cc:370-398). *)
LEMMA ReadStep ==
  ASSUME TextInv, Read
  PROVE  TextInv'
<1> DEFINE d == <<>>
           t == job.text
           n == Min({Buf, Len(text) - pos})
           w == Part(pos, n)
           q == pos + n
<1>1. at = "loop" /\ job.op = "read" /\ job \in Jobs /\ Ahead(job, out, pos) /\ text = t
  BY DEF Read, Is, TextInv, text
<1>2. /\ t \in Seq(Chars) /\ pos \in 0 .. Len(t) /\ out \in Seq(Seq(Chars)) /\ Glued(out, d, t, pos)
  BY <1>1, JobKinds DEF Ahead
<1>3. Len(t) \in Nat /\ pos \in Nat /\ d \in Seq(Chars) /\ Len(d) = 0 /\ Buf \in Nat
  <2>1. Len(t) \in Nat
    BY <1>2, LenProperties
  <2>2. QED  BY <1>2, <2>1, TextAssumption
<1>4. /\ n >= Buf => Token(w, q)
      /\ ~(n >= Buf) => Finish(Append(out, w))
  BY DEF Read
<1>5. n = IF Buf <= Len(t) - pos THEN Buf ELSE Len(t) - pos
  <2> DEFINE r == Len(t) - pos
  <2>1. r \in Nat
    BY <1>2, <1>3
  <2> HIDE DEF r
  <2>2. Min({Buf, r}) = IF Buf <= r THEN Buf ELSE r
    BY <1>3, <2>1, Less
  <2>3. QED  BY <1>1, <2>2 DEF r
<1> HIDE DEF n
<1>6. n \in Nat /\ q \in pos .. Len(t) /\ q \in 0 .. Len(t) /\ (~(n >= Buf) => q = Len(t))
  <2> HIDE DEF t
  <2>1. QED  BY <1>2, <1>3, <1>5
<1>7. w = SubSeq(t, pos + 1, q)
  BY <1>1 DEF Part
<1> HIDE DEF w, q, t, d
<1>8. w \in Seq(Chars) /\ Append(out, w) \in Seq(Seq(Chars))
  <2>1. w \in Seq(Chars)
    BY <1>2, <1>6, <1>7, PartType
  <2>2. QED  BY <1>2, <2>1, AppendProperties
<1>9. CASE n >= Buf
  <2>1. q + Len(d) = q /\ q + Len(d) <= Len(t)
    BY <1>2, <1>3, <1>6
  <2>2. SubSeq(t, q + 1, q + Len(d)) = d
    <3> DEFINE a == q + 1
    <3>1. a \in Int /\ q \in Int /\ q < a
      BY <1>2, <1>6
    <3> HIDE DEF a
    <3>2. SubSeq(t, a, q) = <<>>
      BY <3>1, SubSeqEmpty
    <3>3. QED  BY <2>1, <3>2 DEF a, d
  <2>3. Glued(Append(out, w), d, t, q)
    <3>1. Glued(Append(out, SubSeq(t, pos + 1, q)), d, t, q + Len(d))
      BY <1>2, <1>3, <1>6, <2>1, <2>2, GluedToken
    <3>2. QED  BY <1>7, <2>1, <3>1
  <2>4. out' = Append(out, w) /\ pos' = q /\ job' = job /\ at' = at
    BY <1>4, <1>9 DEF Token
  <2>5. Ahead(job, out', pos')
    BY <1>1, <1>6, <1>8, <2>3, <2>4 DEF Ahead, t, d
  <2>6. QED  BY <1>1, <2>4, <2>5, GoesOn
<1>10. CASE ~(n >= Buf)
  <2>1. Join(Append(out, w), d) = t
    <3>1. Join(Append(out, SubSeq(t, pos + 1, q)), d) = SubSeq(t, 1, q)
      <4>1. /\ t \in Seq(Chars) /\ d \in Seq(Chars) /\ out \in Seq(Seq(Chars))
            /\ pos \in 0 .. Len(t) /\ q \in pos .. Len(t) /\ Glued(out, d, t, pos)
        BY <1>2, <1>3, <1>6
      <4>2. QED  BY <4>1, GluedEnd
    <3>2. SubSeq(t, 1, Len(t)) = t
      BY <1>2, SubSeqFull
    <3>3. QED  BY <1>6, <1>7, <1>10, <3>1, <3>2
  <2>2. out' = Append(out, w) /\ at' = "done" /\ job' = job
    BY <1>4, <1>10 DEF Finish
  <2>3. TextExact'
    BY <1>1, <2>1, <2>2 DEF TextExact, Endless, text, t, d
  <2>4. QED  BY <1>1, <2>2, <2>3 DEF TextInv
<1>11. QED  BY <1>9, <1>10

(* format (cclstr.cc:103-128). *)
LEMMA FormatStep ==
  ASSUME TextInv, Format
  PROVE  TextInv'
<1> DEFINE t == job.text
           n == Min({Buf, Len(text)})
           w == IF Len(text) > Buf THEN text ELSE Part(0, n)
<1>1. at = "loop" /\ job.op = "format" /\ job \in Jobs /\ text = t
  BY DEF Format, Is, TextInv, text
<1>2. t \in Seq(Chars) /\ Len(t) \in Nat /\ Buf \in Nat
  <2>1. t \in Seq(Chars)
    BY <1>1, JobKinds
  <2>2. QED  BY <2>1, LenProperties, TextAssumption
<1>3. w = t
  <2>1. CASE Len(text) > Buf
    BY <1>1, <2>1
  <2>2. CASE ~(Len(text) > Buf)
    <3>1. n = IF Buf <= Len(t) THEN Buf ELSE Len(t)
      BY <1>1, <1>2, Less
    <3> HIDE DEF n, t
    <3>2. n = Len(t) /\ 0 + n = Len(t) /\ 0 + 1 = 1
      BY <1>1, <1>2, <2>2, <3>1
    <3>3. SubSeq(t, 1, Len(t)) = t
      BY <1>2, SubSeqFull
    <3>4. Part(0, n) = t
      BY <1>1, <3>2, <3>3 DEF Part
    <3>5. QED  BY <2>2, <3>4
  <2>3. QED  BY <2>1, <2>2
<1>4. out' = <<w>> /\ at' = "done" /\ job' = job
  BY DEF Format, Finish
<1> HIDE DEF w
<1>5. Join(<<t>>, <<>>) = t
  <2> HIDE DEF t
  <2>1. QED  BY <1>2, TokenPair
<1>6. TextExact'
  BY <1>1, <1>3, <1>4, <1>5 DEF TextExact, Endless, text
<1>7. QED  BY <1>1, <1>4, <1>6 DEF TextInv

-----------------------------------------------------------------------------
(* Every iteration of every loop. *)
LEMMA TextStep ==
  ASSUME TextInv, [TextNext]_textVars
  PROVE  TextInv'
<1>1. CASE Split
  BY <1>1, SplitStep
<1>2. CASE Replace
  BY <1>2, ReplaceStep
<1>3. CASE RegexSplit
  BY <1>3, RegexSplitStep
<1>4. CASE RegexReplace
  BY <1>4, RegexReplaceStep
<1>5. CASE Readln
  BY <1>5, ReadlnStep
<1>6. CASE Read
  BY <1>6, ReadStep
<1>7. CASE Format
  BY <1>7, FormatStep
<1>8. CASE UNCHANGED textVars
  <2>1. job' = job /\ pos' = pos /\ out' = out /\ at' = at
    BY <1>8 DEF textVars
  <2>2. TextExact'
    BY <2>1 DEF TextInv, TextExact, Endless, text
  <2>3. QED  BY <2>1, <2>2 DEF TextInv
<1>9. CASE Throws
  <2>1. job' = job /\ at' = "threw"
    BY <1>9 DEF Throws
  <2>2. QED  BY <2>1 DEF TextInv, TextExact
<1>10. QED  BY <1>1, <1>2, <1>3, <1>4, <1>5, <1>6, <1>7, <1>8, <1>9 DEF TextNext

(* The invariant of all the loops, for any texts, delimiters, data and buffer:
   what is built so far is what the call should build of the text behind it. *)
THEOREM TextInvariant == TextSpec => []TextInv
<1>1. TextInit => TextInv
  BY TextStart
<1>2. TextInv /\ [TextNext]_textVars => TextInv'
  BY TextStep
<1>3. QED  BY <1>1, <1>2, PTL DEF TextSpec

(* TextExact (cclstr.cc:37-166,247-313, cclsys.cc:370-433) for texts of any length
   and shape: what split, replace, the regular expressions, readln, read and
   format return when they return. *)
THEOREM TextTextExact == TextSpec => []TextExact
<1>1. TextInv => TextExact
  BY DEF TextInv
<1>2. QED  BY <1>1, TextInvariant, PTL

-----------------------------------------------------------------------------
(* The least of a set of numbers is in it and below the others. *)
LEMMA MinIs ==
  ASSUME NEW S, S \subseteq Nat, S # {}
  PROVE  Min(S) \in S /\ \A x \in S : Min(S) <= x
BY Least DEF Min

(* A function of bytes over 1 .. m is a sequence of m bytes. *)
LEMMA Bytes ==
  ASSUME NEW m \in Nat, NEW x \in [1 .. m -> 0 .. 255]
  PROVE  x \in Seq(0 .. 255) /\ Len(x) = m /\ DOMAIN x = 1 .. m
<1>1. x \in Seq(0 .. 255) /\ DOMAIN x = 1 .. m
  BY SeqDef
<1>2. QED  BY <1>1, LenProperties, SMT

(* No blank is a symbol. *)
LEMMA NoBlank ==
  ASSUME NEW c, c \in {9, 10, 13, 32, 45}
  PROVE  ~IsSymbol(c)
BY SMT DEF IsSymbol, Sign

(* Blanks are taken off at both ends, and symbols are no blanks. *)
LEMMA TrimmedIs ==
  ASSUME NEW d \in Seq(0 .. 255)
  PROVE  /\ Trimmed(d) \in Seq(0 .. 255) /\ Len(Trimmed(d)) <= Len(d)
         /\ (\A i \in DOMAIN d : IsSymbol(d[i])) => Trimmed(d) = d
<1> DEFINE n == Len(d)
           F == {i \in 1 .. n : d[i] \notin {9, 32}} \cup {n + 1}
           first == Min(F)
           rest == SubSeq(d, first, n)
           L == {k \in 0 .. Len(rest) : /\ k >= 3 \/ k = Len(rest)
                                        /\ \A i \in k + 1 .. Len(rest) :
                                             rest[i] \in {9, 10, 13, 32, 45}}
           last == Min(L)
<1>1. n \in Nat /\ DOMAIN d = 1 .. n /\ \A i \in 1 .. n : d[i] \in 0 .. 255
  BY LenProperties, ElementOfSeq
<1> HIDE DEF n
<1>2. F \subseteq 1 .. n + 1 /\ F \subseteq Nat /\ n + 1 \in F
  BY <1>1
<1>3. first \in F /\ \A i \in F : first <= i
  <2> HIDE DEF F
  <2>1. QED  BY <1>2, MinIs
<1>4. first \in 1 .. n + 1
  BY <1>2, <1>3
<1> HIDE DEF first
<1>5. rest \in Seq(0 .. 255) /\ Len(rest) \in Nat /\ Len(rest) <= n
  <2>1. \A i \in first .. n : d[i] \in 0 .. 255
    BY <1>1, <1>4
  <2>2. rest \in Seq(0 .. 255) /\ Len(rest) = IF first <= n THEN n - first + 1 ELSE 0
    BY <1>1, <1>4, <2>1, SubSeqProperties
  <2> HIDE DEF rest
  <2>3. QED  BY <1>1, <1>4, <2>2
<1> HIDE DEF rest
<1>6. L \subseteq 0 .. Len(rest) /\ L \subseteq Nat /\ Len(rest) \in L
  BY <1>5
<1>7. last \in L
  <2> HIDE DEF L
  <2>1. QED  BY <1>6, MinIs
<1>8. last \in 0 .. Len(rest)
  BY <1>6, <1>7
<1> HIDE DEF last
<1>9. Trimmed(d) = SubSeq(rest, 1, last)
  BY DEF Trimmed, last, L, rest, first, F, n
<1>10. Trimmed(d) \in Seq(0 .. 255) /\ Len(Trimmed(d)) = last
  <2>1. \A i \in 1 .. last : rest[i] \in 0 .. 255
    <3>1. \A i \in 1 .. Len(rest) : rest[i] \in 0 .. 255
      BY <1>5, ElementOfSeq
    <3>2. QED  BY <1>5, <1>8, <3>1
  <2>2. /\ SubSeq(rest, 1, last) \in Seq(0 .. 255)
        /\ Len(SubSeq(rest, 1, last)) = IF 1 <= last THEN last - 1 + 1 ELSE 0
    BY <1>8, <2>1, SubSeqProperties
  <2>3. QED  BY <1>8, <1>9, <2>2
<1>11. ASSUME \A i \in DOMAIN d : IsSymbol(d[i])
       PROVE  Trimmed(d) = d
  <2>1. \A i \in 1 .. n : d[i] \notin {9, 10, 13, 32, 45}
    BY <1>1, <1>11, NoBlank
  <2>2. 1 \in F
    BY <1>1, <2>1
  <2>3. first = 1
    BY <1>3, <1>4, <2>2
  <2>4. rest = d
    BY <2>3, SubSeqFull DEF rest, n
  <2>5. last = n
    <3>1. CASE last = Len(rest)
      BY <2>4, <3>1 DEF n
    <3>2. CASE last # Len(rest)
      <4>1. n \in last + 1 .. n /\ n \in 1 .. n
        <5>1. Len(rest) = n
          BY <2>4 DEF n
        <5> HIDE DEF L
        <5>2. QED  BY <1>1, <1>8, <3>2, <5>1
      <4>2. rest[n] \in {9, 10, 13, 32, 45}
        BY <1>7, <2>4, <4>1 DEF n
      <4>3. QED  BY <2>1, <2>4, <4>1, <4>2
    <3>3. QED  BY <3>1, <3>2
  <2>6. QED  BY <1>9, <2>4, <2>5, SubSeqFull DEF n
<1>12. QED  BY <1>5, <1>8, <1>10, <1>11 DEF n

(* A digit of base64 stands for six bits, *)
LEMMA SymbolIs ==
  ASSUME NEW n \in 0 .. 63
  PROVE  Symbol(n) \in 0 .. 255 /\ IsSymbol(Symbol(n)) /\ Sextet(Symbol(n)) = n
<1>1. CASE n < 26
  <2>1. Symbol(n) = 65 + n /\ Symbol(n) \in 65 .. 90
    BY <1>1, SMT DEF Symbol
  <2>2. QED  BY <2>1, SMT DEF IsSymbol, Sextet, Sign
<1>2. CASE n \in 26 .. 51
  <2>1. Symbol(n) = 97 + (n - 26) /\ Symbol(n) \in 97 .. 122
    BY <1>2, SMT DEF Symbol
  <2>2. QED  BY <2>1, SMT DEF IsSymbol, Sextet, Sign
<1>3. CASE n \in 52 .. 61
  <2>1. Symbol(n) = 48 + (n - 52) /\ Symbol(n) \in 48 .. 57
    BY <1>3, SMT DEF Symbol
  <2>2. QED  BY <2>1, SMT DEF IsSymbol, Sextet, Sign
<1>4. CASE n = 62
  <2>1. Symbol(n) = 43
    BY <1>4, SMT DEF Symbol
  <2>2. QED  BY <1>4, <2>1, SMT DEF IsSymbol, Sextet, Sign
<1>5. CASE n = 63
  <2>1. Symbol(n) = 47
    BY <1>5, SMT DEF Symbol
  <2>2. QED  BY <1>5, <2>1, SMT DEF IsSymbol, Sextet, Sign
<1>6. QED  BY <1>1, <1>2, <1>3, <1>4, <1>5, SMT

(* and nothing else does, but for '='. *)
LEMMA SextetIs ==
  ASSUME NEW c \in 0 .. 255, IsSymbol(c)
  PROVE  Sextet(c) \in 0 .. 63 /\ Symbol(Sextet(c)) = IF c = Sign THEN 65 ELSE c
<1>1. CASE c \in 65 .. 90
  <2>1. Sextet(c) = c - 65 /\ c # Sign
    BY <1>1, SMT DEF Sextet, Sign
  <2>2. QED  BY <1>1, <2>1, SMT DEF Symbol
<1>2. CASE c \in 97 .. 122
  <2>1. Sextet(c) = 26 + (c - 97) /\ c # Sign
    BY <1>2, SMT DEF Sextet, Sign
  <2>2. QED  BY <1>2, <2>1, SMT DEF Symbol
<1>3. CASE c \in 48 .. 57
  <2>1. Sextet(c) = 52 + (c - 48) /\ c # Sign
    BY <1>3, SMT DEF Sextet, Sign
  <2>2. QED  BY <1>3, <2>1, SMT DEF Symbol
<1>4. CASE c = 43
  <2>1. Sextet(c) = 62 /\ c # Sign
    BY <1>4, SMT DEF Sextet, Sign
  <2>2. QED  BY <1>4, <2>1, SMT DEF Symbol
<1>5. CASE c = 47
  <2>1. Sextet(c) = 63 /\ c # Sign
    BY <1>5, SMT DEF Sextet, Sign
  <2>2. QED  BY <1>5, <2>1, SMT DEF Symbol
<1>6. CASE c = Sign
  <2>1. Sextet(c) = 0
    BY <1>6, SMT DEF Sextet, Sign
  <2>2. QED  BY <1>6, <2>1, SMT DEF Symbol
<1>7. QED  BY <1>1, <1>2, <1>3, <1>4, <1>5, <1>6 DEF IsSymbol

(* Three bytes as four times six bits, *)
Regained(x, y, z) ==
  /\ \A q \in 0 .. 3 : Cut(q, x, y, z) \in 0 .. 63
  /\ Joined(0, Cut(0, x, y, z), Cut(1, x, y, z), Cut(2, x, y, z), Cut(3, x, y, z)) = x
  /\ Joined(1, Cut(0, x, y, z), Cut(1, x, y, z), Cut(2, x, y, z), Cut(3, x, y, z)) = y
  /\ Joined(2, Cut(0, x, y, z), Cut(1, x, y, z), Cut(2, x, y, z), Cut(3, x, y, z)) = z

LEMMA GroupThere ==
  ASSUME NEW x \in 0 .. 255, NEW y \in 0 .. 255, NEW z \in 0 .. 255
  PROVE  Regained(x, y, z)
<1>1. /\ x \div 4 \in 0 .. 63 /\ x % 4 \in 0 .. 3 /\ (x \div 4) * 4 + (x % 4) = x
      /\ y \div 16 \in 0 .. 15 /\ y % 16 \in 0 .. 15 /\ (y \div 16) * 16 + (y % 16) = y
      /\ z \div 64 \in 0 .. 3 /\ z % 64 \in 0 .. 63 /\ (z \div 64) * 64 + (z % 64) = z
  <2>1. x \div 4 \in 0 .. 63 /\ x % 4 \in 0 .. 3 /\ (x \div 4) * 4 + (x % 4) = x
    BY SMT
  <2>2. y \div 16 \in 0 .. 15 /\ y % 16 \in 0 .. 15 /\ (y \div 16) * 16 + (y % 16) = y
    BY SMT
  <2>3. z \div 64 \in 0 .. 3 /\ z % 64 \in 0 .. 63 /\ (z \div 64) * 64 + (z % 64) = z
    BY SMT
  <2>4. QED  BY <2>1, <2>2, <2>3
<1> DEFINE d == x \div 4
           e == (x % 4) * 16 + y \div 16
           f == (y % 16) * 4 + z \div 64
           g == z % 64
<1>2. /\ Cut(0, x, y, z) = d /\ Cut(1, x, y, z) = e
      /\ Cut(2, x, y, z) = f /\ Cut(3, x, y, z) = g
  BY DEF Cut
<1>3. /\ d \in 0 .. 63 /\ e \in 0 .. 63 /\ f \in 0 .. 63 /\ g \in 0 .. 63
      /\ e \div 16 = x % 4 /\ e % 16 = y \div 16 /\ f \div 4 = y % 16 /\ f % 4 = z \div 64
  BY <1>1, SMT
<1>4. d * 4 + e \div 16 = x /\ (e % 16) * 16 + f \div 4 = y /\ (f % 4) * 64 + g = z
  BY <1>1, <1>3, SMT
<1> HIDE DEF d, e, f, g
<1>5. /\ Joined(0, d, e, f, g) = d * 4 + e \div 16
      /\ Joined(1, d, e, f, g) = (e % 16) * 16 + f \div 4
      /\ Joined(2, d, e, f, g) = (f % 4) * 64 + g
  BY DEF Joined
<1>6. \A q \in 0 .. 3 : Cut(q, x, y, z) \in 0 .. 63
  BY <1>2, <1>3, SMT
<1>7. QED  BY <1>2, <1>4, <1>5, <1>6 DEF Regained

(* and back. *)
Parts(d, e, f, g) ==
  /\ \A q \in 0 .. 2 : Joined(q, d, e, f, g) \in 0 .. 255
  /\ Cut(0, Joined(0, d, e, f, g), Joined(1, d, e, f, g), Joined(2, d, e, f, g)) = d
  /\ Cut(1, Joined(0, d, e, f, g), Joined(1, d, e, f, g), Joined(2, d, e, f, g)) = e
  /\ Cut(2, Joined(0, d, e, f, g), Joined(1, d, e, f, g), Joined(2, d, e, f, g)) = f
  /\ Cut(3, Joined(0, d, e, f, g), Joined(1, d, e, f, g), Joined(2, d, e, f, g)) = g

LEMMA GroupBack ==
  ASSUME NEW d \in 0 .. 63, NEW e \in 0 .. 63, NEW f \in 0 .. 63, NEW g \in 0 .. 63
  PROVE  Parts(d, e, f, g)
<1>1. /\ e \div 16 \in 0 .. 3 /\ e % 16 \in 0 .. 15 /\ (e \div 16) * 16 + (e % 16) = e
      /\ f \div 4 \in 0 .. 15 /\ f % 4 \in 0 .. 3 /\ (f \div 4) * 4 + (f % 4) = f
  <2>1. e \div 16 \in 0 .. 3 /\ e % 16 \in 0 .. 15 /\ (e \div 16) * 16 + (e % 16) = e
    BY SMT
  <2>2. f \div 4 \in 0 .. 15 /\ f % 4 \in 0 .. 3 /\ (f \div 4) * 4 + (f % 4) = f
    BY SMT
  <2>3. QED  BY <2>1, <2>2
<1> DEFINE x == d * 4 + e \div 16
           y == (e % 16) * 16 + f \div 4
           z == (f % 4) * 64 + g
<1>2. /\ Joined(0, d, e, f, g) = x /\ Joined(1, d, e, f, g) = y /\ Joined(2, d, e, f, g) = z
  BY DEF Joined
<1>3. /\ x \in 0 .. 255 /\ y \in 0 .. 255 /\ z \in 0 .. 255
      /\ x \div 4 = d /\ x % 4 = e \div 16 /\ y \div 16 = e % 16 /\ y % 16 = f \div 4
      /\ z \div 64 = f % 4 /\ z % 64 = g
  BY <1>1, SMT
<1>4. (x % 4) * 16 + y \div 16 = e /\ (y % 16) * 4 + z \div 64 = f
  BY <1>1, <1>3, SMT
<1> HIDE DEF x, y, z
<1>5. /\ Cut(0, x, y, z) = x \div 4 /\ Cut(1, x, y, z) = (x % 4) * 16 + y \div 16
      /\ Cut(2, x, y, z) = (y % 16) * 4 + z \div 64 /\ Cut(3, x, y, z) = z % 64
  BY DEF Cut
<1>6. \A q \in 0 .. 2 : Joined(q, d, e, f, g) \in 0 .. 255
  BY <1>2, <1>3, SMT
<1>7. QED  BY <1>2, <1>3, <1>4, <1>5, <1>6 DEF Parts

(* i is in the j-th group of c, and the r-th there. *)
LEMMA InGroup ==
  ASSUME NEW c \in {3, 4}, NEW m \in Nat, NEW i \in 1 .. c * m
  PROVE  LET j == (i - 1) \div c
             r == (i - 1) % c
         IN  j \in 0 .. m - 1 /\ r \in 0 .. c - 1 /\ i = c * j + r + 1
<1>1. CASE c = 3
  BY <1>1, SMT
<1>2. CASE c = 4
  BY <1>2, SMT
<1>3. QED  BY <1>1, <1>2

(* base64: what was encoded is decoded, but for the zeros that fill the    *)
(* last group (cclcrypto.cc:165-206), *)
LEMMA Base64There ==
  ASSUME NEW d \in Seq(0 .. 255)
  PROVE  LET coded == Base64Encode(d)
         IN  /\ Base64Decode(coded) = d \o [i \in 1 .. Pad(Len(d)) |-> 0]
             /\ Len(coded) < EncodeRoom(Len(d))
<1> DEFINE n == Len(d)
           p == Pad(n)
           zeros == [i \in 1 .. p |-> 0]
           full == d \o zeros
           m == Len(full) \div 3
           coded == Base64Encode(d)
           C(q, j) == Cut(q, full[j * 3 + 1], full[j * 3 + 2], full[j * 3 + 3])
<1>1. n \in Nat
  BY LenProperties
<1>2. p \in 0 .. 2 /\ (n + p) % 3 = 0
  <2> HIDE DEF n
  <2>1. QED  BY <1>1, SMT DEF Pad
<1> HIDE DEF n, p
<1>3. zeros \in Seq(0 .. 255) /\ Len(zeros) = p /\ \A i \in 1 .. p : zeros[i] = 0
  <2>1. zeros \in [1 .. p -> 0 .. 255]
    OBVIOUS
  <2>2. \A i \in 1 .. p : zeros[i] = 0
    OBVIOUS
  <2> HIDE DEF zeros
  <2>3. QED  BY <1>2, <2>1, <2>2, Bytes
<1> HIDE DEF zeros
<1>4. /\ full \in Seq(0 .. 255) /\ Len(full) = n + p
      /\ \A i \in 1 .. n + p : full[i] = IF i <= n THEN d[i] ELSE zeros[i - n]
  BY <1>3, ConcatProperties DEF n
<1> HIDE DEF full
<1>5. m \in Nat /\ n + p = 3 * m /\ Len(full) = 3 * m
  BY <1>1, <1>2, <1>4, SMT
<1> HIDE DEF m
<1>6. \A i \in 1 .. 3 * m : full[i] \in 0 .. 255
  BY <1>4, <1>5, ElementOfSeq
<1>7. \A j \in 0 .. m - 1 : /\ j * 3 + 1 \in 1 .. 3 * m /\ j * 3 + 2 \in 1 .. 3 * m
                            /\ j * 3 + 3 \in 1 .. 3 * m
  BY <1>5, SMT
<1>8. \A j \in 0 .. m - 1 : \A q \in 0 .. 3 : C(q, j) \in 0 .. 63
  <2> SUFFICES ASSUME NEW j \in 0 .. m - 1
               PROVE  \A q \in 0 .. 3 : C(q, j) \in 0 .. 63
    OBVIOUS
  <2>1. /\ full[j * 3 + 1] \in 0 .. 255 /\ full[j * 3 + 2] \in 0 .. 255
        /\ full[j * 3 + 3] \in 0 .. 255
    BY <1>6, <1>7
  <2>2. Regained(full[j * 3 + 1], full[j * 3 + 2], full[j * 3 + 3])
    BY <2>1, GroupThere
  <2>3. QED  BY <2>2 DEF Regained
<1>9. coded = [i \in 1 .. 4 * m |-> IF i > 4 * m - p THEN Sign
                                    ELSE Symbol(C((i - 1) % 4, (i - 1) \div 4))]
  <2>1. m * 4 = 4 * m
    BY <1>5
  <2>2. coded = [i \in 1 .. m * 4 |-> IF i > m * 4 - p THEN Sign
                                      ELSE Symbol(C((i - 1) % 4, (i - 1) \div 4))]
    BY DEF Base64Encode, m, full, zeros, p, n
  <2>3. QED  BY <2>1, <2>2
<1> HIDE DEF coded
(* The digits '=' stands for are zero. *)
<1>10. \A i \in 1 .. 4 * m : i > 4 * m - p => C((i - 1) % 4, (i - 1) \div 4) = 0
  <2> SUFFICES ASSUME NEW i \in 1 .. 4 * m, i > 4 * m - p
               PROVE  C((i - 1) % 4, (i - 1) \div 4) = 0
    OBVIOUS
  <2> DEFINE j == (i - 1) \div 4
             q == (i - 1) % 4
  <2>1. j \in 0 .. m - 1 /\ q \in 0 .. 3 /\ i = 4 * j + q + 1
    BY <1>5, InGroup
  <2> HIDE DEF j, q
  <2>2. j = m - 1 /\ q > 3 - p /\ p \in {1, 2}
    BY <1>2, <1>5, <2>1, SMT
  <2>3. full[j * 3 + 3] = 0 /\ (p = 2 => full[j * 3 + 2] = 0)
    <3>1. j * 3 + 3 = n + p /\ j * 3 + 2 = n + p - 1 /\ n + p \in 1 .. n + p
      BY <1>1, <1>2, <1>5, <2>2, SMT
    <3>2. full[n + p] = 0
      <4>1. ~(n + p <= n) /\ (n + p) - n = p /\ p \in 1 .. p
        BY <1>1, <2>2
      <4>2. QED  BY <1>3, <1>4, <3>1, <4>1
    <3>3. p = 2 => full[n + p - 1] = 0
      <4> HAVE p = 2
      <4>1. n + p - 1 \in 1 .. n + p /\ ~(n + p - 1 <= n) /\ (n + p - 1) - n = 1 /\ 1 \in 1 .. p
        BY <1>1, <2>2
      <4>2. QED  BY <1>3, <1>4, <4>1
    <3>4. QED  BY <3>1, <3>2, <3>3
  <2>4. /\ C(3, j) = (full[j * 3 + 3] % 64)
        /\ C(2, j) = (full[j * 3 + 2] % 16) * 4 + (full[j * 3 + 3] \div 64)
    BY DEF Cut
  <2>5. C(3, j) = 0 /\ (p = 2 => C(2, j) = 0)
    BY <2>3, <2>4, SMT
  <2>6. q = 3 \/ (q = 2 /\ p = 2)
    BY <2>1, <2>2
  <2>7. C(q, j) = 0
    BY <2>5, <2>6
  <2>8. QED  BY <2>7 DEF q, j
<1>11. \A i \in 1 .. 4 * m :
         C((i - 1) % 4, (i - 1) \div 4) \in 0 .. 63
  <2> SUFFICES ASSUME NEW i \in 1 .. 4 * m
               PROVE  C((i - 1) % 4, (i - 1) \div 4) \in 0 .. 63
    OBVIOUS
  <2> DEFINE j == (i - 1) \div 4
             q == (i - 1) % 4
  <2>1. j \in 0 .. m - 1 /\ q \in 0 .. 3
    BY <1>5, InGroup
  <2> HIDE DEF j, q
  <2>2. C(q, j) \in 0 .. 63
    BY <1>8, <2>1
  <2>3. QED  BY <2>2 DEF q, j
<1>12. \A i \in 1 .. 4 * m :
         /\ coded[i] \in 0 .. 255 /\ IsSymbol(coded[i])
         /\ Sextet(coded[i]) = C((i - 1) % 4, (i - 1) \div 4)
  <2> SUFFICES ASSUME NEW i \in 1 .. 4 * m
               PROVE  /\ coded[i] \in 0 .. 255 /\ IsSymbol(coded[i])
                      /\ Sextet(coded[i]) = C((i - 1) % 4, (i - 1) \div 4)
    OBVIOUS
  <2> DEFINE v == C((i - 1) % 4, (i - 1) \div 4)
  <2>1. v \in 0 .. 63 /\ (i > 4 * m - p => v = 0)
    BY <1>10, <1>11
  <2>2. coded[i] = IF i > 4 * m - p THEN Sign ELSE Symbol(v)
    BY <1>9
  <2> HIDE DEF v, C
  <2>3. Sign \in 0 .. 255 /\ IsSymbol(Sign) /\ Sextet(Sign) = 0
    BY SMT DEF Sign, IsSymbol, Sextet
  <2>4. coded[i] \in 0 .. 255 /\ IsSymbol(coded[i]) /\ Sextet(coded[i]) = v
    <3>1. CASE i > 4 * m - p
      BY <2>1, <2>2, <2>3, <3>1
    <3>2. CASE ~(i > 4 * m - p)
      <4>1. coded[i] = Symbol(v)
        BY <2>2, <3>2
      <4>2. QED  BY <2>1, <4>1, SymbolIs
    <3>3. QED  BY <3>1, <3>2
  <2>5. QED  BY <2>4 DEF v
<1>13. coded \in Seq(0 .. 255) /\ Len(coded) = 4 * m /\ DOMAIN coded = 1 .. 4 * m
  <2>1. 4 * m \in Nat
    BY <1>5
  <2>2. DOMAIN coded = 1 .. 4 * m /\ coded = [i \in 1 .. 4 * m |-> coded[i]]
    BY <1>9
  <2>3. coded \in [1 .. 4 * m -> 0 .. 255]
    BY <1>12, <2>2
  <2>4. QED  BY <2>1, <2>3, Bytes
<1>14. Trimmed(coded) = coded
  BY <1>12, <1>13, TrimmedIs
<1> DEFINE W(i, a) == Sextet(coded[((i - 1) \div 3) * 4 + a])
<1>15. Base64Decode(coded) =
         [i \in 1 .. 3 * m |-> Joined((i - 1) % 3, W(i, 1), W(i, 2), W(i, 3), W(i, 4))]
  <2>1. Len(coded) % 4 = 0 /\ (Len(coded) \div 4) * 3 = 3 * m
    BY <1>5, <1>13, SMT
  <2>2. ~\E i \in DOMAIN coded : ~IsSymbol(coded[i])
    BY <1>12, <1>13
  <2>3. QED  BY <1>14, <2>1, <2>2 DEF Base64Decode
<1>16. \A i \in 1 .. 3 * m :
         Joined((i - 1) % 3, W(i, 1), W(i, 2), W(i, 3), W(i, 4)) = full[i]
  <2> SUFFICES ASSUME NEW i \in 1 .. 3 * m
               PROVE  Joined((i - 1) % 3, W(i, 1), W(i, 2), W(i, 3), W(i, 4)) = full[i]
    OBVIOUS
  <2> DEFINE j == (i - 1) \div 3
             r == (i - 1) % 3
             x == full[j * 3 + 1]
             y == full[j * 3 + 2]
             z == full[j * 3 + 3]
  <2>1. j \in 0 .. m - 1 /\ r \in 0 .. 2 /\ i = 3 * j + r + 1
    BY <1>5, InGroup
  <2>2. W(i, 1) = Sextet(coded[j * 4 + 1]) /\ W(i, 2) = Sextet(coded[j * 4 + 2])
        /\ W(i, 3) = Sextet(coded[j * 4 + 3]) /\ W(i, 4) = Sextet(coded[j * 4 + 4])
    OBVIOUS
  <2>3. \/ r = 0 /\ i = j * 3 + 1
        \/ r = 1 /\ i = j * 3 + 2
        \/ r = 2 /\ i = j * 3 + 3
    <3> HIDE DEF j, r, C, W, x, y, z
    <3>1. j \in Int /\ (r = 0 \/ r = 1 \/ r = 2)
      BY <1>5, <2>1
    <3>2. QED  BY <2>1, <3>1
  <2> HIDE DEF j, W
  <2>4. \A q \in 0 .. 3 : Sextet(coded[j * 4 + (q + 1)]) = C(q, j)
    <3> SUFFICES ASSUME NEW q \in 0 .. 3
                 PROVE  Sextet(coded[j * 4 + (q + 1)]) = C(q, j)
      OBVIOUS
    <3> DEFINE k == j * 4 + (q + 1)
    <3>1. k \in 1 .. 4 * m /\ (k - 1) % 4 = q /\ (k - 1) \div 4 = j
      BY <1>5, <2>1, SMT
    <3> HIDE DEF k, C
    <3>2. Sextet(coded[k]) = C(q, j)
      BY <1>12, <3>1
    <3>3. QED  BY <3>2 DEF k
  <2>5. /\ W(i, 1) = Cut(0, x, y, z) /\ W(i, 2) = Cut(1, x, y, z)
        /\ W(i, 3) = Cut(2, x, y, z) /\ W(i, 4) = Cut(3, x, y, z)
    <3>1. \A q \in 0 .. 3 : Sextet(coded[j * 4 + (q + 1)]) = Cut(q, x, y, z)
      BY <2>4
    <3> HIDE DEF x, y, z, C
    <3>2. 0 + 1 = 1 /\ 1 + 1 = 2 /\ 2 + 1 = 3 /\ 3 + 1 = 4
      OBVIOUS
    <3>3. /\ Sextet(coded[j * 4 + (0 + 1)]) = Cut(0, x, y, z)
          /\ Sextet(coded[j * 4 + (1 + 1)]) = Cut(1, x, y, z)
          /\ Sextet(coded[j * 4 + (2 + 1)]) = Cut(2, x, y, z)
          /\ Sextet(coded[j * 4 + (3 + 1)]) = Cut(3, x, y, z)
      BY <3>1
    <3>4. QED  BY <2>2, <3>2, <3>3
  <2>6. x \in 0 .. 255 /\ y \in 0 .. 255 /\ z \in 0 .. 255
    BY <1>6, <1>7, <2>1
  <2>7. full[i] = IF r = 0 THEN x ELSE IF r = 1 THEN y ELSE z
    <3> HIDE DEF r
    <3>1. QED  BY <2>3
  <2> HIDE DEF x, y, z
  <2>8. Joined(r, W(i, 1), W(i, 2), W(i, 3), W(i, 4)) = full[i]
    <3>1. /\ Joined(0, W(i, 1), W(i, 2), W(i, 3), W(i, 4)) = x
          /\ Joined(1, W(i, 1), W(i, 2), W(i, 3), W(i, 4)) = y
          /\ Joined(2, W(i, 1), W(i, 2), W(i, 3), W(i, 4)) = z
      <4>1. /\ Joined(0, Cut(0, x, y, z), Cut(1, x, y, z), Cut(2, x, y, z), Cut(3, x, y, z)) = x
            /\ Joined(1, Cut(0, x, y, z), Cut(1, x, y, z), Cut(2, x, y, z), Cut(3, x, y, z)) = y
            /\ Joined(2, Cut(0, x, y, z), Cut(1, x, y, z), Cut(2, x, y, z), Cut(3, x, y, z)) = z
        <5>1. Regained(x, y, z)
          BY <2>6, GroupThere
        <5>2. QED  BY <5>1 DEF Regained
      <4>2. QED  BY <2>5, <4>1, Zenon
    <3> HIDE DEF r
    <3>2. QED  BY <2>1, <2>7, <3>1
  <2>9. QED  BY <2>8
<1> HIDE DEF W
<1>17. Base64Decode(coded) = full
  <2>1. full = [i \in 1 .. 3 * m |-> full[i]]
    BY <1>4, <1>5, LenProperties
  <2>2. QED  BY <1>15, <1>16, <2>1
<1>18. 4 * m < (n \div 3 + 1) * 4 + 1
  BY <1>1, <1>2, <1>5, SMT
<1>19. QED
  BY <1>13, <1>17, <1>18 DEF EncodeRoom, coded, full, zeros, p, n

(* and what is decoded is an encoding, whose last group '=' may fill with  *)
(* zeros, wherever it is; blanks around it are skipped.                    *)
LEMMA Base64Back ==
  ASSUME NEW d \in Seq(0 .. 255), Base64Decode(d) # Error
  PROVE  LET back == Base64Decode(d)
             w == Trimmed(d)
         IN  /\ Len(back) < DecodeRoom(Len(d))
             /\ Base64Encode(back) = [i \in DOMAIN w |-> IF w[i] = Sign THEN 65 ELSE w[i]]
<1> DEFINE w == Trimmed(d)
           back == Base64Decode(d)
           m == Len(w) \div 4
           S(i) == Sextet(w[i])
           B(r, j) == Joined(r, S(j * 4 + 1), S(j * 4 + 2), S(j * 4 + 3), S(j * 4 + 4))
<1>1. w \in Seq(0 .. 255) /\ Len(w) <= Len(d) /\ Len(w) \in Nat /\ Len(d) \in Nat
  BY TrimmedIs, LenProperties
<1>2. /\ Len(w) % 4 = 0 /\ \A i \in DOMAIN w : IsSymbol(w[i])
      /\ back = [i \in 1 .. m * 3 |-> B((i - 1) % 3, (i - 1) \div 3)]
  BY DEF Base64Decode
<1> HIDE DEF w, back
<1>3. m \in Nat /\ Len(w) = 4 * m /\ DOMAIN w = 1 .. 4 * m /\ m * 3 = 3 * m
      /\ \A i \in 1 .. 4 * m : w[i] \in 0 .. 255
  <2>1. m \in Nat /\ Len(w) = 4 * m /\ m * 3 = 3 * m
    BY <1>1, <1>2, SMT
  <2>2. DOMAIN w = 1 .. Len(w) /\ \A i \in 1 .. Len(w) : w[i] \in 0 .. 255
    BY <1>1, LenProperties, ElementOfSeq
  <2> HIDE DEF m
  <2>3. QED  BY <2>1, <2>2
<1> HIDE DEF m
<1>4. \A i \in 1 .. 4 * m : /\ S(i) \in 0 .. 63
                            /\ Symbol(S(i)) = IF w[i] = Sign THEN 65 ELSE w[i]
  BY <1>2, <1>3, SextetIs
<1> HIDE DEF S
<1>5. \A j \in 0 .. m - 1 :
        /\ \A r \in 0 .. 2 : B(r, j) \in 0 .. 255
        /\ Cut(0, B(0, j), B(1, j), B(2, j)) = S(j * 4 + 1)
        /\ Cut(1, B(0, j), B(1, j), B(2, j)) = S(j * 4 + 2)
        /\ Cut(2, B(0, j), B(1, j), B(2, j)) = S(j * 4 + 3)
        /\ Cut(3, B(0, j), B(1, j), B(2, j)) = S(j * 4 + 4)
  <2> SUFFICES ASSUME NEW j \in 0 .. m - 1
               PROVE  /\ \A r \in 0 .. 2 : B(r, j) \in 0 .. 255
                      /\ Cut(0, B(0, j), B(1, j), B(2, j)) = S(j * 4 + 1)
                      /\ Cut(1, B(0, j), B(1, j), B(2, j)) = S(j * 4 + 2)
                      /\ Cut(2, B(0, j), B(1, j), B(2, j)) = S(j * 4 + 3)
                      /\ Cut(3, B(0, j), B(1, j), B(2, j)) = S(j * 4 + 4)
    OBVIOUS
  <2>1. /\ j * 4 + 1 \in 1 .. 4 * m /\ j * 4 + 2 \in 1 .. 4 * m
        /\ j * 4 + 3 \in 1 .. 4 * m /\ j * 4 + 4 \in 1 .. 4 * m
    BY <1>3, SMT
  <2>2. /\ S(j * 4 + 1) \in 0 .. 63 /\ S(j * 4 + 2) \in 0 .. 63
        /\ S(j * 4 + 3) \in 0 .. 63 /\ S(j * 4 + 4) \in 0 .. 63
    BY <1>4, <2>1
  <2> DEFINE e1 == S(j * 4 + 1)
             e2 == S(j * 4 + 2)
             e3 == S(j * 4 + 3)
             e4 == S(j * 4 + 4)
  <2> HIDE DEF e1, e2, e3, e4
  <2>3. e1 \in 0 .. 63 /\ e2 \in 0 .. 63 /\ e3 \in 0 .. 63 /\ e4 \in 0 .. 63
    BY <2>2 DEF e1, e2, e3, e4
  <2>4. \A r : B(r, j) = Joined(r, e1, e2, e3, e4)
    BY DEF e1, e2, e3, e4
  <2> HIDE DEF B
  <2>5. /\ \A r \in 0 .. 2 : B(r, j) \in 0 .. 255
        /\ Cut(0, B(0, j), B(1, j), B(2, j)) = e1
        /\ Cut(1, B(0, j), B(1, j), B(2, j)) = e2
        /\ Cut(2, B(0, j), B(1, j), B(2, j)) = e3
        /\ Cut(3, B(0, j), B(1, j), B(2, j)) = e4
    <3>1. Parts(e1, e2, e3, e4)
      BY <2>3, GroupBack
    <3>2. \A r \in 0 .. 2 : B(r, j) \in 0 .. 255
      BY <2>4, <3>1 DEF Parts
    <3>3. /\ B(0, j) = Joined(0, e1, e2, e3, e4) /\ B(1, j) = Joined(1, e1, e2, e3, e4)
          /\ B(2, j) = Joined(2, e1, e2, e3, e4)
      BY <2>4
    <3>4. /\ Cut(0, B(0, j), B(1, j), B(2, j)) = e1
          /\ Cut(1, B(0, j), B(1, j), B(2, j)) = e2
          /\ Cut(2, B(0, j), B(1, j), B(2, j)) = e3
          /\ Cut(3, B(0, j), B(1, j), B(2, j)) = e4
      BY <3>1, <3>3, Zenon DEF Parts
    <3>5. QED  BY <3>2, <3>4
  <2>6. QED  BY <2>5 DEF e1, e2, e3, e4
<1> HIDE DEF B
<1>6. \A j \in 0 .. m - 1 : /\ back[j * 3 + 1] = B(0, j) /\ back[j * 3 + 2] = B(1, j)
                            /\ back[j * 3 + 3] = B(2, j)
  <2> SUFFICES ASSUME NEW j \in 0 .. m - 1
               PROVE  /\ back[j * 3 + 1] = B(0, j) /\ back[j * 3 + 2] = B(1, j)
                      /\ back[j * 3 + 3] = B(2, j)
    OBVIOUS
  <2>2. \A r \in 0 .. 2 : back[j * 3 + (r + 1)] = B(r, j)
    <3> SUFFICES ASSUME NEW r \in 0 .. 2
                 PROVE  back[j * 3 + (r + 1)] = B(r, j)
      OBVIOUS
    <3> DEFINE k == j * 3 + (r + 1)
    <3>1. k \in 1 .. m * 3 /\ (k - 1) % 3 = r /\ (k - 1) \div 3 = j
      BY <1>3, SMT
    <3> HIDE DEF k
    <3>2. back[k] = B(r, j)
      BY <1>2, <3>1
    <3>3. QED  BY <3>2 DEF k
  <2>3. /\ back[j * 3 + (0 + 1)] = B(0, j) /\ back[j * 3 + (1 + 1)] = B(1, j)
        /\ back[j * 3 + (2 + 1)] = B(2, j)
    BY <2>2
  <2>4. 0 + 1 = 1 /\ 1 + 1 = 2 /\ 2 + 1 = 3
    OBVIOUS
  <2>5. QED  BY <2>3, <2>4
<1>7. back \in Seq(0 .. 255) /\ Len(back) = 3 * m
  <2>1. \A i \in 1 .. m * 3 : B((i - 1) % 3, (i - 1) \div 3) \in 0 .. 255
    <3> SUFFICES ASSUME NEW i \in 1 .. m * 3
                 PROVE  B((i - 1) % 3, (i - 1) \div 3) \in 0 .. 255
      OBVIOUS
    <3>1. (i - 1) \div 3 \in 0 .. m - 1 /\ (i - 1) % 3 \in 0 .. 2
      <4>1. i \in 1 .. 3 * m
        BY <1>3
      <4>2. QED  BY <1>3, <4>1, InGroup
    <3>2. QED  BY <1>5, <3>1
  <2>2. back \in [1 .. 3 * m -> 0 .. 255] /\ 3 * m \in Nat
    BY <1>2, <1>3, <2>1
  <2>3. QED  BY <2>2, Bytes
<1>8. Pad(Len(back)) = 0
  BY <1>3, <1>7, SMT DEF Pad
<1> DEFINE full == back \o [i \in 1 .. 0 |-> 0]
<1>9. full = back
  <2>1. [i \in 1 .. 0 |-> 0] = <<>>
    OBVIOUS
  <2>2. QED  BY <1>7, <2>1, ConcatEmptySeq
<1>10. Base64Encode(back) =
         [i \in 1 .. 4 * m |->
            LET k == ((i - 1) \div 4) * 3
            IN  Symbol(Cut((i - 1) % 4, back[k + 1], back[k + 2], back[k + 3]))]
  <2> HIDE DEF full
  <2>1. (Len(full) \div 3) * 4 = 4 * m
    <3>1. Len(full) = 3 * m
      BY <1>7, <1>9
    <3>2. QED  BY <1>3, <3>1, SMT
  <2>2. \A i \in 1 .. 4 * m : ~(i > 4 * m - 0)
    BY <1>3
  <2>3. Base64Encode(back) =
         [i \in 1 .. 4 * m |->
            LET k == ((i - 1) \div 4) * 3
            IN  IF i > 4 * m - 0 THEN Sign
                ELSE Symbol(Cut((i - 1) % 4, full[k + 1], full[k + 2], full[k + 3]))]
    BY <1>8, <2>1 DEF Base64Encode, full
  <2>4. QED  BY <1>9, <2>2, <2>3
<1> HIDE DEF full
<1>11. \A i \in 1 .. 4 * m :
         LET k == ((i - 1) \div 4) * 3
         IN  Cut((i - 1) % 4, back[k + 1], back[k + 2], back[k + 3]) = S(i)
  <2> SUFFICES ASSUME NEW i \in 1 .. 4 * m
               PROVE  LET k == ((i - 1) \div 4) * 3
                      IN  Cut((i - 1) % 4, back[k + 1], back[k + 2], back[k + 3]) = S(i)
    OBVIOUS
  <2> DEFINE j == (i - 1) \div 4
             q == (i - 1) % 4
  <2>1. j \in 0 .. m - 1 /\ q \in 0 .. 3 /\ i = 4 * j + q + 1
    BY <1>3, InGroup
  <2> HIDE DEF j, q
  <2>2. \/ q = 0 /\ i = j * 4 + 1
        \/ q = 1 /\ i = j * 4 + 2
        \/ q = 2 /\ i = j * 4 + 3
        \/ q = 3 /\ i = j * 4 + 4
    <3>1. j \in Int /\ (q = 0 \/ q = 1 \/ q = 2 \/ q = 3)
      BY <1>3, <2>1
    <3>2. QED  BY <2>1, <3>1
  <2>3. Cut(q, B(0, j), B(1, j), B(2, j)) = S(i)
    BY <1>5, <2>1, <2>2
  <2>4. Cut(q, back[j * 3 + 1], back[j * 3 + 2], back[j * 3 + 3]) = S(i)
    BY <1>6, <2>1, <2>3
  <2>5. QED  BY <2>4 DEF j, q
<1>12. Base64Encode(back) = [i \in 1 .. 4 * m |-> Symbol(S(i))]
  BY <1>10, <1>11
<1>13. Base64Encode(back) = [i \in DOMAIN w |-> IF w[i] = Sign THEN 65 ELSE w[i]]
  BY <1>3, <1>4, <1>12
<1>14. Len(back) < DecodeRoom(Len(d))
  BY <1>1, <1>3, <1>7, SMT DEF DecodeRoom
<1>15. QED  BY <1>13, <1>14 DEF back, w

(* The digits of an encoding. *)
LEMMA Base16Is ==
  ASSUME NEW d \in Seq(0 .. 255)
  PROVE  LET x == Base16Encode(d)
         IN  /\ DOMAIN x = 1 .. 2 * Len(d) /\ Len(x) = 2 * Len(d) /\ x \in Seq(0 .. 255)
             /\ \A i \in 1 .. 2 * Len(d) :
                  x[i] = Digit(IF i % 2 = 1 THEN d[(i + 1) \div 2] \div 16
                               ELSE d[(i + 1) \div 2] % 16)
<1> DEFINE n == Len(d)
           x == Base16Encode(d)
           V(i) == IF i % 2 = 1 THEN d[(i + 1) \div 2] \div 16 ELSE d[(i + 1) \div 2] % 16
<1>1. n \in Nat /\ 2 * n \in Nat /\ \A i \in 1 .. n : d[i] \in 0 .. 255
  BY LenProperties, ElementOfSeq
<1>2. x = [i \in 1 .. 2 * n |-> Digit(V(i))]
  BY DEF Base16Encode
<1> HIDE DEF n, x
<1>3. \A i \in 1 .. 2 * n : Digit(V(i)) \in 0 .. 255
  <2> SUFFICES ASSUME NEW i \in 1 .. 2 * n
               PROVE  Digit(V(i)) \in 0 .. 255
    OBVIOUS
  <2> DEFINE a == d[(i + 1) \div 2]
  <2>1. a \in 0 .. 255
    <3>1. (i + 1) \div 2 \in 1 .. n
      BY <1>1, SMT
    <3>2. QED  BY <1>1, <3>1
  <2>2. V(i) = IF i % 2 = 1 THEN a \div 16 ELSE a % 16
    OBVIOUS
  <2> HIDE DEF a, V
  <2>3. V(i) \in 0 .. 15
    <3>1. a \div 16 \in 0 .. 15 /\ a % 16 \in 0 .. 15
      BY <2>1, SMT
    <3>2. QED  BY <2>2, <3>1
  <2> DEFINE v == V(i)
  <2>4. v \in 0 .. 15
    BY <2>3
  <2> HIDE DEF v
  <2>5. Digit(v) \in 0 .. 255
    BY <2>4, SMT DEF Digit
  <2>6. QED  BY <2>5 DEF v
<1> HIDE DEF V
<1>4. x \in [1 .. 2 * n -> 0 .. 255]
  BY <1>2, <1>3
<1>5. x \in Seq(0 .. 255) /\ Len(x) = 2 * n /\ DOMAIN x = 1 .. 2 * n
  BY <1>1, <1>4, Bytes
<1>6. \A i \in 1 .. 2 * n : x[i] = Digit(V(i))
  BY <1>2
<1>7. QED  BY <1>5, <1>6 DEF n, x, V

-----------------------------------------------------------------------------
(* Passwords.  No bytes are what a function that throws gives. *)
LEMMA NotError ==
  ASSUME NEW s \in Seq(0 .. 255)
  PROVE  s # Error
<1> SUFFICES ASSUME s = Error
             PROVE  FALSE
  OBVIOUS
<1>1. Len(s) = 1 /\ s[1] = -1
  BY DEF Error
<1>2. s[1] \in 0 .. 255
  <2>1. 1 \in 1 .. Len(s)
    BY <1>1
  <2>2. QED  BY <2>1, ElementOfSeq
<1>3. QED  BY <1>1, <1>2

(* The halves of a whole. *)
LEMMA Halves ==
  ASSUME NEW k \in Nat, k >= 1, NEW a \in Seq(0 .. 255), NEW c \in Seq(0 .. 255),
         Len(a) = k, Len(c) = k
  PROVE  /\ a \o c \in Seq(0 .. 255) /\ Len(a \o c) = 2 * k
         /\ SubSeq(a \o c, 1, k) = a /\ SubSeq(a \o c, k + 1, 2 * k) = c
<1>1. a \o c \in Seq(0 .. 255) /\ Len(a \o c) = 2 * k
  <2>1. a \o c \in Seq(0 .. 255) /\ Len(a \o c) = Len(a) + Len(c)
    BY ConcatProperties
  <2>2. QED  BY <2>1
<1>2. SubSeq(a \o c, 1, k) = a
  <2>1. 1 \in 1 .. Len(a) /\ k \in 1 .. Len(a)
    OBVIOUS
  <2>2. SubSeq(a \o c, 1, k) = SubSeq(a, 1, k)
    BY <2>1, SubSeqOfConcat1
  <2>3. QED  BY <2>2, SubSeqFull
<1>3. SubSeq(a \o c, k + 1, 2 * k) = c
  <2>1. /\ k + 1 \in Len(a) + 1 .. Len(a) + Len(c)
        /\ 2 * k \in Len(a) + 1 .. Len(a) + Len(c)
        /\ (k + 1) - Len(a) = 1 /\ (2 * k) - Len(a) = k
    OBVIOUS
  <2>2. SubSeq(a \o c, k + 1, 2 * k) = SubSeq(c, (k + 1) - Len(a), (2 * k) - Len(a))
    BY <2>1, SubSeqOfConcat2
  <2>3. QED  BY <2>1, <2>2, SubSeqFull
<1>4. QED  BY <1>1, <1>2, <1>3

(* What a hash is. *)
LEMMA HashIs ==
  ASSUME CodecAssumption, NEW salt \in Salts, NEW d \in Passwds
  PROVE  LET hash == PasswdCreate(d, salt)
             dig == Digest(salt \o d)
         IN  /\ hash \in Seq(0 .. 255) /\ Len(hash) = 2 * MdSize
             /\ dig \in Seq(0 .. 255) /\ Len(dig) = MdSize
             /\ SubSeq(hash, 1, MdSize) = salt /\ SubSeq(hash, MdSize + 1, 2 * MdSize) = dig
<1> DEFINE dig == Digest(salt \o d)
<1>1. MdSize \in Nat /\ MdSize >= 1
  BY DEF CodecAssumption
<1>2. salt \in [1 .. MdSize -> 0 .. 255] /\ dig \in [1 .. MdSize -> 0 .. 255]
  BY DEF CodecAssumption
<1> HIDE DEF dig
<1>3. /\ salt \in Seq(0 .. 255) /\ Len(salt) = MdSize
      /\ dig \in Seq(0 .. 255) /\ Len(dig) = MdSize
  BY <1>1, <1>2, Bytes
<1>4. LET hash == salt \o dig
      IN  /\ hash \in Seq(0 .. 255) /\ Len(hash) = 2 * MdSize
          /\ SubSeq(hash, 1, MdSize) = salt /\ SubSeq(hash, MdSize + 1, 2 * MdSize) = dig
  BY <1>1, <1>3, Halves
<1>5. QED  BY <1>3, <1>4 DEF PasswdCreate, dig

(* What is left of a sequence of bytes that was cut. *)
LEMMA CutIs ==
  ASSUME NEW s \in Seq(0 .. 255), NEW n \in 0 .. Len(s)
  PROVE  /\ SubSeq(s, 1, n) \in Seq(0 .. 255) /\ Len(SubSeq(s, 1, n)) = n
         /\ \A i \in 1 .. n : SubSeq(s, 1, n)[i] = s[i]
<1>1. Len(s) \in Nat /\ \A i \in 1 .. Len(s) : s[i] \in 0 .. 255
  BY LenProperties, ElementOfSeq
<1>2. \A i \in 1 .. n : s[i] \in 0 .. 255
  BY <1>1
<1>3. /\ SubSeq(s, 1, n) \in Seq(0 .. 255)
      /\ Len(SubSeq(s, 1, n)) = IF 1 <= n THEN n - 1 + 1 ELSE 0
      /\ \A i \in 1 .. n - 1 + 1 : SubSeq(s, 1, n)[i] = s[1 + i - 1]
  BY <1>1, <1>2, SubSeqProperties
<1> DEFINE c == SubSeq(s, 1, n)
<1> HIDE DEF c
<1>4. Len(c) = n /\ \A i \in 1 .. n : c[i] = s[i]
  BY <1>1, <1>3 DEF c
<1>5. QED  BY <1>3, <1>4 DEF c

(* A hash verifies what its digest tells, and a part of it nothing
   (cclcrypto.cc:70-75). *)
LEMMA HashVerifies ==
  ASSUME CodecAssumption, NEW salt \in Salts, NEW d \in Passwds, NEW p \in Passwds
  PROVE  LET hash == PasswdCreate(d, salt)
         IN  /\ PasswdVerify(p, hash) =
                  IF Digest(salt \o p) = Digest(salt \o d) THEN "yes" ELSE "no"
             /\ \A n \in 0 .. 2 * MdSize - 1 :
                  PasswdVerify(p, SubSeq(hash, 1, n)) = IF n < MdSize THEN "throw" ELSE "no"
<1> DEFINE k == MdSize
           hash == PasswdCreate(d, salt)
           dig == Digest(salt \o d)
           tried == Digest(salt \o p)
<1>1. k \in Nat /\ k >= 1 /\ 2 * k \in Nat
  BY DEF CodecAssumption
<1>2. /\ hash \in Seq(0 .. 255) /\ Len(hash) = 2 * k /\ SubSeq(hash, 1, k) = salt
      /\ SubSeq(hash, k + 1, 2 * k) = dig /\ Len(tried) = k
  BY HashIs
<1> HIDE DEF k, hash, dig, tried
<1>3. \A n \in 0 .. 2 * k : Min({2 * k, n}) = n
  <2> SUFFICES ASSUME NEW n \in 0 .. 2 * k
               PROVE  Min({2 * k, n}) = n
    OBVIOUS
  <2>1. n \in Nat /\ (2 * k <= n => n = 2 * k)
    BY <1>1
  <2>2. QED  BY <1>1, <2>1, Less
<1>4. PasswdVerify(p, hash) = IF tried = dig THEN "yes" ELSE "no"
  <2>1. ~(2 * k < k) /\ Min({2 * k, 2 * k}) = 2 * k
    BY <1>1, <1>3
  <2>2. PasswdVerify(p, hash) = IF SubSeq(hash, k + 1, 2 * k) = tried THEN "yes" ELSE "no"
    BY <1>2, <2>1 DEF PasswdVerify, k, tried
  <2>3. QED  BY <1>2, <2>2
<1>5. ASSUME NEW n \in 0 .. 2 * k - 1
      PROVE  PasswdVerify(p, SubSeq(hash, 1, n)) = IF n < k THEN "throw" ELSE "no"
  <2> DEFINE c == SubSeq(hash, 1, n)
  <2>1. n \in 0 .. Len(hash) /\ n \in Nat
    BY <1>1, <1>2
  <2>2. c \in Seq(0 .. 255) /\ Len(c) = n /\ \A i \in 1 .. n : c[i] = hash[i]
    BY <1>2, <2>1, CutIs
  <2> HIDE DEF c
  <2>3. CASE n < k
    BY <2>2, <2>3 DEF PasswdVerify, k
  <2>4. CASE ~(n < k)
    <3> DEFINE rest == SubSeq(c, k + 1, n)
    <3>1. Min({2 * k, n}) = n
      BY <1>1, <1>3
    <3>2. Len(rest) < k
      <4>1. \A i \in k + 1 .. n : c[i] \in 0 .. 255
        <5>1. \A i \in 1 .. n : c[i] \in 0 .. 255
          BY <2>2, ElementOfSeq
        <5>2. QED  BY <1>1, <2>1, <5>1
      <4>2. Len(rest) = IF k + 1 <= n THEN n - (k + 1) + 1 ELSE 0
        BY <1>1, <2>1, <4>1, SubSeqProperties
      <4> HIDE DEF rest
      <4>3. QED  BY <1>1, <2>4, <4>2
    <3>3. SubSeq(c, 1, k) = salt
      <4>1. /\ SubSeq(c, 1, k) \in Seq(0 .. 255) /\ Len(SubSeq(c, 1, k)) = k
            /\ \A i \in 1 .. k : SubSeq(c, 1, k)[i] = c[i]
        <5>1. k \in 0 .. Len(c)
          BY <1>1, <2>1, <2>2, <2>4
        <5>2. QED  BY <2>2, <5>1, CutIs
      <4>2. /\ SubSeq(hash, 1, k) \in Seq(0 .. 255) /\ Len(SubSeq(hash, 1, k)) = k
            /\ \A i \in 1 .. k : SubSeq(hash, 1, k)[i] = hash[i]
        <5>1. k \in 0 .. Len(hash)
          BY <1>1, <1>2
        <5>2. QED  BY <1>2, <5>1, CutIs
      <4>3. \A i \in 1 .. k : c[i] = hash[i]
        BY <1>1, <2>1, <2>2, <2>4
      <4> DEFINE u == SubSeq(c, 1, k)
                 v == SubSeq(hash, 1, k)
      <4>4. /\ u \in Seq(0 .. 255) /\ v \in Seq(0 .. 255) /\ Len(u) = Len(v)
            /\ \A i \in 1 .. Len(u) : u[i] = v[i]
        BY <4>1, <4>2, <4>3
      <4> HIDE DEF u, v
      <4>5. u = v
        BY <4>4, SeqEqual
      <4>6. QED  BY <1>2, <4>5 DEF u, v
    <3> HIDE DEF rest
    <3>4. rest # tried
      BY <1>1, <1>2, <3>2
    <3>5. PasswdVerify(p, c) = IF rest = tried THEN "yes" ELSE "no"
      BY <2>2, <2>4, <3>1, <3>3 DEF PasswdVerify, k, tried, rest
    <3>6. QED  BY <2>4, <3>4, <3>5 DEF c
  <2>5. QED  BY <2>3, <2>4 DEF c
<1>6. QED  BY <1>4, <1>5 DEF k, hash, dig, tried

(* The same of a hash in base16 (cclcrypto.cc:65-80). *)
LEMMA HexVerifies ==
  ASSUME CodecAssumption, NEW salt \in Salts, NEW d \in Passwds, NEW p \in Passwds
  PROVE  LET hash == PasswdCreate(d, salt)
             hex == Base16Encode(hash)
         IN  /\ PasswdVerifyBase16(p, hex) = PasswdVerify(p, hash)
             /\ \A n \in 0 .. 4 * MdSize - 1 :
                  PasswdVerifyBase16(p, SubSeq(hex, 1, n)) =
                    IF n % 2 = 1 \/ n < 2 * MdSize THEN "throw" ELSE "no"
<1> DEFINE k == MdSize
           hash == PasswdCreate(d, salt)
           hex == Base16Encode(hash)
<1>1. k \in Nat /\ k >= 1
  BY DEF CodecAssumption
<1>2. hash \in Seq(0 .. 255) /\ Len(hash) = 2 * k
  BY HashIs
<1>3. /\ PasswdVerify(p, hash) = PasswdVerify(p, hash)
      /\ \A n \in 0 .. 2 * k - 1 :
           PasswdVerify(p, SubSeq(hash, 1, n)) = IF n < k THEN "throw" ELSE "no"
  BY HashVerifies
<1> HIDE DEF k, hash
<1>4. Base16Decode(hex) = hash
  BY <1>2, Base16There
<1>5. PasswdVerifyBase16(p, hex) = PasswdVerify(p, hash)
  <2>1. hash # Error
    BY <1>2, NotError
  <2> HIDE DEF hex
  <2>2. QED  BY <1>4, <2>1 DEF PasswdVerifyBase16
<1>6. /\ DOMAIN hex = 1 .. 4 * k /\ Len(hex) = 4 * k /\ hex \in Seq(0 .. 255)
      /\ \A i \in 1 .. 4 * k :
           hex[i] = Digit(IF i % 2 = 1 THEN hash[(i + 1) \div 2] \div 16
                          ELSE hash[(i + 1) \div 2] % 16)
  <2>1. /\ DOMAIN hex = 1 .. 2 * Len(hash) /\ Len(hex) = 2 * Len(hash) /\ hex \in Seq(0 .. 255)
        /\ \A i \in 1 .. 2 * Len(hash) :
             hex[i] = Digit(IF i % 2 = 1 THEN hash[(i + 1) \div 2] \div 16
                            ELSE hash[(i + 1) \div 2] % 16)
    BY <1>2, Base16Is
  <2>2. 2 * Len(hash) = 4 * k
    BY <1>1, <1>2
  <2>3. QED  BY <2>1, <2>2
<1> HIDE DEF hex
<1>7. ASSUME NEW n \in 0 .. 4 * k - 1
      PROVE  PasswdVerifyBase16(p, SubSeq(hex, 1, n)) =
               IF n % 2 = 1 \/ n < 2 * k THEN "throw" ELSE "no"
  <2> DEFINE c == SubSeq(hex, 1, n)
  <2>1. n \in Nat /\ n \in 0 .. Len(hex)
    BY <1>1, <1>6
  <2>2. c \in Seq(0 .. 255) /\ Len(c) = n /\ \A i \in 1 .. n : c[i] = hex[i]
    BY <1>6, <2>1, CutIs
  <2> HIDE DEF c
  <2>3. CASE n % 2 = 1
    <3>1. Base16Decode(c) = Error
      BY <2>2, <2>3 DEF Base16Decode
    <3>2. QED  BY <2>3, <3>1 DEF PasswdVerifyBase16, c
  <2>4. CASE n % 2 # 1
    <3> DEFINE h == n \div 2
               s == SubSeq(hash, 1, h)
    <3>1. h \in Nat /\ n = 2 * h /\ h \in 0 .. 2 * k - 1 /\ (n < 2 * k <=> h < k)
      BY <1>1, <2>1, <2>4, SMT
    <3> HIDE DEF h
    <3>2. s \in Seq(0 .. 255) /\ Len(s) = h /\ \A i \in 1 .. h : s[i] = hash[i]
      <4>1. h \in 0 .. Len(hash)
        BY <1>1, <1>2, <3>1
      <4>2. QED  BY <1>2, <4>1, CutIs
    <3> HIDE DEF s
    <3>3. c = Base16Encode(s)
      <4> DEFINE e == Base16Encode(s)
      <4>1. /\ Len(e) = 2 * h /\ e \in Seq(0 .. 255)
            /\ \A i \in 1 .. 2 * h :
                 e[i] = Digit(IF i % 2 = 1 THEN s[(i + 1) \div 2] \div 16
                              ELSE s[(i + 1) \div 2] % 16)
        BY <3>1, <3>2, Base16Is
      <4> HIDE DEF e
      <4>2. \A i \in 1 .. n : c[i] = e[i]
        <5> SUFFICES ASSUME NEW i \in 1 .. n
                     PROVE  c[i] = e[i]
          OBVIOUS
        <5>1. (i + 1) \div 2 \in 1 .. h /\ i \in 1 .. 4 * k /\ i \in 1 .. 2 * h
          BY <1>1, <3>1, SMT
        <5>2. s[(i + 1) \div 2] = hash[(i + 1) \div 2]
          BY <3>2, <5>1
        <5>3. QED  BY <1>6, <2>2, <4>1, <5>1, <5>2
      <4>3. c = e
        BY <2>2, <3>1, <4>1, <4>2, SeqEqual
      <4>4. QED  BY <4>3 DEF e
    <3>4. Base16Decode(c) = s /\ s # Error
      BY <3>2, <3>3, Base16There, NotError
    <3>5. PasswdVerifyBase16(p, c) = PasswdVerify(p, s)
      BY <3>4 DEF PasswdVerifyBase16
    <3>6. PasswdVerify(p, s) = IF h < k THEN "throw" ELSE "no"
      BY <1>3, <3>1 DEF s
    <3>7. QED  BY <2>4, <3>1, <3>5, <3>6 DEF c
  <2>5. QED  BY <2>3, <2>4
<1>8. QED  BY <1>5, <1>7 DEF k, hash, hex

-----------------------------------------------------------------------------
LEMMA CodecOf ==
  ASSUME TextInv
  PROVE  CodecExact
<1>1. job \in Jobs
  BY DEF TextInv
<1>2. ASSUME NEW d \in Seq(0 .. 255)
      PROVE  Base16Exact(d) /\ Base64Exact(d)
  <2>1. Base16Exact(d)
    BY Base16There, Base16Back DEF Base16Exact
  <2>2. Base64Exact(d)
    BY Base64There, Base64Back DEF Base64Exact
  <2>3. QED  BY <2>1, <2>2
<1>3. ASSUME NEW d \in Passwds, NEW salt \in Salts
      PROVE  PasswdExact(d, salt)
  BY CodecAssumption, HashVerifies, HexVerifies DEF PasswdExact
<1>4. job.op = "codec" => Base16Exact(text) /\ Base64Exact(text)
  BY <1>1, <1>2, JobKinds DEF text
<1>5. job.op = "passwd" => PasswdExact(text, job.by)
  BY <1>1, <1>3, JobKinds DEF text
<1>6. QED  BY <1>4, <1>5 DEF CodecExact

(* CodecExact (cclcrypto.cc:59-206) for byte strings, salts and passwords of any
   length, and any digest: base16 and base64 with what they refuse, and a hash and
   what is left of one that was cut. *)
THEOREM TextCodecExact == TextSpec => []CodecExact
BY TextInvariant, CodecOf, PTL
=============================================================================
