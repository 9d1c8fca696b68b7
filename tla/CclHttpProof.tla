---------------------------- MODULE CclHttpProof ----------------------------
(***************************************************************************)
(* Proofs about CclHttp, for any connections, objects and body lengths: an *)
(* object per request, a buffer per object, uploads that arrive exactly,   *)
(* and exceptions thrown to the call of process() they happened in.        *)
(***************************************************************************)
EXTENDS CclHttp, TLAPS

Active == {"body", "last", "answered", "dying"}

ConType == [st : States, kind : {"GET", "PUT"}, size : 0 .. MaxPieces,
            taken : 0 .. MaxPieces, saved : Datas]

Ranges == /\ cls \in [Conns -> Objs \cup {Null}]
          /\ heap \in [Objs -> Objects \cup {Null}]
          /\ bufs \in [Objs -> Datas \cup {Null}]

(* A buffer hangs on one object, that of an upload.                        *)
UserKept == \A o \in Objs : heap[o] # Null /\ heap[o].user # Null =>
              heap[o].kind = "PUT" /\ bufs[heap[o].user] # Null
UserApart == \A o, p \in Objs :
               heap[o] # Null /\ heap[p] # Null =>
                 (heap[o].user # Null /\ heap[o].user = heap[p].user => o = p)
BufferHung == \A b \in Objs : bufs[b] # Null =>
                \E o \in Objs : heap[o] # Null /\ heap[o].user = b

Buffers == Ranges /\ UserKept /\ UserApart /\ BufferHung

(* How far the request of a connection is, and what its object has of it.  *)
Stage(c) ==
  /\ cls[c] # Null => heap[cls[c]].kind = con[c].kind
  /\ con[c].st = "body" => con[c].kind = "PUT" /\ con[c].taken < con[c].size
  /\ con[c].st = "last" => /\ con[c].taken = con[c].size
                           /\ con[c].kind = "GET" => con[c].size = 0
  /\ con[c].st \in {"body", "last"} =>
       IF heap[cls[c]].user = Null THEN con[c].kind = "PUT" => con[c].taken = 0
       ELSE bufs[heap[cls[c]].user] = Body(con[c].taken)
  /\ con[c].st = "answered" /\ con[c].kind = "PUT" => con[c].saved = Body(con[c].size)

Stages == con \in [Conns -> ConType] /\ \A c \in Conns : Stage(c)

Calls == /\ running \in {"out", "in", "stop", "dead"}
         /\ {exc, lastly} \subseteq Conns \cup {Null}
         /\ reply \in Conns \cup {Null, "internal"}
         /\ running = "in" => exc = lastly
         /\ running = "out" => reply \in {lastly, "internal"}

IInv == Buffers /\ ObjectPerRequest /\ Stages /\ Calls

-----------------------------------------------------------------------------
LEMMA BodyGrows ==
  ASSUME NEW n \in Nat
  PROVE  Append(Body(n), n + 1) = Body(n + 1)
<1>1. Body(n) \in Seq(Nat) /\ Len(Body(n)) = n
  BY DEF Body
<1>2. Append(Body(n), n + 1) = [i \in 1 .. (n + 1) |-> IF i = n + 1 THEN n + 1 ELSE Body(n)[i]]
  BY <1>1
<1>3. QED  BY <1>2 DEF Body

LEMMA BodyTyped ==
  ASSUME HttpAssumption, NEW n \in 0 .. MaxPieces
  PROVE  Body(n) \in Datas
BY DEF Body, Datas, HttpAssumption

LEMMA BodyEmpty == Body(0) = <<>>
BY DEF Body

(* The callback writes d to the buffer of an upload, which it may make.    *)
Writes(o, b, d) == WithBuffer(o, b) /\ bufs' = [bufs EXCEPT ![b] = d] /\ cls' = cls

LEMMA BufferKeeps ==
  ASSUME HttpAssumption, NullAssumption, Buffers,
         NEW o \in Objs, heap[o] # Null, heap[o].kind = "PUT",
         NEW b \in Objs, NEW d \in Datas, Writes(o, b, d)
  PROVE  /\ Buffers'
         /\ heap'[o] # Null /\ heap'[o].user = b /\ heap'[o].kind = "PUT" /\ bufs'[b] = d
         /\ \A p \in Objs : heap'[p] # Null <=> heap[p] # Null
         /\ \A p \in Objs : heap[p] # Null /\ p # o =>
              /\ heap'[p] = heap[p]
              /\ heap[p].user # Null => bufs'[heap[p].user] = bufs[heap[p].user]
         /\ Held(b) = IF heap[o].user = Null THEN <<>> ELSE bufs[heap[o].user]
<1> USE DEF Writes
<1>1. heap[o] \in Objects /\ b # Null /\ d # Null
  BY DEF Buffers, Ranges, HttpAssumption, NullAssumption
<1>2. /\ heap'[o] \in Objects /\ heap'[o].user = b /\ heap'[o].kind = "PUT"
      /\ \A p \in Objs \ {o} : heap'[p] = heap[p]
      /\ heap' \in [Objs -> Objects \cup {Null}]
  BY <1>1 DEF WithBuffer, Buffers, Ranges, Objects
<1>3. heap'[o] # Null
  BY <1>2 DEF NullAssumption
<1>4. bufs'[b] = d /\ \A a \in Objs \ {b} : bufs'[a] = bufs[a]
  BY DEF Buffers, Ranges
<1>5. \A p \in Objs : heap[p] # Null /\ p # o => heap[p].user # b
  BY <1>1 DEF WithBuffer, Buffers, UserKept, UserApart
<1>6. Ranges'
  BY <1>2 DEF Buffers, Ranges
<1>7. \A p \in Objs : heap[p] # Null => heap[p].user \in Objs \cup {Null}
  BY DEF Buffers, Ranges, Objects
<1>8. UserKept'
  BY <1>1, <1>2, <1>4, <1>7 DEF Buffers, UserKept
<1>9. UserApart'
  BY <1>1, <1>2, <1>5 DEF Buffers, UserApart
<1>10. BufferHung'
  <2> SUFFICES ASSUME NEW a \in Objs, bufs'[a] # Null
               PROVE  \E p \in Objs : heap'[p] # Null /\ heap'[p].user = a
    BY DEF BufferHung
  <2>1. CASE a = b
    BY <2>1, <1>2, <1>3
  <2>2. CASE a # b
    <3>1. PICK p \in Objs : heap[p] # Null /\ heap[p].user = a
      BY <2>2, <1>4 DEF Buffers, BufferHung
    <3>2. p # o
      BY <3>1, <2>2, <1>1, <1>4 DEF WithBuffer, HttpAssumption
    <3>3. QED  BY <3>1, <3>2, <1>2
  <2>3. QED  BY <2>1, <2>2
<1>11. \A p \in Objs : heap[p] # Null /\ p # o /\ heap[p].user # Null =>
         bufs'[heap[p].user] = bufs[heap[p].user]
  BY <1>4, <1>5, <1>7
<1>12. Held(b) = IF heap[o].user = Null THEN <<>> ELSE bufs[heap[o].user]
  BY <1>1 DEF Held, WithBuffer, Buffers, UserKept
<1>13. QED
  BY <1>2, <1>3, <1>4, <1>6, <1>8, <1>9, <1>10, <1>11, <1>12 DEF Buffers

(* The completion of a request takes its object away, and its buffer.      *)
LEMMA CompletedKeeps ==
  ASSUME HttpAssumption, NullAssumption, Buffers, ObjectPerRequest,
         NEW c \in Conns, cls[c] # Null, Completed(c)
  PROVE  /\ Buffers' /\ cls' = [cls EXCEPT ![c] = Null]
         /\ \A o \in Objs : heap'[o] # Null <=> heap[o] # Null /\ o # cls[c]
         /\ \A p \in Objs : heap[p] # Null /\ p # cls[c] =>
              /\ heap'[p] = heap[p]
              /\ heap[p].user # Null => bufs'[heap[p].user] = bufs[heap[p].user]
<1> DEFINE x == cls[c]
<1>1. x \in Objs /\ heap[x] # Null /\ heap[x] \in Objects
  BY DEF Buffers, Ranges, ObjectPerRequest
<1>2. /\ heap' = [heap EXCEPT ![x] = Null] /\ cls' = [cls EXCEPT ![c] = Null]
      /\ Freed(x)
  BY DEF Completed
<1>3. /\ heap'[x] = Null /\ \A p \in Objs \ {x} : heap'[p] = heap[p]
  BY <1>1, <1>2 DEF Buffers, Ranges
<1>4. CASE heap[x].user = Null
  <2>1. bufs' = bufs
    BY <1>2, <1>4 DEF Freed
  <2>2. Ranges'
    BY <1>2, <2>1 DEF Buffers, Ranges
  <2>3. UserKept'
    BY <1>3, <2>1 DEF Buffers, UserKept
  <2>4. UserApart'
    BY <1>3 DEF Buffers, UserApart
  <2>5. BufferHung'
    BY <1>1, <1>3, <1>4, <2>1 DEF Buffers, BufferHung, HttpAssumption
  <2>6. QED  BY <1>1, <1>2, <1>3, <2>1, <2>2, <2>3, <2>4, <2>5 DEF Buffers
<1>5. CASE heap[x].user # Null
  <2> DEFINE b == heap[x].user
  <2>1. b \in Objs /\ bufs' = [bufs EXCEPT ![b] = Null]
    BY <1>1, <1>2, <1>5 DEF Freed, Buffers, UserKept, Objects
  <2>2. bufs'[b] = Null /\ \A a \in Objs \ {b} : bufs'[a] = bufs[a]
    BY <2>1 DEF Buffers, Ranges
  <2>3. \A p \in Objs : heap[p] # Null /\ p # x => heap[p].user # b
    BY <1>1, <1>5 DEF Buffers, UserApart
  <2>4. \A p \in Objs : heap[p] # Null => heap[p].user \in Objs \cup {Null}
    BY DEF Buffers, Ranges, Objects
  <2>5. Ranges'
    BY <1>2, <2>1 DEF Buffers, Ranges
  <2>6. UserKept'
    BY <1>3, <2>2, <2>3, <2>4 DEF Buffers, UserKept
  <2>7. UserApart'
    BY <1>3 DEF Buffers, UserApart
  <2>8. BufferHung'
    BY <1>3, <2>2 DEF Buffers, BufferHung
  <2>9. QED
    BY <1>1, <1>2, <1>3, <2>2, <2>3, <2>4, <2>5, <2>6, <2>7, <2>8 DEF Buffers
<1>6. QED  BY <1>4, <1>5
-----------------------------------------------------------------------------
(* What a step about the connection c and its object keeps of the others.  *)
LEMMA OthersKeep ==
  ASSUME Buffers, ObjectPerRequest, Stages, NEW c \in Conns, NEW d \in Conns, d # c,
         cls'[d] = cls[d], con'[d] = con[d],
         cls[d] # Null =>
           /\ heap'[cls[d]] = heap[cls[d]]
           /\ heap[cls[d]].user # Null => bufs'[heap[cls[d]].user] = bufs[heap[cls[d]].user]
  PROVE  Stage(d)'
<1>1. con[d].st \in {"body", "last"} => cls[d] # Null
  BY DEF ObjectPerRequest
<1>2. QED  BY <1>1 DEF Stages, Stage

LEMMA InitHolds ==
  ASSUME HttpAssumption, NullAssumption, Init
  PROVE  IInv
<1>1. <<>> \in Datas
  BY BodyEmpty, BodyTyped DEF HttpAssumption
<1>2. Quiet("closed") \in ConType
  BY <1>1 DEF Quiet, ConType, States, HttpAssumption
<1>3. Buffers
  BY DEF Init, Buffers, Ranges, UserKept, UserApart, BufferHung
<1>4. ObjectPerRequest
  BY DEF Init, ObjectPerRequest, Quiet, HttpAssumption
<1>5. Stages
  BY <1>2 DEF Init, Stages, Stage, Quiet
<1>6. Calls
  BY DEF Init, Calls
<1>7. QED  BY <1>3, <1>4, <1>5, <1>6 DEF IInv

Becomes(c, r) == con' = [con EXCEPT ![c] = r]

(* A callback that writes d to its buffer, and moves its own request on.   *)
LEMMA WriteKeeps ==
  ASSUME HttpAssumption, NullAssumption, Buffers, ObjectPerRequest, Stages,
         NEW c \in Conns, con[c].st \in {"body", "last"}, con[c].kind = "PUT",
         NEW b \in Objs, NEW d \in Datas, Writes(cls[c], b, d),
         NEW r \in ConType, Becomes(c, r),
         r.kind = "PUT", r.st \in Active,
         r.st = "body" => r.taken < r.size,
         r.st = "last" => r.taken = r.size,
         r.st \in {"body", "last"} => d = Body(r.taken),
         r.st = "answered" => r.saved = Body(r.size)
  PROVE  Buffers' /\ ObjectPerRequest' /\ Stages'
<1>0. cls' = cls
  BY DEF Writes
<1> USE <1>0
<1>1. /\ cls[c] \in Objs /\ cls[c] # Null /\ heap[cls[c]] # Null
      /\ heap[cls[c]].kind = "PUT"
  BY DEF Buffers, Ranges, ObjectPerRequest, Stages, Stage
<1>2. /\ Buffers'
      /\ heap'[cls[c]] # Null /\ heap'[cls[c]].user = b /\ heap'[cls[c]].kind = "PUT"
      /\ bufs'[b] = d
      /\ \A p \in Objs : heap'[p] # Null <=> heap[p] # Null
      /\ \A p \in Objs : heap[p] # Null /\ p # cls[c] =>
           /\ heap'[p] = heap[p]
           /\ heap[p].user # Null => bufs'[heap[p].user] = bufs[heap[p].user]
  <2>1. PICK o \in Objs : o = cls[c]
    BY <1>1
  <2>2. Writes(o, b, d) /\ heap[o] # Null /\ heap[o].kind = "PUT"
    BY <1>1, <2>1 DEF WithBuffer, Writes
  <2>3. /\ Buffers'
        /\ heap'[o] # Null /\ heap'[o].user = b /\ heap'[o].kind = "PUT"
        /\ bufs'[b] = d
        /\ \A p \in Objs : heap'[p] # Null <=> heap[p] # Null
        /\ \A p \in Objs : heap[p] # Null /\ p # o =>
             /\ heap'[p] = heap[p]
             /\ heap[p].user # Null => bufs'[heap[p].user] = bufs[heap[p].user]
    BY <2>2, BufferKeeps
  <2>4. QED  BY <2>1, <2>3
<1>3. /\ con'[c] = r /\ \A e \in Conns \ {c} : con'[e] = con[e]
      /\ con' \in [Conns -> ConType]
  BY DEF Stages, Becomes
<1>4. ObjectPerRequest'
  <2>1. \A e \in Conns : con'[e].st \in Active <=> con[e].st \in Active
    BY <1>3 DEF Active
  <2>2. QED  BY <1>2, <2>1 DEF ObjectPerRequest, Active
<1>5. Stage(c)'
  BY <1>2, <1>3, HttpAssumption DEF Stage, HttpAssumption
<1>6. ASSUME NEW e \in Conns, e # c PROVE Stage(e)'
  <2>1. cls[e] # Null => cls[e] \in Objs /\ heap[cls[e]] # Null /\ cls[e] # cls[c]
    BY <1>1, <1>6 DEF Buffers, Ranges, ObjectPerRequest
  <2>2. QED  BY <1>2, <1>3, <1>6, <2>1, OthersKeep
<1>7. QED  BY <1>2, <1>3, <1>4, <1>5, <1>6 DEF Stages

(* A request that is over.                                                 *)
LEMMA EndKeeps ==
  ASSUME HttpAssumption, NullAssumption, Buffers, ObjectPerRequest, Stages,
         NEW c \in Conns, NEW st \in {"idle", "closed"},
         con' = [con EXCEPT ![c] = Quiet(st)],
         IF cls[c] # Null THEN Completed(c) ELSE UNCHANGED <<cls, heap, bufs>>
  PROVE  Buffers' /\ ObjectPerRequest' /\ Stages'
<1>1. Quiet(st) \in ConType /\ Quiet(st).st = st
  <2>1. <<>> \in Datas
    BY BodyEmpty, BodyTyped DEF HttpAssumption
  <2>2. QED  BY <2>1 DEF Quiet, ConType, States, HttpAssumption
<1>2. /\ con' \in [Conns -> ConType] /\ con'[c].st = st
      /\ \A e \in Conns \ {c} : con'[e] = con[e]
  BY <1>1 DEF Stages
<1>3. /\ Buffers'
      /\ cls' = [cls EXCEPT ![c] = Null]
      /\ \A o \in Objs : heap'[o] # Null <=> heap[o] # Null /\ o # cls[c]
      /\ \A p \in Objs : heap[p] # Null /\ p # cls[c] =>
           /\ heap'[p] = heap[p]
           /\ heap[p].user # Null => bufs'[heap[p].user] = bufs[heap[p].user]
  <2>1. CASE cls[c] # Null
    BY <2>1, CompletedKeeps
  <2>2. CASE cls[c] = Null
    BY <2>2 DEF Buffers, Ranges, UserKept, UserApart, BufferHung, HttpAssumption
  <2>3. QED  BY <2>1, <2>2
<1>4. cls'[c] = Null /\ \A e \in Conns \ {c} : cls'[e] = cls[e]
  BY <1>3 DEF Buffers, Ranges
<1>5. ObjectPerRequest'
  <2>1. \A e \in Conns : con'[e].st \in Active <=> cls'[e] # Null
    BY <1>2, <1>4 DEF ObjectPerRequest, Active
  <2>2. \A o \in Objs : heap'[o] # Null <=> \E e \in Conns : cls'[e] = o
    BY <1>3, <1>4 DEF ObjectPerRequest, HttpAssumption
  <2>3. \A e, f \in Conns : cls'[e] # Null /\ cls'[e] = cls'[f] => e = f
    BY <1>4 DEF ObjectPerRequest
  <2>4. QED  BY <2>1, <2>2, <2>3 DEF ObjectPerRequest, Active
<1>6. Stage(c)'
  BY <1>2, <1>4 DEF Stage
<1>7. ASSUME NEW e \in Conns, e # c PROVE Stage(e)'
  <2>1. cls[e] # Null => cls[e] \in Objs /\ heap[cls[e]] # Null /\ cls[e] # cls[c]
    BY <1>7 DEF Buffers, Ranges, ObjectPerRequest
  <2>2. QED  BY <1>2, <1>3, <1>4, <1>7, <2>1, OthersKeep
<1>8. QED  BY <1>2, <1>3, <1>5, <1>6, <1>7 DEF Stages
MovedTo(x, k, st) == [x EXCEPT !.taken = k, !.st = st]

LEMMA Moved ==
  ASSUME NEW x \in ConType, NEW k \in 0 .. MaxPieces, NEW st \in States
  PROVE  /\ MovedTo(x, k, st) \in ConType
         /\ MovedTo(x, k, st).taken = k /\ MovedTo(x, k, st).st = st
         /\ MovedTo(x, k, st).kind = x.kind /\ MovedTo(x, k, st).size = x.size
<1> DEFINE q == [x EXCEPT !.taken = k]
<1>1. q \in ConType /\ q.taken = k /\ q.kind = x.kind /\ q.size = x.size
  BY DEF ConType
<1> HIDE DEF q
<1> DEFINE r == [q EXCEPT !.st = st]
<1>2. r \in ConType /\ r.st = st /\ r.taken = q.taken /\ r.kind = q.kind /\ r.size = q.size
  BY <1>1 DEF ConType
<1>3. QED  BY <1>1, <1>2 DEF q, MovedTo

(* The buffer has what came so far, also when it is made only now.         *)
LEMMA HeldIsBody ==
  ASSUME HttpAssumption, NullAssumption, Buffers, ObjectPerRequest, Stages,
         NEW c \in Conns, con[c].st \in {"body", "last"}, con[c].kind = "PUT",
         NEW b \in Objs, WithBuffer(cls[c], b)
  PROVE  Held(b) = Body(con[c].taken) /\ Held(b) \in Datas
<1>1. /\ cls[c] \in Objs /\ heap[cls[c]] # Null
      /\ IF heap[cls[c]].user = Null THEN con[c].taken = 0
         ELSE bufs[heap[cls[c]].user] = Body(con[c].taken)
  BY DEF Buffers, Ranges, ObjectPerRequest, Stages, Stage
<1>2. Held(b) = Body(con[c].taken)
  <2>1. CASE heap[cls[c]].user = Null
    BY <1>1, <2>1, BodyEmpty DEF WithBuffer, Held
  <2>2. CASE heap[cls[c]].user # Null
    BY <1>1, <2>2 DEF WithBuffer, Held, Buffers, UserKept
  <2>3. QED  BY <2>1, <2>2
<1>3. con[c].taken \in 0 .. MaxPieces
  BY DEF Stages, ConType
<1>4. QED  BY <1>2, <1>3, BodyTyped

(* A call of the access handler for a piece of an upload.                  *)
LEMMA TakePieceKeeps ==
  ASSUME HttpAssumption, NullAssumption, Buffers, ObjectPerRequest, Stages,
         NEW c \in Conns, con[c].st = "body", TakePiece(c), cls' = cls
  PROVE  Buffers' /\ ObjectPerRequest' /\ Stages'
<1> DEFINE k == con[c].taken + 1
           st == IF k = con[c].size THEN "last" ELSE "body"
           r == MovedTo(con[c], k, st)
<1>1. /\ con[c] \in ConType /\ con[c].kind = "PUT" /\ con[c].taken \in Nat
      /\ con[c].size \in 0 .. MaxPieces /\ k \in 1 .. con[c].size /\ k - 0 = k
  BY DEF Stages, Stage, ConType, HttpAssumption
<1>2. k \in 0 .. MaxPieces /\ st \in States
  BY <1>1 DEF HttpAssumption, States
<1>3. PICK b \in Objs : /\ WithBuffer(cls[c], b)
                        /\ bufs' = [bufs EXCEPT ![b] = Append(Held(b), k)]
                        /\ con' = [con EXCEPT ![c].taken = k - 0,
                              ![c].st = IF k - 0 = con[c].size THEN "last" ELSE "body"]
  BY DEF TakePiece, UploadLeft
<1>4. Becomes(c, r)
  BY <1>1, <1>3 DEF Stages, Becomes, MovedTo
<1>5. Held(b) = Body(con[c].taken)
  BY <1>1, <1>3, HeldIsBody
<1>6. Append(Held(b), k) = Body(k) /\ Body(k) \in Datas
  <2>1. Append(Body(con[c].taken), con[c].taken + 1) = Body(con[c].taken + 1)
    BY <1>1, BodyGrows
  <2>2. QED  BY <1>2, <1>5, <2>1, BodyTyped
<1>7. Writes(cls[c], b, Body(k))
  BY <1>3, <1>6 DEF Writes
<1>8. k <= con[c].size /\ (k = con[c].size => st = "last") /\ (k # con[c].size => st = "body")
  BY <1>1
<1> HIDE DEF k, st
<1>9. /\ r \in ConType /\ r.taken = k /\ r.st = st /\ r.kind = "PUT" /\ r.size = con[c].size
  BY <1>1, <1>2, Moved
<1> HIDE DEF r
<1>10. /\ r.st \in Active /\ r.st # "answered"
       /\ r.st = "body" => r.taken < r.size
       /\ r.st = "last" => r.taken = r.size
  BY <1>1, <1>2, <1>8, <1>9 DEF Active
<1>11. QED
  BY <1>1, <1>4, <1>6, <1>7, <1>9, <1>10, WriteKeeps
(* A call that writes to no buffer and settles the request.                *)
LEMMA SettleKeeps ==
  ASSUME Buffers, ObjectPerRequest, Stages,
         NEW c \in Conns, con[c].st \in {"body", "last"},
         NEW st \in {"answered", "dying"}, st = "answered" => con[c].kind = "GET",
         con' = [con EXCEPT ![c].st = st], UNCHANGED <<cls, heap, bufs>>
  PROVE  Buffers' /\ ObjectPerRequest' /\ Stages'
<1>1. con[c] \in ConType
  BY DEF Stages
<1>2. /\ con'[c] = [con[c] EXCEPT !.st = st]
      /\ \A e \in Conns \ {c} : con'[e] = con[e]
      /\ [con[c] EXCEPT !.st = st] \in ConType
      /\ con' \in [Conns -> ConType]
      /\ con'[c].st = st /\ con'[c].kind = con[c].kind
  BY <1>1 DEF Stages, ConType, States
<1>3. Buffers'
  BY DEF Buffers, Ranges, UserKept, UserApart, BufferHung
<1>4. ObjectPerRequest'
  <2>1. \A e \in Conns : con'[e].st \in Active <=> con[e].st \in Active
    BY <1>2 DEF Active
  <2>2. QED  BY <2>1 DEF ObjectPerRequest, Active
<1>5. Stage(c)'
  BY <1>2 DEF Stages, Stage
<1>6. ASSUME NEW e \in Conns, e # c PROVE Stage(e)'
  BY <1>2, <1>6 DEF Stages, Stage
<1>7. QED  BY <1>2, <1>3, <1>4, <1>5, <1>6 DEF Stages

LEMMA AnswerKeeps ==
  ASSUME HttpAssumption, NullAssumption, Buffers, ObjectPerRequest, Stages,
         NEW c \in Conns, con[c].st = "last", Answer(c), cls' = cls
  PROVE  Buffers' /\ ObjectPerRequest' /\ Stages'
<1>1. CASE con[c].kind = "GET"
  BY <1>1, SettleKeeps DEF Answer
<1>2. CASE con[c].kind = "PUT"
  <2>1. PICK b \in Objs : /\ WithBuffer(cls[c], b)
                          /\ bufs' = [bufs EXCEPT ![b] = Held(b)]
                          /\ con' = [con EXCEPT ![c].st = "answered", ![c].saved = Held(b)]
    BY <1>2 DEF Answer
  <2>2. Held(b) = Body(con[c].size) /\ Held(b) \in Datas
    BY <1>2, <2>1, HeldIsBody DEF Stages, Stage
  <2> DEFINE d == Held(b)
             q == [con[c] EXCEPT !.st = "answered"]
             r == [q EXCEPT !.saved = d]
  <2>3. Writes(cls[c], b, d)
    BY <2>1 DEF Writes
  <2>4. Becomes(c, r)
    BY <2>1 DEF Becomes, Stages
  <2> HIDE DEF d
  <2>5. /\ q \in ConType /\ q.kind = "PUT" /\ q.size = con[c].size /\ q.st = "answered"
    BY <1>2 DEF Stages, ConType, States
  <2> HIDE DEF q
  <2>6. /\ r \in ConType /\ r.kind = "PUT" /\ r.size = con[c].size /\ r.st = "answered"
        /\ r.saved = d
    BY <2>2, <2>5 DEF ConType, d
  <2> HIDE DEF r
  <2>7. QED  BY <1>2, <2>2, <2>3, <2>4, <2>6, WriteKeeps DEF Active, d
<1>3. QED  BY <1>1, <1>2 DEF Answer

LEMMA FailKeeps ==
  ASSUME HttpAssumption, NullAssumption, Buffers, ObjectPerRequest, Stages,
         NEW c \in Conns, con[c].st \in {"body", "last"}, Fail(c), cls' = cls
  PROVE  Buffers' /\ ObjectPerRequest' /\ Stages'
<1>1. CASE UNCHANGED <<heap, bufs>>
  BY <1>1, SettleKeeps DEF Fail
<1>2. ASSUME con[c].kind = "PUT", NEW b \in Objs, WithBuffer(cls[c], b),
             bufs' = [bufs EXCEPT ![b] = Held(b)]
      PROVE  Buffers' /\ ObjectPerRequest' /\ Stages'
  <2> DEFINE d == Held(b)
             r == [con[c] EXCEPT !.st = "dying"]
  <2>1. d \in Datas
    BY <1>2, HeldIsBody
  <2>2. Writes(cls[c], b, d)
    BY <1>2 DEF Writes
  <2>3. Becomes(c, r)
    BY DEF Becomes, Stages, Fail
  <2> HIDE DEF d
  <2>4. r \in ConType /\ r.kind = "PUT" /\ r.st = "dying"
    BY <1>2 DEF Stages, ConType, States
  <2> HIDE DEF r
  <2>5. QED  BY <1>2, <2>1, <2>2, <2>3, <2>4, WriteKeeps DEF Active
<1>3. QED  BY <1>1, <1>2 DEF Fail

(* A request begins.                                                       *)
LEMMA HeadersKeeps ==
  ASSUME HttpAssumption, NullAssumption, Buffers, ObjectPerRequest, Stages,
         NEW c \in Conns, Headers(c)
  PROVE  Buffers' /\ ObjectPerRequest' /\ Stages'
<1>1. PICK kind \in {"GET", "PUT"}, n \in 0 .. MaxPieces, o \in Objs :
        /\ kind = "GET" => n = 0
        /\ heap[o] = Null
        /\ heap' = [heap EXCEPT ![o] = [kind |-> kind, user |-> Null]]
        /\ cls' = [cls EXCEPT ![c] = o]
        /\ con' = [con EXCEPT ![c] = [st |-> IF n = 0 THEN "last" ELSE "body",
                                      kind |-> kind, size |-> n, taken |-> 0,
                                      saved |-> <<>>]]
  BY DEF Headers
<1> DEFINE x == [kind |-> kind, user |-> Null]
           r == [st |-> IF n = 0 THEN "last" ELSE "body", kind |-> kind, size |-> n,
                 taken |-> 0, saved |-> <<>>]
<1>2. /\ cls[c] = Null /\ con[c].st = "idle" /\ bufs' = bufs /\ o # Null
      /\ \A e \in Conns : cls[e] # o
  BY <1>1 DEF Headers, HttpAssumption, ObjectPerRequest
<1>3. x \in Objects /\ x # Null /\ x.kind = kind /\ x.user = Null
  BY DEF Objects, NullAssumption
<1>4. /\ r \in ConType /\ r.st \in {"body", "last"} /\ r.kind = kind /\ r.taken = 0
      /\ r.size = n /\ (r.st = "last" <=> n = 0)
  <2>1. <<>> \in Datas
    BY BodyEmpty, BodyTyped DEF HttpAssumption
  <2>2. QED  BY <2>1 DEF ConType, States, HttpAssumption
<1> HIDE DEF x, r
<1>5. /\ heap'[o] = x /\ \A p \in Objs \ {o} : heap'[p] = heap[p]
      /\ cls'[c] = o /\ \A e \in Conns \ {c} : cls'[e] = cls[e]
      /\ con'[c] = r /\ \A e \in Conns \ {c} : con'[e] = con[e]
  BY <1>1 DEF Buffers, Ranges, Stages, x, r
<1>6. Ranges' /\ con' \in [Conns -> ConType]
  BY <1>1, <1>2, <1>3, <1>4 DEF Buffers, Ranges, Stages, x, r
<1>7. UserKept'
  BY <1>2, <1>3, <1>5 DEF Buffers, UserKept
<1>8. UserApart'
  BY <1>3, <1>5 DEF Buffers, UserApart
<1>9. BufferHung'
  <2> SUFFICES ASSUME NEW b \in Objs, bufs[b] # Null
               PROVE  \E p \in Objs : heap'[p] # Null /\ heap'[p].user = b
    BY <1>2 DEF BufferHung
  <2>1. PICK p \in Objs : heap[p] # Null /\ heap[p].user = b
    BY DEF Buffers, BufferHung
  <2>2. QED  BY <1>1, <1>5, <2>1
<1>10. ObjectPerRequest'
  <2>1. \A e \in Conns : con'[e].st \in Active <=> cls'[e] # Null
    BY <1>2, <1>4, <1>5 DEF ObjectPerRequest, Active
  <2>2. \A p \in Objs : heap'[p] # Null <=> \E e \in Conns : cls'[e] = p
    BY <1>1, <1>2, <1>3, <1>5 DEF ObjectPerRequest, HttpAssumption
  <2>3. \A e, f \in Conns : cls'[e] # Null /\ cls'[e] = cls'[f] => e = f
    BY <1>2, <1>5 DEF ObjectPerRequest
  <2>4. QED  BY <2>1, <2>2, <2>3 DEF ObjectPerRequest, Active
<1>11. Stage(c)'
  BY <1>1, <1>3, <1>4, <1>5 DEF Stage
<1>12. ASSUME NEW e \in Conns, e # c PROVE Stage(e)'
  <2>1. cls[e] # Null => cls[e] \in Objs /\ heap[cls[e]] # Null /\ cls[e] # o
    BY <1>2, <1>12 DEF Buffers, Ranges, ObjectPerRequest
  <2>2. QED  BY <1>2, <1>5, <1>12, <2>1, OthersKeep
<1>13. QED
  BY <1>6, <1>7, <1>8, <1>9, <1>10, <1>11, <1>12 DEF Buffers, Stages
-----------------------------------------------------------------------------
LEMMA StepHolds ==
  ASSUME HttpAssumption, NullAssumption, IInv, [Next]_vars
  PROVE  IInv'
<1>0. Buffers /\ ObjectPerRequest /\ Stages /\ Calls
  BY DEF IInv
<1>1. CASE UNCHANGED <<con, cls, heap, bufs>> /\ Calls'
  <2>1. Buffers' /\ ObjectPerRequest'
    BY <1>0, <1>1 DEF Buffers, Ranges, UserKept, UserApart, BufferHung, ObjectPerRequest
  <2>2. Stages'
    BY <1>0, <1>1 DEF Stages, Stage
  <2>3. QED  BY <1>1, <2>1, <2>2 DEF IInv
<1>2. CASE UNCHANGED vars
  BY <1>0, <1>1, <1>2 DEF vars, Calls
<1>3. CASE Process \/ Return \/ Stop \/ Stopped
  <2>1. UNCHANGED <<con, cls, heap, bufs>>
    BY <1>3 DEF Process, Return, Stop, Stopped
  <2>2. Calls'
    BY <1>0, <1>3 DEF Calls, Process, Return, Stop, Stopped
  <2>3. QED  BY <1>1, <2>1, <2>2
<1>4. ASSUME NEW c \in Conns, Connect(c) PROVE IInv'
  <2>1. cls[c] = Null
    BY <1>0, <1>4 DEF Connect, ObjectPerRequest
  <2>2. Buffers' /\ ObjectPerRequest' /\ Stages'
    BY <1>0, <1>4, <2>1, EndKeeps DEF Connect
  <2>3. Calls'
    BY <1>0, <1>4 DEF Calls, Connect, daemon
  <2>4. QED  BY <2>2, <2>3 DEF IInv
<1>5. ASSUME NEW c \in Conns, Headers(c) PROVE IInv'
  <2>1. Buffers' /\ ObjectPerRequest' /\ Stages'
    BY <1>0, <1>5, HeadersKeeps
  <2>2. Calls'
    BY <1>0, <1>5 DEF Calls, Headers, daemon
  <2>3. QED  BY <2>1, <2>2 DEF IInv
<1>6. ASSUME NEW c \in Conns, Handler(c) PROVE IInv'
  <2>1. CASE con[c].st = "body" /\ TakePiece(c) /\ UNCHANGED daemon
    <3>1. Buffers' /\ ObjectPerRequest' /\ Stages'
      BY <1>0, <1>6, <2>1, TakePieceKeeps DEF Handler
    <3>2. QED  BY <1>0, <2>1, <3>1 DEF IInv, Calls, daemon
  <2>2. CASE con[c].st = "last" /\ Answer(c) /\ UNCHANGED daemon
    <3>1. Buffers' /\ ObjectPerRequest' /\ Stages'
      BY <1>0, <1>6, <2>2, AnswerKeeps DEF Handler
    <3>2. QED  BY <1>0, <2>2, <3>1 DEF IInv, Calls, daemon
  <2>3. CASE Fail(c) /\ Caught(c)
    <3>1. Buffers' /\ ObjectPerRequest' /\ Stages'
      BY <1>0, <1>6, <2>3, FailKeeps DEF Handler
    <3>2. Calls'
      BY <1>0, <1>6, <2>3 DEF Calls, Caught, Handler, Serving
    <3>3. QED  BY <3>1, <3>2 DEF IInv
  <2>4. QED  BY <1>6, <2>1, <2>2, <2>3 DEF Handler
<1>7. ASSUME NEW c \in Conns, Sent(c) PROVE IInv'
  <2>1. cls[c] # Null
    BY <1>0, <1>7 DEF Sent, ObjectPerRequest
  <2>2. Buffers' /\ ObjectPerRequest' /\ Stages'
    BY <1>0, <1>7, <2>1, EndKeeps DEF Sent
  <2>3. Calls'
    BY <1>0, <1>7 DEF Calls, Sent, daemon
  <2>4. QED  BY <2>2, <2>3 DEF IInv
<1>8. ASSUME NEW c \in Conns, Close(c) PROVE IInv'
  <2>1. Buffers' /\ ObjectPerRequest' /\ Stages'
    BY <1>0, <1>8, EndKeeps DEF Close
  <2>2. Calls'
    BY <1>0, <1>8 DEF Calls, Close, daemon
  <2>3. QED  BY <2>1, <2>2 DEF IInv
<1>9. QED
  BY <1>2, <1>3, <1>4, <1>5, <1>6, <1>7, <1>8 DEF Next

LEMMA Inductive ==
  ASSUME HttpAssumption, NullAssumption
  PROVE  Spec => []IInv
<1>1. Init => IInv
  BY InitHolds
<1>2. IInv /\ [Next]_vars => IInv'
  BY StepHolds
<1>3. QED  BY <1>1, <1>2, PTL DEF Spec

(* cclhttp.cc:39-42,114,155-158: an object per request, for its duration.  *)
THEOREM HttpObjectPerRequest ==
  ASSUME HttpAssumption, NullAssumption
  PROVE  Spec => []ObjectPerRequest
<1>1. IInv => ObjectPerRequest
  BY DEF IInv
<1>2. QED  BY <1>1, Inductive, PTL

(* cclhttp.cc:151-152: what hangs on user_data() has one live object.      *)
THEOREM HttpUserDataOwned ==
  ASSUME HttpAssumption, NullAssumption
  PROVE  Spec => []UserDataOwned
<1>1. IInv => UserDataOwned
  <2> SUFFICES ASSUME IInv, NEW b \in Objs, bufs[b] # Null
               PROVE  \E c \in Conns :
                        /\ cls[c] # Null /\ heap[cls[c]].user = b
                        /\ \A d \in Conns \ {c} : cls[d] # Null => heap[cls[d]].user # b
    BY DEF UserDataOwned
  <2>1. PICK o \in Objs : heap[o] # Null /\ heap[o].user = b
    BY DEF IInv, Buffers, BufferHung
  <2>2. PICK c \in Conns : cls[c] = o
    BY <2>1 DEF IInv, ObjectPerRequest
  <2>3. ASSUME NEW d \in Conns, d # c, cls[d] # Null PROVE heap[cls[d]].user # b
    <3>1. cls[d] \in Objs /\ cls[d] # o /\ heap[cls[d]] # Null
      BY <2>2, <2>3 DEF IInv, Buffers, Ranges, ObjectPerRequest
    <3>2. QED  BY <2>1, <3>1, HttpAssumption DEF IInv, Buffers, UserApart, HttpAssumption
  <2>4. QED  BY <2>1, <2>2, <2>3 DEF HttpAssumption
<1>2. QED  BY <1>1, Inductive, PTL

(* cclhttp.cc:249-257: an upload arrives whole, in order and once.         *)
THEOREM HttpUploadExact ==
  ASSUME HttpAssumption, NullAssumption
  PROVE  Spec => []UploadExact
<1>1. IInv => UploadExact
  BY DEF IInv, Stages, Stage, UploadExact
<1>2. QED  BY <1>1, Inductive, PTL

(* cclhttp.cc:130-136,218-234: process() throws what its own call met last.*)
THEOREM HttpRethrowsLast ==
  ASSUME HttpAssumption, NullAssumption
  PROVE  Spec => []RethrowsLast
<1>1. IInv => RethrowsLast
  BY DEF IInv, Calls, RethrowsLast
<1>2. QED  BY <1>1, Inductive, PTL
=============================================================================
