---------------------------- MODULE CclServeProof ----------------------------
(***************************************************************************)
(* Proofs about CclServe for any number of clients and signals, messages   *)
(* and buffers of any length.  The argument: at every place of the way     *)
(* from a client to the server and back there is a run of consecutive      *)
(* bytes of its message, each run beginning where the one before it ends.  *)
(***************************************************************************)
EXTENDS CclServe, SequenceTheorems, TLAPS

(* The bytes of a message behind the first a of them, up to the b-th. *)
Ramp(a, b) == [i \in 1 .. b - a |-> a + i]

-----------------------------------------------------------------------------
(* The inductive invariant *)

(* What the server gave back to c, read by c or still on its way. *)
Received(c) == Len(got[c]) + Len(down[c])

Queued(c) == \E i \in 1 .. Len(waiting) : waiting[i] = c
Served(c) == pc \in {"read", "write"} /\ cur = c

(* Where the server is tells the protocol, whom it serves and what waits.  *)
LoopOK ==
  /\ pc \in {"read", "write"} <=> cur # Nobody
  /\ pc \in {"accept", "recv"} => waiting # <<>>
  /\ pc \in {"accept", "read", "write"} => mode = "tcp"
  /\ pc = "recv" => mode = "udp"
  /\ pc = "read" => writed = 0

(* A client waits once, and no more once it is served. *)
QueueOnce ==
  /\ \A i, j \in 1 .. Len(waiting) : waiting[i] = waiting[j] => i = j
  /\ \A c \in Clients : Served(c) => ~Queued(c)

(* Nothing but what c wrote has happened to its connection. *)
Fresh(c) == /\ got[c] = <<>> /\ down[c] = <<>> /\ shut[c] = "no"
            /\ up[c] = Ramp(0, sent[c].bytes)

(* A connection begins empty, and is fresh until the server accepts it. *)
FreshOK(c) ==
  /\ at[c] = "start" => /\ Fresh(c) /\ sent[c].bytes = 0
                        /\ ~Queued(c) /\ ~Served(c)
  /\ Queued(c) => Fresh(c)
  /\ Served(c) => shut[c] = "no"

(* The runs of bytes of a message, from the client's end to the server and *)
(* back.                                                                   *)
Streams(c) ==
  /\ got[c] = Ramp(0, Len(got[c]))
  /\ down[c] = Ramp(Len(got[c]), Received(c))
  /\ Received(c) <= len[c]
  /\ Served(c) => /\ Received(c) = writed
                  /\ Len(data) <= sent[c].bytes
                  /\ data = Ramp(0, Len(data))
                  /\ up[c] = Ramp(Len(data), sent[c].bytes)

(* No ::write on the message of c was cut short, and everyone lives.       *)
Undisturbed(c) == /\ mode = "tcp" /\ sent[c].whole
                  /\ pc # "dead" /\ at[c] \notin {"dead", "failed"}

(* Then each end has all of the message or nothing of it. *)
WholeOK(c) ==
  Undisturbed(c) =>
    /\ Received(c) \in {0, len[c]}
    /\ sent[c].bytes \in {0, len[c]}
    /\ at[c] = "read" => sent[c].bytes = len[c]
    /\ shut[c] = "eof" => Received(c) = len[c]
    /\ at[c] = "done" => Received(c) = len[c] /\ down[c] = <<>>
    /\ Served(c) /\ pc = "write" => Len(data) = len[c]

ClientOK(c) == FreshOK(c) /\ Streams(c) /\ WholeOK(c)

IInv == TypeOK /\ LoopOK /\ QueueOnce /\ \A c \in Clients : ClientOK(c)

-----------------------------------------------------------------------------
(* Runs of bytes *)

LEMMA RampFacts ==
  ASSUME NEW a \in Nat, NEW b \in Nat, a <= b
  PROVE  /\ Ramp(a, b) \in Seq(Nat) /\ Len(Ramp(a, b)) = b - a
         /\ \A i \in 1 .. b - a : Ramp(a, b)[i] = a + i
<1>1. \A i \in 1 .. b - a : a + i \in Nat
  OBVIOUS
<1>2. b - a \in Nat
  OBVIOUS
<1>3. Ramp(a, b) \in [1 .. b - a -> Nat]
  BY <1>1 DEF Ramp
<1>4. QED  BY <1>2, <1>3, LenProperties, ElementOfSeq DEF Ramp

LEMMA RampEmpty ==
  ASSUME NEW a \in Nat
  PROVE  Ramp(a, a) = <<>>
<1>1. Ramp(a, a) \in Seq(Nat) /\ Len(Ramp(a, a)) = 0
  BY RampFacts
<1>2. QED  BY <1>1, EmptySeq

(* Two runs that touch are one. *)
LEMMA RampJoin ==
  ASSUME NEW a \in Nat, NEW b \in Nat, NEW d \in Nat, a <= b, b <= d
  PROVE  Ramp(a, b) \o Ramp(b, d) = Ramp(a, d)
<1> DEFINE s == Ramp(a, b)
           t == Ramp(b, d)
           u == Ramp(a, d)
<1>1. a <= d
  OBVIOUS
<1>2. s \in Seq(Nat) /\ Len(s) = b - a /\ \A i \in 1 .. b - a : s[i] = a + i
  BY RampFacts
<1>3. t \in Seq(Nat) /\ Len(t) = d - b /\ \A i \in 1 .. d - b : t[i] = b + i
  BY RampFacts
<1>4. u \in Seq(Nat) /\ Len(u) = d - a /\ \A i \in 1 .. d - a : u[i] = a + i
  BY <1>1, RampFacts
<1> HIDE DEF s, t, u
<1>5. /\ s \o t \in Seq(Nat) /\ Len(s \o t) = Len(u)
      /\ \A i \in 1 .. Len(s) + Len(t) :
           (s \o t)[i] = IF i <= Len(s) THEN s[i] ELSE t[i - Len(s)]
  <2>1. /\ s \o t \in Seq(Nat) /\ Len(s \o t) = Len(s) + Len(t)
        /\ \A i \in 1 .. Len(s) + Len(t) :
             (s \o t)[i] = IF i <= Len(s) THEN s[i] ELSE t[i - Len(s)]
    BY <1>2, <1>3, ConcatProperties
  <2>2. Len(s) + Len(t) = Len(u)
    BY <1>2, <1>3, <1>4
  <2>3. QED  BY <2>1, <2>2
<1>6. ASSUME NEW i \in 1 .. Len(s \o t)
      PROVE  (s \o t)[i] = u[i]
  <2>1. i \in 1 .. Len(s) + Len(t) /\ i \in 1 .. d - a
    BY <1>2, <1>3, <1>4, <1>5
  <2>2. CASE i <= b - a
    <3>1. i \in 1 .. b - a
      BY <2>1, <2>2
    <3>2. (s \o t)[i] = s[i]
      BY <1>2, <1>5, <2>1, <2>2
    <3>3. QED  BY <1>2, <1>4, <2>1, <3>1, <3>2
  <2>3. CASE ~(i <= b - a)
    <3>1. i - (b - a) \in 1 .. d - b
      BY <2>1, <2>3
    <3>2. (s \o t)[i] = t[i - (b - a)]
      BY <1>2, <1>5, <2>1, <2>3
    <3>3. t[i - (b - a)] = b + (i - (b - a))
      BY <1>3, <3>1
    <3>4. QED  BY <1>4, <2>1, <3>2, <3>3
  <2>4. QED  BY <2>2, <2>3
<1>7. s \o t = u
  BY <1>4, <1>5, <1>6, SeqEqual
<1>8. QED  BY <1>7 DEF s, t, u

(* A part of a run is a run. *)
LEMMA RampPart ==
  ASSUME NEW a \in Nat, NEW b \in Nat, a <= b,
         NEW m \in Nat, NEW n \in Nat, m <= n, n <= b - a
  PROVE  SubSeq(Ramp(a, b), m + 1, n) = Ramp(a + m, a + n)
<1> DEFINE s == SubSeq(Ramp(a, b), m + 1, n)
           u == Ramp(a + m, a + n)
<1>1. u \in Seq(Nat) /\ Len(u) = n - m /\ \A i \in 1 .. n - m : u[i] = a + m + i
  <2>1. a + m \in Nat /\ a + n \in Nat /\ a + m <= a + n
        /\ (a + n) - (a + m) = n - m
    OBVIOUS
  <2>2. QED  BY <2>1, RampFacts
<1>2. \A i \in m + 1 .. n : Ramp(a, b)[i] \in Nat
  <2> SUFFICES ASSUME NEW i \in m + 1 .. n
               PROVE  Ramp(a, b)[i] \in Nat
    OBVIOUS
  <2>1. i \in 1 .. b - a
    OBVIOUS
  <2>2. Ramp(a, b)[i] = a + i
    BY <2>1, RampFacts
  <2>3. QED  BY <2>1, <2>2
<1>3. s \in Seq(Nat) /\ Len(s) = (IF m + 1 <= n THEN n - (m + 1) + 1 ELSE 0)
      /\ \A i \in 1 .. n - (m + 1) + 1 : s[i] = Ramp(a, b)[m + 1 + i - 1]
  BY <1>2, SubSeqProperties
<1>4. Len(s) = n - m
  BY <1>3
<1>5. ASSUME NEW i \in 1 .. Len(s)
      PROVE  s[i] = u[i]
  <2>1. i \in 1 .. n - (m + 1) + 1 /\ i \in 1 .. n - m /\ m + 1 + i - 1 \in 1 .. b - a
    BY <1>4
  <2>2. s[i] = Ramp(a, b)[m + 1 + i - 1]
    BY <1>3, <2>1
  <2>3. Ramp(a, b)[m + 1 + i - 1] = a + (m + 1 + i - 1)
    BY <2>1, RampFacts
  <2>4. QED  BY <1>1, <2>1, <2>2, <2>3
<1> HIDE DEF s, u
<1>6. s = u
  BY <1>1, <1>3, <1>4, <1>5, SeqEqual
<1>7. QED  BY <1>6 DEF s, u

(* The first k bytes of a run and the others. *)
LEMMA RampSplit ==
  ASSUME NEW a \in Nat, NEW b \in Nat, a <= b, NEW k \in Nat, k <= b - a
  PROVE  /\ Len(Ramp(a, b)) = b - a
         /\ SubSeq(Ramp(a, b), 1, k) = Ramp(a, a + k)
         /\ SubSeq(Ramp(a, b), k + 1, Len(Ramp(a, b))) = Ramp(a + k, b)
<1>1. Len(Ramp(a, b)) = b - a
  BY RampFacts
<1>2. 0 \in Nat /\ 0 <= k /\ a + 0 = a /\ 0 + 1 = 1
  OBVIOUS
<1>3. SubSeq(Ramp(a, b), 0 + 1, k) = Ramp(a + 0, a + k)
  BY <1>2, RampPart
<1>4. b - a \in Nat /\ b - a <= b - a /\ a + (b - a) = b
  OBVIOUS
<1>5. SubSeq(Ramp(a, b), k + 1, b - a) = Ramp(a + k, a + (b - a))
  BY <1>4, RampPart
<1>6. QED  BY <1>1, <1>2, <1>3, <1>4, <1>5

(* The same for a whole message. *)
LEMMA MessagePart ==
  ASSUME NEW l \in Nat, NEW m \in Nat, NEW n \in Nat, m <= n, n <= l
  PROVE  SubSeq(Ramp(0, l), m + 1, n) = Ramp(m, n)
<1>1. 0 <= l /\ n <= l - 0 /\ 0 + m = m /\ 0 + n = n
  OBVIOUS
<1>2. SubSeq(Ramp(0, l), m + 1, n) = Ramp(0 + m, 0 + n)
  BY <1>1, RampPart
<1>3. QED  BY <1>1, <1>2

(* The smaller of two numbers. *)
LEMMA MinFacts ==
  ASSUME NEW a \in Nat, NEW b \in Nat
  PROVE  /\ Min({a, b}) \in {a, b}
         /\ Min({a, b}) <= a /\ Min({a, b}) <= b
<1>1. \E x \in {a, b} : \A y \in {a, b} : x =< y
  OBVIOUS
<1>2. QED  BY <1>1 DEF Min

-----------------------------------------------------------------------------
(* Frames *)

USE DEF clientVars, wireVars, serverVars

(* A step that does not concern c, or only ends the service of c. *)
LEMMA ClientFrame ==
  ASSUME NEW c \in Clients, ClientOK(c), UNCHANGED <<mode, len>>,
         at'[c] = at[c], sent'[c] = sent[c], up'[c] = up[c], down'[c] = down[c],
         got'[c] = got[c], shut'[c] = shut[c],
         Queued(c)' => Queued(c),
         Served(c)' => Served(c) /\ UNCHANGED <<pc, data, writed>>,
         pc' # "dead" => pc # "dead"
  PROVE  ClientOK(c)'
<1>1. Received(c)' = Received(c)
  BY DEF Received
<1>2. FreshOK(c)'
  BY DEF ClientOK, FreshOK, Fresh
<1>3. Streams(c)'
  BY <1>1 DEF ClientOK, Streams
<1>4. WholeOK(c)'
  BY <1>1 DEF ClientOK, WholeOK, Undisturbed
<1>5. QED  BY <1>2, <1>3, <1>4 DEF ClientOK

(* A client dies, or its call fails: the rest goes on without it. *)
LEMMA ClientStops ==
  ASSUME IInv, NEW c \in Clients, NEW how \in {"dead", "failed"},
         at' = [at EXCEPT ![c] = how],
         UNCHANGED <<mode, len, sent, got, wireVars, serverVars, waiting>>,
         term' \in BOOLEAN
  PROVE  IInv'
<1>1. TypeOK'
  BY DEF IInv, TypeOK, Ended
<1>2. LoopOK' /\ QueueOnce'
  BY DEF IInv, LoopOK, QueueOnce, Queued, Served
<1>3. ASSUME NEW x \in Clients
      PROVE  ClientOK(x)'
  <2>1. (Queued(x)' <=> Queued(x)) /\ (Served(x)' <=> Served(x))
    BY DEF Queued, Served
  <2>2. CASE x # c
    <3>1. at'[x] = at[x]
      BY <2>2 DEF IInv, TypeOK
    <3>2. QED  BY <2>1, <3>1, ClientFrame DEF IInv
  <2>3. CASE x = c
    <3>1. at'[c] = how
      BY DEF IInv, TypeOK
    <3>2. ClientOK(c)
      BY DEF IInv
    <3>3. Received(c)' = Received(c)
      BY DEF Received
    <3>4. FreshOK(c)' /\ Streams(c)'
      BY <2>1, <2>3, <3>1, <3>2, <3>3 DEF ClientOK, FreshOK, Fresh, Streams
    <3>5. WholeOK(c)'
      BY <3>1 DEF WholeOK, Undisturbed
    <3>6. QED  BY <2>3, <3>4, <3>5 DEF ClientOK
  <2>4. QED  BY <2>2, <2>3
<1>4. QED  BY <1>1, <1>2, <1>3 DEF IInv

(* The server's loop turns without touching a connection. *)
LEMMA LoopTurns ==
  ASSUME IInv, UNCHANGED <<mode, len, clientVars, wireVars, waiting, cur, data, writed>>,
         term' \in BOOLEAN,
         \/ UNCHANGED pc
         \/ /\ pc \in {"check", "poll"} /\ pc' \in {"check", "poll", "accept", "recv"}
            /\ pc' \in {"accept", "recv"} => waiting # <<>>
            /\ pc' = "accept" => mode = "tcp"
            /\ pc' = "recv" => mode = "udp"
  PROVE  IInv'
<1>1. TypeOK'
  BY DEF IInv, TypeOK
<1>2. \A x \in Clients : (Queued(x)' <=> Queued(x)) /\ (Served(x)' <=> Served(x))
  BY DEF Queued, Served
<1>3. LoopOK'
  BY DEF IInv, LoopOK
<1>4. QueueOnce'
  BY <1>2 DEF IInv, QueueOnce
<1>5. ASSUME NEW x \in Clients
      PROVE  ClientOK(x)'
  <2>1. Served(x)' => UNCHANGED pc
    BY DEF Served
  <2>2. pc' # "dead" => pc # "dead"
    OBVIOUS
  <2>3. QED  BY <1>2, <2>1, <2>2, ClientFrame DEF IInv
<1>6. QED  BY <1>1, <1>3, <1>4, <1>5 DEF IInv

(* The server's process ends. *)
LEMMA EndKeeps ==
  ASSUME IInv, pc # "dead", NEW how \in {"done", "dead"}, End(how),
         how = "done" => cur = Nobody,
         UNCHANGED <<mode, len, clientVars, up, down, data, writed>>,
         term' \in BOOLEAN
  PROVE  IInv'
<1>1. pc' = how /\ cur' = Nobody /\ waiting' = <<>>
  BY DEF End
<1>2. \A x \in Clients : shut'[x] \in {"no", "eof", "reset"}
  BY DEF End, ShutOf, IInv, TypeOK
<1>3. TypeOK'
  <2>1. shut' \in [Clients -> {"no", "eof", "reset"}]
    BY <1>2 DEF End
  <2>2. <<>> \in Seq(Clients)
    OBVIOUS
  <2>3. QED  BY <1>1, <2>1, <2>2 DEF IInv, TypeOK
<1>4. \A x \in Clients : ~Queued(x)' /\ ~Served(x)'
  BY <1>1 DEF Queued, Served
<1>5. LoopOK' /\ QueueOnce'
  BY <1>1, <1>4 DEF LoopOK, QueueOnce
<1>6. ASSUME NEW x \in Clients
      PROVE  ClientOK(x)'
  <2>1. ClientOK(x) /\ Received(x)' = Received(x)
    BY DEF IInv, Received
  <2>2. FreshOK(x)'
    <3> SUFFICES ASSUME at[x] = "start"
                 PROVE  shut'[x] = shut[x]
      BY <1>4, <2>1 DEF ClientOK, FreshOK, Fresh
    <3>1. ~Queued(x) /\ ~Served(x)
      BY <2>1 DEF ClientOK, FreshOK
    <3>2. x # cur
      BY <3>1, ServeAssumption DEF IInv, LoopOK, Served
    <3>3. ~\E i \in DOMAIN waiting : waiting[i] = x
      BY <3>1 DEF Queued, IInv, TypeOK
    <3>4. QED  BY <3>2, <3>3 DEF End
  <2>3. Streams(x)'
    BY <1>4, <2>1 DEF ClientOK, Streams
  <2>4. WholeOK(x)'
    <3> SUFFICES ASSUME how = "done", Undisturbed(x)'
                 PROVE  WholeOK(x)'
      BY <1>1 DEF WholeOK, Undisturbed
    <3>1. shut'[x] = "eof" => shut[x] = "eof"
      BY ServeAssumption DEF End
    <3>2. QED  BY <1>1, <1>4, <2>1, <3>1 DEF ClientOK, WholeOK, Undisturbed
  <2>5. QED  BY <2>2, <2>3, <2>4 DEF ClientOK
<1>7. QED  BY <1>3, <1>5, <1>6 DEF IInv

-----------------------------------------------------------------------------
(* The clients *)

LEMMA MessageIsRamp ==
  ASSUME TypeOK, NEW c \in Clients
  PROVE  Message(c) = Ramp(0, len[c]) /\ len[c] \in Nat /\ sent[c].bytes \in Nat
         /\ sent[c].bytes <= len[c]
<1>1. len[c] \in Nat
  BY ServeAssumption DEF TypeOK
<1>2. len[c] - 0 = len[c] /\ \A i \in 1 .. len[c] : 0 + i = i
  BY <1>1
<1>3. QED  BY <1>1, <1>2 DEF Message, Ramp, TypeOK

(* A queue with one more at its end. *)
LEMMA QueueAppend ==
  ASSUME TypeOK, NEW c \in Clients, waiting' = Append(waiting, c)
  PROVE  /\ waiting' \in Seq(Clients) /\ waiting' # <<>>
         /\ \A x \in Clients : Queued(x)' <=> Queued(x) \/ x = c
         /\ QueueOnce /\ ~Queued(c) =>
              \A i, j \in 1 .. Len(waiting') : waiting'[i] = waiting'[j] => i = j
<1>1. waiting \in Seq(Clients) /\ Len(waiting) \in Nat
  BY DEF TypeOK
<1>2. waiting' \in Seq(Clients) /\ Len(waiting') = Len(waiting) + 1
      /\ waiting'[Len(waiting) + 1] = c
      /\ \A i \in 1 .. Len(waiting) : waiting'[i] = waiting[i]
  BY <1>1, AppendProperties
<1>3. waiting' # <<>>
  BY <1>1, <1>2
<1>4. \A x \in Clients : Queued(x)' <=> Queued(x) \/ x = c
  BY <1>1, <1>2 DEF Queued
<1>5. ASSUME QueueOnce, ~Queued(c),
             NEW i \in 1 .. Len(waiting'), NEW j \in 1 .. Len(waiting'),
             waiting'[i] = waiting'[j]
      PROVE  i = j
  BY <1>1, <1>2, <1>5 DEF QueueOnce, Queued
<1>6. QED  BY <1>2, <1>3, <1>4, <1>5

(* A queue without its first. *)
LEMMA QueueTail ==
  ASSUME TypeOK, QueueOnce, waiting # <<>>, waiting' = Tail(waiting)
  PROVE  /\ waiting' \in Seq(Clients) /\ Head(waiting) \in Clients
         /\ Queued(Head(waiting))
         /\ \A x \in Clients : Queued(x)' => Queued(x) /\ x # Head(waiting)
         /\ \A i, j \in 1 .. Len(waiting') : waiting'[i] = waiting'[j] => i = j
<1>1. waiting \in Seq(Clients) /\ Len(waiting) \in Nat /\ Len(waiting) # 0
      /\ Head(waiting) = waiting[1]
  BY DEF TypeOK
<1>2. /\ Head(waiting) \in Clients /\ waiting' \in Seq(Clients)
      /\ Len(waiting') = Len(waiting) - 1
      /\ \A i \in 1 .. Len(waiting') : waiting'[i] = waiting[i + 1]
  BY <1>1, HeadTailProperties
<1>3. Queued(Head(waiting))
  BY <1>1 DEF Queued
<1>4. ASSUME NEW x \in Clients, Queued(x)'
      PROVE  Queued(x) /\ x # Head(waiting)
  <2>1. PICK i \in 1 .. Len(waiting') : waiting'[i] = x
    BY <1>4 DEF Queued
  <2>2. i + 1 \in 1 .. Len(waiting) /\ waiting[i + 1] = x /\ i + 1 # 1
    BY <1>1, <1>2, <2>1
  <2>3. QED  BY <1>1, <2>2 DEF Queued, QueueOnce
<1>5. ASSUME NEW i \in 1 .. Len(waiting'), NEW j \in 1 .. Len(waiting'),
             waiting'[i] = waiting'[j]
      PROVE  i = j
  <2>1. i + 1 \in 1 .. Len(waiting) /\ j + 1 \in 1 .. Len(waiting)
        /\ waiting[i + 1] = waiting[j + 1]
    BY <1>1, <1>2, <1>5
  <2>2. i + 1 = j + 1
    BY <2>1 DEF QueueOnce
  <2>3. QED  BY <2>2
<1>6. QED  BY <1>2, <1>3, <1>4, <1>5

(* A client joins the queue, over TCP with a connection, over UDP with a   *)
(* datagram.                                                               *)
LEMMA ClientJoins ==
  ASSUME IInv, NEW c \in Clients, at[c] = "start",
         NEW next, at' = [at EXCEPT ![c] = next],
         next = "write" \/ (next = "done" /\ mode = "udp"),
         waiting' = Append(waiting, c) \/ UNCHANGED waiting,
         UNCHANGED <<mode, len, sent, got, wireVars, serverVars, term>>
  PROVE  IInv'
<1>1. ClientOK(c) /\ TypeOK
  BY DEF IInv
<1>2. Fresh(c) /\ ~Queued(c) /\ ~Served(c) /\ sent[c].bytes = 0
  BY <1>1 DEF ClientOK, FreshOK
<1>3. /\ waiting' \in Seq(Clients) /\ (waiting # <<>> => waiting' # <<>>)
      /\ \A x \in Clients : (Queued(x)' => Queued(x) \/ x = c)
      /\ \A i, j \in 1 .. Len(waiting') : waiting'[i] = waiting'[j] => i = j
  <2>1. CASE waiting' = Append(waiting, c)
    BY <1>1, <1>2, <2>1, QueueAppend DEF IInv
  <2>2. CASE UNCHANGED waiting
    BY <2>2 DEF IInv, TypeOK, QueueOnce, Queued
  <2>3. QED  BY <2>1, <2>2
<1>4. \A x \in Clients : Served(x)' <=> Served(x)
  BY DEF Served
<1>5. TypeOK'
  BY <1>3 DEF IInv, TypeOK, Ended
<1>6. LoopOK'
  BY <1>3 DEF IInv, LoopOK
<1>7. QueueOnce'
  BY <1>2, <1>3, <1>4 DEF IInv, QueueOnce
<1>8. ASSUME NEW x \in Clients
      PROVE  ClientOK(x)'
  <2>1. CASE x # c
    <3>1. at'[x] = at[x]
      BY <2>1 DEF IInv, TypeOK
    <3>2. QED  BY <1>3, <1>4, <2>1, <3>1, ClientFrame DEF IInv
  <2>2. CASE x = c
    <3>1. at'[c] = next
      BY <1>1 DEF TypeOK
    <3>2. FreshOK(c)'
      BY <1>2, <1>4, <3>1 DEF FreshOK, Fresh
    <3>3. Received(c)' = Received(c) /\ Received(c) = 0
      BY <1>2 DEF Received, Fresh
    <3>4. Streams(c)'
      BY <1>1, <1>4, <3>3 DEF ClientOK, Streams
    <3>5. WholeOK(c)'
      BY <1>2, <1>4, <3>1, <3>3 DEF WholeOK, Undisturbed, Fresh
    <3>6. QED  BY <2>2, <3>2, <3>4, <3>5 DEF ClientOK
  <2>3. QED  BY <2>1, <2>2
<1>9. QED  BY <1>5, <1>6, <1>7, <1>8 DEF IInv

(* A client's ::write appends the next run of its message. *)
LEMMA ClientWriteKeeps ==
  ASSUME IInv, NEW c \in Clients, ClientWrite(c)
  PROVE  IInv'
<1>1. CASE /\ shut[c] = "reset"
           /\ at' = [at EXCEPT ![c] = "failed"]
           /\ UNCHANGED <<sent, up, shut>>
  <2>1. UNCHANGED <<mode, len, down, got, waiting, serverVars, term, signals>>
    BY DEF ClientWrite
  <2>2. term' \in BOOLEAN
    BY <2>1 DEF IInv, TypeOK
  <2>3. QED  BY <1>1, <2>1, <2>2, ClientStops
<1>2. CASE ~(shut[c] = "reset")
  <2> DEFINE n == sent[c].bytes
  <2>1. PICK k \in 0 .. len[c] - n :
          /\ sent' = [sent EXCEPT ![c] = [bytes |-> n + k,
                                         whole |-> @.whole /\ n + k = len[c]]]
          /\ up' = [up EXCEPT ![c] = IF shut[c] = "eof" THEN @
                                     ELSE @ \o SubSeq(Message(c), n + 1, n + k)]
          /\ shut' = [shut EXCEPT ![c] = IF @ = "eof" /\ k > 0 THEN "reset" ELSE @]
          /\ at' = [at EXCEPT ![c] = IF n + k = len[c] THEN "read" ELSE @]
    BY <1>2 DEF ClientWrite
  <2>2. /\ at[c] = "write" /\ shut[c] # "reset"
        /\ UNCHANGED <<mode, len, down, got, waiting, serverVars, term, signals>>
    BY <1>2 DEF ClientWrite
  <2>3. /\ len[c] \in Nat /\ n \in Nat /\ k \in Nat /\ n + k <= len[c]
        /\ Message(c) = Ramp(0, len[c]) /\ TypeOK /\ ClientOK(c)
        /\ n + k \in Nat /\ n <= n + k /\ n + k <= len[c] - 0
    BY MessageIsRamp DEF IInv
  <2>4. SubSeq(Message(c), n + 1, n + k) = Ramp(n, n + k)
    <3>1. SubSeq(Ramp(0, len[c]), n + 1, n + k) = Ramp(n, n + k)
      BY <2>3, MessagePart
    <3>2. QED  BY <2>3, <3>1
  <2>5. /\ sent'[c].bytes = n + k
        /\ sent'[c].whole = (sent[c].whole /\ n + k = len[c])
        /\ up'[c] = IF shut[c] = "eof" THEN up[c] ELSE up[c] \o Ramp(n, n + k)
        /\ shut'[c] = IF shut[c] = "eof" /\ k > 0 THEN "reset" ELSE shut[c]
        /\ at'[c] = IF n + k = len[c] THEN "read" ELSE "write"
        /\ \A x \in Clients \ {c} : /\ sent'[x] = sent[x] /\ up'[x] = up[x]
                                    /\ shut'[x] = shut[x] /\ at'[x] = at[x]
    BY <2>1, <2>2, <2>3, <2>4 DEF TypeOK
  <2>6. \A x \in Clients : (Queued(x)' <=> Queued(x)) /\ (Served(x)' <=> Served(x))
    BY <2>2 DEF Queued, Served
  <2>7. TypeOK'
    <3>1. up[c] \o Ramp(n, n + k) \in Seq(Nat)
      <4>1. up[c] \in Seq(Nat)
        BY <2>3 DEF TypeOK
      <4>2. Ramp(n, n + k) \in Seq(Nat)
        BY <2>3, RampFacts
      <4>3. QED  BY <4>1, <4>2, ConcatProperties
    <3>2. up' \in [Clients -> Seq(Nat)]
      BY <2>1, <2>3, <2>4, <3>1 DEF TypeOK
    <3>3. sent' \in [Clients -> [bytes : Nat, whole : BOOLEAN]]
      BY <2>1, <2>3 DEF TypeOK
    <3>4. \A x \in Clients : sent'[x].bytes <= len[x]
      BY <2>3, <2>5 DEF TypeOK
    <3>5. shut' \in [Clients -> {"no", "eof", "reset"}]
      BY <2>1, <2>3 DEF TypeOK
    <3>6. at' \in [Clients -> {"start", "write", "read"} \cup Ended]
      BY <2>1, <2>3 DEF TypeOK
    <3>7. QED  BY <2>2, <2>3, <3>2, <3>3, <3>4, <3>5, <3>6 DEF TypeOK
  <2>8. LoopOK' /\ QueueOnce'
    BY <2>2, <2>6 DEF IInv, LoopOK, QueueOnce
  <2>9. ClientOK(c)'
    <3>1. Received(c)' = Received(c)
      BY <2>2 DEF Received
    <3>2. ASSUME NEW a \in Nat, a <= n, up[c] = Ramp(a, n), shut[c] = "no"
          PROVE  up'[c] = Ramp(a, n + k)
      <4>1. Ramp(a, n) \o Ramp(n, n + k) = Ramp(a, n + k)
        BY <2>3, <3>2, RampJoin
      <4>2. QED  BY <2>5, <3>2, <4>1
    <3>3. FreshOK(c)'
      <4>1. CASE Queued(c)
        <5>1. Fresh(c)
          BY <2>3, <4>1 DEF ClientOK, FreshOK
        <5>2. up'[c] = Ramp(0, n + k)
          BY <2>3, <3>2, <5>1 DEF Fresh
        <5>3. QED  BY <2>2, <2>3, <2>5, <2>6, <5>1, <5>2 DEF ClientOK, FreshOK, Fresh
      <4>2. CASE ~Queued(c)
        BY <2>3, <2>5, <2>6, <4>2 DEF ClientOK, FreshOK
      <4>3. QED  BY <4>1, <4>2
    <3>4. Streams(c)'
      <4>1. CASE Served(c)
        <5>1. /\ shut[c] = "no" /\ Len(data) <= n /\ up[c] = Ramp(Len(data), n)
              /\ Len(data) \in Nat
          BY <2>3, <4>1 DEF ClientOK, FreshOK, Streams, TypeOK
        <5>2. up'[c] = Ramp(Len(data), n + k) /\ Len(data) <= n + k
          BY <2>3, <3>2, <5>1
        <5>3. QED  BY <2>2, <2>3, <2>5, <2>6, <3>1, <4>1, <5>2 DEF ClientOK, Streams
      <4>2. CASE ~Served(c)
        BY <2>2, <2>3, <2>6, <3>1, <4>2 DEF ClientOK, Streams
      <4>3. QED  BY <4>1, <4>2
    <3>5. WholeOK(c)'
      BY <2>2, <2>3, <2>5, <2>6, <3>1 DEF ClientOK, WholeOK, Undisturbed
    <3>6. QED  BY <3>3, <3>4, <3>5 DEF ClientOK
  <2>10. ASSUME NEW x \in Clients \ {c}
         PROVE  ClientOK(x)'
    BY <2>2, <2>5, <2>6, ClientFrame DEF IInv
  <2>11. QED  BY <2>7, <2>8, <2>9, <2>10 DEF IInv
<1>3. QED  BY <1>1, <1>2 DEF ClientWrite

(* A client's ::read moves the first bytes on their way to what it has. *)
LEMMA ClientReadKeeps ==
  ASSUME IInv, NEW c \in Clients, ClientRead(c)
  PROVE  IInv'
<1>1. /\ at[c] = "read"
      /\ UNCHANGED <<mode, len, sent, up, shut, waiting, serverVars, term, signals>>
      /\ TypeOK /\ ClientOK(c)
  BY DEF ClientRead, IInv
<1>2. CASE /\ shut[c] = "reset"
           /\ at' = [at EXCEPT ![c] = "failed"]
           /\ UNCHANGED <<got, down>>
  <2>1. term' \in BOOLEAN
    BY <1>1 DEF TypeOK
  <2>2. QED  BY <1>1, <1>2, <2>1, ClientStops
<1>3. ASSUME down[c] # <<>> \/ shut[c] = "eof",
             NEW k, k = Min({Len(down[c]), Buf}),
             got' = [got EXCEPT ![c] = @ \o SubSeq(down[c], 1, k)],
             down' = [down EXCEPT ![c] = SubSeq(@, k + 1, Len(@))],
             at' = [at EXCEPT ![c] = IF k >= Buf THEN @ ELSE "done"]
      PROVE  IInv'
  <2> DEFINE g == Len(got[c])
             r == Received(c)
  <2>1. /\ g \in Nat /\ r \in Nat /\ g <= r /\ Len(down[c]) = r - g
        /\ got[c] = Ramp(0, g) /\ down[c] = Ramp(g, r)
    <3>1. got[c] \in Seq(Nat) /\ down[c] \in Seq(Nat)
      BY <1>1 DEF TypeOK
    <3>2. Len(got[c]) \in Nat /\ Len(down[c]) \in Nat
      BY <3>1
    <3>3. r = g + Len(down[c])
      BY DEF Received
    <3>4. got[c] = Ramp(0, g) /\ down[c] = Ramp(g, r)
      BY <1>1 DEF ClientOK, Streams
    <3> HIDE DEF g, r
    <3>5. g \in Nat
      BY <3>2 DEF g
    <3>6. QED  BY <3>2, <3>3, <3>4, <3>5
  <2>2. k \in Nat /\ k <= r - g /\ (k >= Buf \/ k = r - g)
    <3>1. Buf \in Nat /\ Len(down[c]) \in Nat
      BY <2>1, ServeAssumption
    <3>2. k \in {Len(down[c]), Buf} /\ k <= Len(down[c])
      BY <1>3, <3>1, MinFacts
    <3>3. QED  BY <2>1, <3>1, <3>2
  <2> HIDE DEF g, r
  <2>3. /\ SubSeq(down[c], 1, k) = Ramp(g, g + k)
        /\ SubSeq(down[c], k + 1, Len(down[c])) = Ramp(g + k, r)
    <3>1. /\ SubSeq(Ramp(g, r), 1, k) = Ramp(g, g + k)
          /\ SubSeq(Ramp(g, r), k + 1, Len(Ramp(g, r))) = Ramp(g + k, r)
      BY <2>1, <2>2, RampSplit
    <3>2. QED  BY <2>1, <3>1
  <2>4. /\ g + k \in Nat /\ g <= g + k /\ g + k <= r
        /\ Ramp(0, g) \o Ramp(g, g + k) = Ramp(0, g + k)
    <3>1. 0 \in Nat /\ 0 <= g /\ g + k \in Nat /\ g <= g + k /\ g + k <= r
      BY <2>1, <2>2
    <3>2. QED  BY <2>1, <3>1, RampJoin
  <2>5. /\ got'[c] = Ramp(0, g + k) /\ down'[c] = Ramp(g + k, r)
        /\ at'[c] = IF k >= Buf THEN "read" ELSE "done"
        /\ \A x \in Clients \ {c} : /\ got'[x] = got[x] /\ down'[x] = down[x]
                                    /\ at'[x] = at[x]
    BY <1>1, <1>3, <2>1, <2>3, <2>4 DEF TypeOK
  <2>6. /\ got'[c] \in Seq(Nat) /\ down'[c] \in Seq(Nat)
        /\ Len(got'[c]) = g + k /\ Len(down'[c]) = r - (g + k)
    <3>1. 0 \in Nat /\ 0 <= g + k /\ (g + k) - 0 = g + k
      BY <2>4
    <3>2. QED  BY <2>1, <2>4, <2>5, <3>1, RampFacts
  <2>7. Received(c)' = r
    BY <2>1, <2>4, <2>6 DEF Received
  <2>8. \A x \in Clients : (Queued(x)' <=> Queued(x)) /\ (Served(x)' <=> Served(x))
    BY <1>1 DEF Queued, Served
  <2>9. TypeOK'
    <3>1. got' \in [Clients -> Seq(Nat)] /\ down' \in [Clients -> Seq(Nat)]
      BY <1>1, <1>3, <2>5, <2>6 DEF TypeOK
    <3>2. at' \in [Clients -> {"start", "write", "read"} \cup Ended]
      BY <1>1, <1>3 DEF TypeOK, Ended
    <3>3. QED  BY <1>1, <3>1, <3>2 DEF TypeOK
  <2>10. LoopOK' /\ QueueOnce'
    BY <1>1, <2>8 DEF IInv, LoopOK, QueueOnce
  <2>11. ClientOK(c)'
    <3>1. ~Queued(c) /\ (at'[c] # "start")
      BY <1>1, <1>3, <2>5 DEF ClientOK, FreshOK, Fresh
    <3>2. FreshOK(c)'
      BY <1>1, <2>8, <3>1 DEF ClientOK, FreshOK
    <3>3. Streams(c)'
      BY <1>1, <2>5, <2>6, <2>7, <2>8 DEF ClientOK, Streams, r
    <3>4. WholeOK(c)'
      <4> SUFFICES ASSUME Undisturbed(c)'
                   PROVE  WholeOK(c)'
        BY DEF WholeOK
      <4>1. Undisturbed(c)
        BY <1>1 DEF Undisturbed
      <4>2. r = len[c]
        <5>1. down[c] # <<>> => r # 0
          BY <2>1, RampEmpty
        <5>2. QED  BY <1>1, <1>3, <4>1, <5>1 DEF ClientOK, WholeOK, r
      <4>3. at'[c] = "done" => down'[c] = <<>>
        <5>1. at'[c] = "done" => g + k = r
          BY <2>1, <2>2, <2>5
        <5>2. QED  BY <2>1, <2>5, <5>1, RampEmpty
      <4>4. QED
        BY <1>1, <2>7, <2>8, <4>1, <4>2, <4>3 DEF ClientOK, WholeOK
    <3>5. QED  BY <3>2, <3>3, <3>4 DEF ClientOK
  <2>12. ASSUME NEW x \in Clients \ {c}
         PROVE  ClientOK(x)'
    BY <1>1, <2>5, <2>8, ClientFrame DEF IInv
  <2>13. QED  BY <2>9, <2>10, <2>11, <2>12 DEF IInv
<1>4. QED  BY <1>2, <1>3 DEF ClientRead

-----------------------------------------------------------------------------
(* The server *)

(* accept() takes a connection nothing was read from or written to yet. *)
LEMMA AcceptKeeps ==
  ASSUME IInv, Accept
  PROVE  IInv'
<1>1. /\ pc = "accept" /\ waiting # <<>> /\ mode = "tcp"
      /\ cur' = Head(waiting) /\ waiting' = Tail(waiting)
      /\ pc' = "read" /\ data' = <<>> /\ writed' = 0
      /\ UNCHANGED <<mode, len, clientVars, wireVars, term, signals>>
  BY DEF Accept, IInv, LoopOK
<1>2. TypeOK /\ QueueOnce
  BY DEF IInv
<1>3. PICK c \in Clients :
      /\ c = Head(waiting) /\ waiting' \in Seq(Clients) /\ Queued(c)
      /\ \A x \in Clients : Queued(x)' => Queued(x) /\ x # c
      /\ \A i, j \in 1 .. Len(waiting') : waiting'[i] = waiting'[j] => i = j
  BY <1>1, <1>2, QueueTail
<1>4. TypeOK'
  <2>1. <<>> \in Seq(Nat) /\ 0 \in 0 .. Len(<<>>)
    OBVIOUS
  <2>2. QED  BY <1>1, <1>2, <1>3, <2>1 DEF TypeOK
<1>5. LoopOK'
  BY <1>1, <1>3, ServeAssumption DEF LoopOK
<1>6. \A x \in Clients : Served(x)' <=> x = c
  BY <1>1, <1>3 DEF Served
<1>7. QueueOnce'
  BY <1>3, <1>6 DEF QueueOnce
<1>8. ASSUME NEW x \in Clients
      PROVE  ClientOK(x)'
  <2>1. CASE x # c
    BY <1>1, <1>3, <1>6, <2>1, ClientFrame DEF IInv
  <2>2. CASE x = c
    <3>1. ClientOK(c) /\ Fresh(c) /\ Received(c)' = Received(c) /\ Received(c) = 0
      <4>1. ClientOK(c) /\ Fresh(c)
        BY <1>3 DEF IInv, ClientOK, FreshOK
      <4>2. Received(c) = 0
        BY <4>1 DEF Fresh, Received
      <4>3. Received(c)' = Received(c)
        BY <1>1 DEF Received
      <4>4. QED  BY <4>1, <4>2, <4>3
    <3>2. FreshOK(c)'
      BY <1>1, <1>3, <3>1 DEF ClientOK, FreshOK, Fresh
    <3>3. Streams(c)'
      <4>1. Len(<<>>) = 0 /\ <<>> = Ramp(0, 0) /\ 0 <= sent[c].bytes
        BY <1>2, <1>3, RampEmpty DEF TypeOK
      <4>2. QED  BY <1>1, <3>1, <4>1 DEF ClientOK, Streams, Fresh
    <3>4. WholeOK(c)'
      BY <1>1, <3>1 DEF ClientOK, WholeOK, Undisturbed
    <3>5. QED  BY <2>2, <3>2, <3>3, <3>4 DEF ClientOK
  <2>3. QED  BY <2>1, <2>2
<1>9. QED  BY <1>4, <1>5, <1>7, <1>8 DEF IInv

(* What is known of the client that is served. *)
LEMMA ServedFacts ==
  ASSUME IInv, pc \in {"read", "write"}
  PROVE  /\ cur \in Clients /\ Served(cur) /\ ~Queued(cur)
         /\ ClientOK(cur) /\ shut[cur] = "no" /\ at[cur] # "start"
         /\ Received(cur) = writed /\ Received(cur) \in Nat
         /\ Len(data) \in Nat /\ sent[cur].bytes \in Nat /\ Len(data) <= sent[cur].bytes
         /\ data = Ramp(0, Len(data)) /\ up[cur] = Ramp(Len(data), sent[cur].bytes)
         /\ \A x \in Clients : Served(x) => x = cur
<1>1. cur \in Clients /\ Served(cur)
  BY DEF IInv, LoopOK, TypeOK, Served
<1>2. ClientOK(cur) /\ ~Queued(cur)
  BY <1>1 DEF IInv, QueueOnce
<1>3. Len(data) \in Nat /\ sent[cur].bytes \in Nat /\ writed \in Nat
  BY <1>1 DEF IInv, TypeOK
<1>4. QED  BY <1>1, <1>2, <1>3 DEF ClientOK, FreshOK, Streams, Served

(* The server's ::read continues the run it has. *)
LEMMA ReadKeeps ==
  ASSUME IInv, Read
  PROVE  IInv'
<1>0. PICK c \in Clients : c = cur
  BY ServedFacts DEF Read
<1> DEFINE d == Len(data)
           n == sent[c].bytes
           k == Min({Len(up[c]), Buf})
<1>1. /\ pc = "read" /\ ~Blocked /\ Keep(k)
      /\ pc' = IF k >= Buf THEN "read" ELSE "write"
      /\ UNCHANGED <<mode, len, clientVars, down, shut, waiting, cur, writed, term, signals>>
      /\ mode = "tcp" /\ writed = 0 /\ TypeOK
  BY <1>0 DEF Read, IInv, LoopOK
<1>2. /\ Served(c) /\ ~Queued(c) /\ ClientOK(c) /\ Received(c) = 0
      /\ d \in Nat /\ n \in Nat /\ d <= n /\ data = Ramp(0, d) /\ up[c] = Ramp(d, n)
      /\ \A x \in Clients : Served(x) => x = c
  BY <1>0, <1>1, ServedFacts
<1>3. Len(up[c]) = n - d
  BY <1>2, RampFacts
<1>4. k \in Nat /\ k <= n - d /\ (k >= Buf \/ k = n - d)
  <2>1. Buf \in Nat /\ Len(up[c]) \in Nat
    BY <1>2, <1>3, ServeAssumption
  <2>2. k \in {Len(up[c]), Buf} /\ k <= Len(up[c])
    BY <2>1, MinFacts
  <2>3. QED  BY <1>3, <2>1, <2>2
<1>5. data' = data \o SubSeq(up[c], 1, k)
      /\ up' = [up EXCEPT ![c] = SubSeq(@, k + 1, Len(@))]
  BY <1>0, <1>1 DEF Keep
<1> HIDE DEF d, n, k
<1>6. SubSeq(up[c], 1, k) = Ramp(d, d + k) /\ SubSeq(up[c], k + 1, Len(up[c])) = Ramp(d + k, n)
  <2>1. /\ SubSeq(Ramp(d, n), 1, k) = Ramp(d, d + k)
        /\ SubSeq(Ramp(d, n), k + 1, Len(Ramp(d, n))) = Ramp(d + k, n)
    BY <1>2, <1>4, RampSplit
  <2>2. QED  BY <1>2, <2>1
<1>7. /\ d + k \in Nat /\ d <= d + k /\ d + k <= n /\ 0 <= d + k /\ (d + k) - 0 = d + k
      /\ Ramp(0, d) \o Ramp(d, d + k) = Ramp(0, d + k)
  <2>1. 0 \in Nat /\ 0 <= d /\ d + k \in Nat /\ d <= d + k /\ d + k <= n
        /\ 0 <= d + k /\ (d + k) - 0 = d + k
    BY <1>2, <1>4
  <2>2. QED  BY <1>2, <2>1, RampJoin
<1>8. /\ data' = Ramp(0, d + k) /\ up'[c] = Ramp(d + k, n)
      /\ \A x \in Clients \ {c} : up'[x] = up[x]
  BY <1>1, <1>2, <1>5, <1>6, <1>7 DEF TypeOK
<1>9. data' \in Seq(Nat) /\ Len(data') = d + k /\ up'[c] \in Seq(Nat)
  <2>1. Ramp(0, d + k) \in Seq(Nat) /\ Len(Ramp(0, d + k)) = d + k
    BY <1>7, RampFacts
  <2>2. Ramp(d + k, n) \in Seq(Nat)
    BY <1>2, <1>7, RampFacts
  <2>3. QED  BY <1>8, <2>1, <2>2
<1>10. TypeOK'
  <2>1. up' \in [Clients -> Seq(Nat)]
    BY <1>1, <1>5, <1>8, <1>9 DEF TypeOK
  <2>2. writed' \in 0 .. Len(data')
    BY <1>1, <1>7, <1>9
  <2>3. QED  BY <1>1, <1>9, <2>1, <2>2 DEF TypeOK
<1>11. \A x \in Clients : (Queued(x)' <=> Queued(x)) /\ (Served(x)' <=> Served(x))
  BY <1>1 DEF Queued, Served
<1>12. LoopOK' /\ QueueOnce'
  BY <1>1, <1>11 DEF IInv, LoopOK, QueueOnce
<1>13. ClientOK(c)'
  <2>1. Received(c)' = 0
    BY <1>1, <1>2 DEF Received
  <2>2. sent'[c].bytes = n /\ cur = c
    BY <1>0, <1>1 DEF n
  <2>3. FreshOK(c)'
    BY <1>1, <1>2, <1>11 DEF ClientOK, FreshOK
  <2>4. Streams(c)'
    BY <1>1, <1>2, <1>7, <1>8, <1>9, <2>1, <2>2 DEF ClientOK, Streams
  <2>5. WholeOK(c)'
    <3> SUFFICES ASSUME Undisturbed(c)'
                 PROVE  WholeOK(c)'
      BY DEF WholeOK
    <3>1. Undisturbed(c)
      BY <1>1 DEF Undisturbed
    <3>2. n \in {0, len[c]}
      BY <1>2, <3>1 DEF ClientOK, WholeOK, n
    <3>3. pc' = "write" => d + k = len[c]
      <4>1. up[c] # <<>>
        BY <1>1, <2>2, <3>1 DEF Blocked, Undisturbed
      <4>2. d # n
        BY <1>2, <4>1, RampEmpty
      <4>3. n = len[c]
        BY <1>2, <3>2, <4>2
      <4>4. pc' = "write" => k = n - d
        BY <1>1, <1>4
      <4>5. QED  BY <1>2, <1>4, <4>3, <4>4
    <3>4. QED
      BY <1>1, <1>2, <1>9, <2>1, <3>1, <3>3 DEF ClientOK, WholeOK
  <2>6. QED  BY <2>3, <2>4, <2>5 DEF ClientOK
<1>14. ASSUME NEW x \in Clients \ {c}
       PROVE  ClientOK(x)'
  <2>1. ~Served(x)'
    BY <1>2, <1>11
  <2>2. QED  BY <1>1, <1>8, <1>11, <2>1, ClientFrame DEF IInv
<1>15. QED  BY <1>10, <1>12, <1>13, <1>14 DEF IInv

(* The server's ::write sends the next run of what it read. *)
LEMMA WriteKeeps ==
  ASSUME IInv, Write
  PROVE  IInv'
<1>1. /\ pc = "write" /\ writed < Len(data) /\ TypeOK /\ mode = "tcp"
      /\ UNCHANGED <<mode, len, at, got, up, data, term, signals>>
  BY DEF Write, IInv, LoopOK
<1>2. CASE End("dead") /\ UNCHANGED <<writed, sent, down>>
  <2>1. term' \in BOOLEAN
    BY <1>1 DEF TypeOK
  <2>2. QED  BY <1>1, <1>2, <2>1, EndKeeps
<1>3. CASE \E k \in 1 .. Len(data) - writed :
             /\ writed' = writed + k
             /\ sent' = [sent EXCEPT ![cur].whole = @ /\ writed + k = Len(data)]
             /\ down' = [down EXCEPT ![cur] = @ \o SubSeq(data, writed + 1, writed + k)]
             /\ UNCHANGED <<pc, cur, shut, waiting>>
  <2>0. PICK c \in Clients : c = cur
    BY <1>1, ServedFacts
  <2> DEFINE d == Len(data)
             g == Len(got[c])
             w == writed
  <2>1. PICK k \in 1 .. d - w :
          /\ writed' = w + k
          /\ sent' = [sent EXCEPT ![c].whole = @ /\ w + k = d]
          /\ down' = [down EXCEPT ![c] = @ \o SubSeq(data, w + 1, w + k)]
          /\ UNCHANGED <<pc, cur, shut, waiting>>
    BY <1>3, <2>0
  <2>2. /\ Served(c) /\ ~Queued(c) /\ ClientOK(c) /\ Received(c) = w /\ w \in Nat
        /\ d \in Nat /\ d <= sent[c].bytes /\ data = Ramp(0, d)
        /\ \A x \in Clients : Served(x) => x = c
    BY <1>1, <2>0, ServedFacts
  <2>3. /\ down[c] = Ramp(g, w) /\ g \in Nat /\ Len(down[c]) \in Nat
        /\ g + Len(down[c]) = w /\ d <= len[c]
    <3>1. Len(got[c]) \in Nat /\ Len(down[c]) \in Nat
      BY <1>1 DEF TypeOK
    <3>2. sent[c].bytes \in Nat /\ sent[c].bytes <= len[c] /\ len[c] \in Nat
      BY <1>1, MessageIsRamp
    <3>3. d <= len[c]
      BY <2>2, <3>2
    <3>4. QED  BY <2>2, <3>1, <3>3 DEF ClientOK, Streams, Received
  <2> HIDE DEF d, g, w
  <2>4. /\ k \in Nat /\ w + k \in Nat /\ g <= w /\ w <= w + k /\ w + k <= d /\ w < d
        /\ g <= w + k
    BY <1>1, <2>2, <2>3 DEF d, w
  <2>5. SubSeq(data, w + 1, w + k) = Ramp(w, w + k)
    <3>1. SubSeq(Ramp(0, d), w + 1, w + k) = Ramp(w, w + k)
      BY <2>2, <2>4, MessagePart
    <3>2. QED  BY <2>2, <3>1
  <2>6. Ramp(g, w) \o Ramp(w, w + k) = Ramp(g, w + k)
    BY <2>2, <2>3, <2>4, RampJoin
  <2>7. /\ down'[c] = Ramp(g, w + k)
        /\ sent'[c].bytes = sent[c].bytes
        /\ sent'[c].whole = (sent[c].whole /\ w + k = d)
        /\ \A x \in Clients \ {c} : down'[x] = down[x] /\ sent'[x] = sent[x]
    BY <1>1, <2>1, <2>3, <2>5, <2>6 DEF TypeOK
  <2>8. down'[c] \in Seq(Nat) /\ Len(down'[c]) = (w + k) - g
    BY <2>3, <2>4, <2>7, RampFacts
  <2>9. Received(c)' = w + k
    <3>1. Received(c)' = g + Len(down'[c])
      BY <1>1 DEF Received, g
    <3>2. QED  BY <2>3, <2>4, <2>8, <3>1
  <2>10. TypeOK'
    <3>1. down' \in [Clients -> Seq(Nat)]
      BY <1>1, <2>1, <2>5, <2>7, <2>8 DEF TypeOK
    <3>2. sent' \in [Clients -> [bytes : Nat, whole : BOOLEAN]]
      BY <1>1, <2>1 DEF TypeOK
    <3>3. \A x \in Clients : sent'[x].bytes <= len[x]
      BY <1>1, <2>7 DEF TypeOK
    <3>4. writed' \in 0 .. Len(data)
      BY <2>1, <2>2, <2>4 DEF d
    <3>5. QED  BY <1>1, <2>1, <3>1, <3>2, <3>3, <3>4 DEF TypeOK
  <2>11. \A x \in Clients : (Queued(x)' <=> Queued(x)) /\ (Served(x)' <=> Served(x))
    BY <2>1 DEF Queued, Served
  <2>12. LoopOK' /\ QueueOnce'
    BY <1>1, <2>1, <2>11 DEF IInv, LoopOK, QueueOnce
  <2>13. ClientOK(c)'
    <3>1. FreshOK(c)'
      BY <1>1, <2>1, <2>2, <2>11 DEF ClientOK, FreshOK
    <3>2. Streams(c)'
      <4>1. w + k <= len[c] /\ writed' = w + k /\ Len(data) <= sent'[c].bytes
        BY <2>1, <2>2, <2>3, <2>4, <2>7, MessageIsRamp, <1>1 DEF d
      <4>2. QED
        BY <1>1, <2>2, <2>7, <2>9, <4>1 DEF ClientOK, Streams, g
    <3>3. WholeOK(c)'
      <4> SUFFICES ASSUME Undisturbed(c)'
                   PROVE  WholeOK(c)'
        BY DEF WholeOK
      <4>1. Undisturbed(c) /\ w + k = d
        BY <1>1, <2>1, <2>7 DEF Undisturbed
      <4>2. d = len[c]
        BY <1>1, <2>2, <4>1 DEF ClientOK, WholeOK, d
      <4>3. at[c] # "done"
        BY <2>2, <2>4, <4>1, <4>2 DEF ClientOK, WholeOK
      <4>4. shut[c] = "no" /\ sent[c].bytes \in {0, len[c]}
            /\ (at[c] = "read" => sent[c].bytes = len[c])
        BY <2>2, <4>1 DEF ClientOK, FreshOK, WholeOK
      <4>5. QED
        BY <1>1, <2>1, <2>7, <2>9, <4>1, <4>2, <4>3, <4>4 DEF WholeOK, d
    <3>4. QED  BY <3>1, <3>2, <3>3 DEF ClientOK
  <2>14. ASSUME NEW x \in Clients \ {c}
         PROVE  ClientOK(x)'
    <3>1. ~Served(x)'
      BY <2>2, <2>11
    <3>2. QED  BY <1>1, <2>1, <2>7, <2>11, <3>1, ClientFrame DEF IInv
  <2>15. QED  BY <2>10, <2>12, <2>13, <2>14 DEF IInv
<1>4. QED  BY <1>2, <1>3 DEF Write

(* The connection is closed when everything that was read is written. *)
LEMMA CloseKeeps ==
  ASSUME IInv, Close
  PROVE  IInv'
<1>1. /\ pc = "write" /\ writed = Len(data) /\ TypeOK /\ mode = "tcp"
      /\ shut' = [shut EXCEPT ![cur] = ShutOf(cur)]
      /\ cur' = Nobody /\ pc' = "check"
      /\ UNCHANGED <<mode, len, clientVars, up, down, waiting, data, writed, term, signals>>
  BY DEF Close, IInv, LoopOK
<1>2. PICK c \in Clients : c = cur
  BY <1>1, ServedFacts
<1>3. /\ Served(c) /\ ~Queued(c) /\ ClientOK(c) /\ Received(c) = writed
      /\ at[c] # "start"
      /\ \A x \in Clients : Served(x) => x = c
  BY <1>1, <1>2, ServedFacts
<1>4. \A x \in Clients : (Queued(x)' <=> Queued(x)) /\ ~Served(x)'
  BY <1>1 DEF Queued, Served
<1>5. TypeOK'
  <2>1. shut' \in [Clients -> {"no", "eof", "reset"}]
    BY <1>1 DEF TypeOK, ShutOf
  <2>2. QED  BY <1>1, <2>1 DEF TypeOK
<1>6. LoopOK' /\ QueueOnce'
  BY <1>1, <1>4 DEF IInv, LoopOK, QueueOnce
<1>7. ClientOK(c)'
  <2>1. Received(c)' = Received(c)
    BY <1>1 DEF Received
  <2>2. FreshOK(c)'
    BY <1>1, <1>3, <1>4 DEF FreshOK
  <2>3. Streams(c)'
    BY <1>1, <1>3, <1>4, <2>1 DEF ClientOK, Streams
  <2>4. WholeOK(c)'
    <3> SUFFICES ASSUME Undisturbed(c)'
                 PROVE  WholeOK(c)'
      BY DEF WholeOK
    <3>1. Undisturbed(c)
      BY <1>1 DEF Undisturbed
    <3>2. Received(c) = len[c]
      BY <1>1, <1>3, <3>1 DEF ClientOK, WholeOK
    <3>3. QED  BY <1>1, <1>3, <1>4, <2>1, <3>1, <3>2 DEF ClientOK, WholeOK
  <2>5. QED  BY <2>2, <2>3, <2>4 DEF ClientOK
<1>8. ASSUME NEW x \in Clients \ {c}
      PROVE  ClientOK(x)'
  <2>1. shut'[x] = shut[x]
    BY <1>1, <1>2 DEF TypeOK
  <2>2. QED  BY <1>1, <1>4, <2>1, ClientFrame DEF IInv
<1>9. QED  BY <1>5, <1>6, <1>7, <1>8 DEF IInv

(* A datagram is taken, or ends the receiver. *)
LEMMA RecvfromKeeps ==
  ASSUME IInv, Recvfrom
  PROVE  IInv'
<1>1. /\ pc = "recv" /\ waiting # <<>> /\ TypeOK /\ QueueOnce /\ LoopOK /\ mode = "udp"
      /\ UNCHANGED <<mode, len, clientVars, up, down, data, writed, term, signals>>
      /\ cur = Nobody /\ term' \in BOOLEAN
  BY DEF Recvfrom, IInv, LoopOK, TypeOK
<1>2. CASE \E how \in {"done", "dead"} : End(how)
  BY <1>1, <1>2, EndKeeps
<1>3. CASE waiting' = Tail(waiting) /\ pc' = "check" /\ UNCHANGED <<cur, shut>>
  <2>1. /\ waiting' \in Seq(Clients)
        /\ \A x \in Clients : Queued(x)' => Queued(x)
        /\ \A i, j \in 1 .. Len(waiting') : waiting'[i] = waiting'[j] => i = j
    BY <1>1, <1>3, QueueTail
  <2>2. \A x \in Clients : ~Served(x)'
    BY <1>3 DEF Served
  <2>3. TypeOK'
    BY <1>1, <1>3, <2>1 DEF TypeOK
  <2>4. LoopOK'
    BY <1>1, <1>3 DEF LoopOK
  <2>5. QueueOnce'
    BY <2>1, <2>2 DEF QueueOnce
  <2>6. ASSUME NEW x \in Clients
        PROVE  ClientOK(x)'
    BY <1>1, <1>3, <2>1, <2>2, ClientFrame DEF IInv
  <2>7. QED  BY <2>3, <2>4, <2>5, <2>6 DEF IInv
<1>4. QED  BY <1>2, <1>3 DEF Recvfrom

-----------------------------------------------------------------------------
LEMMA InitIInv == Init => IInv
<1> SUFFICES ASSUME Init
             PROVE  IInv
  OBVIOUS
<1>1. <<>> \in Seq(Nat) /\ <<>> \in Seq(Clients) /\ Len(<<>>) = 0 /\ <<>> = Ramp(0, 0)
  BY RampEmpty
<1>2. \A c \in Clients : 0 <= len[c] /\ len[c] \in Nat
  <2>1. ASSUME NEW c \in Clients
        PROVE  0 <= len[c] /\ len[c] \in Nat
    <3>1. len[c] \in Lengths
      BY DEF Init
    <3>2. len[c] \in Nat
      BY <3>1, ServeAssumption
    <3>3. QED  BY <3>2
  <2>2. QED  BY <2>1
<1>3. TypeOK
  <2>1. /\ mode \in {"tcp", "udp"} /\ len \in [Clients -> Lengths]
        /\ at \in [Clients -> {"start", "write", "read"} \cup Ended]
        /\ shut \in [Clients -> {"no", "eof", "reset"}]
    BY DEF Init
  <2>2. sent \in [Clients -> [bytes : Nat, whole : BOOLEAN]]
    BY DEF Init
  <2>3. \A c \in Clients : sent[c].bytes <= len[c]
    BY <1>2 DEF Init
  <2>4. up \in [Clients -> Seq(Nat)] /\ down = up /\ got = up
    BY <1>1 DEF Init
  <2>5. pc = "poll" /\ cur = Nobody /\ term = FALSE
    BY DEF Init
  <2>6. waiting \in Seq(Clients) /\ data \in Seq(Nat)
    BY <1>1 DEF Init
  <2>7. writed \in 0 .. Len(data)
    <3>1. writed = 0 /\ Len(data) = 0
      BY <1>1 DEF Init
    <3>2. QED  BY <3>1
  <2>8. QED  BY <2>1, <2>2, <2>3, <2>4, <2>5, <2>6, <2>7 DEF TypeOK
<1>4. \A c \in Clients : ~Queued(c) /\ ~Served(c)
  BY <1>1 DEF Init, Queued, Served
<1>5. LoopOK /\ QueueOnce
  BY <1>1, <1>4 DEF Init, LoopOK, QueueOnce
<1>6. ASSUME NEW c \in Clients
      PROVE  ClientOK(c)
  <2>1. got[c] = <<>> /\ down[c] = <<>> /\ up[c] = <<>> /\ Received(c) = 0
        /\ sent[c].bytes = 0 /\ shut[c] = "no" /\ at[c] = "start"
    BY <1>1 DEF Init, Received
  <2>2. QED
    BY <1>1, <1>2, <1>4, <2>1 DEF ClientOK, FreshOK, Fresh, Streams, WholeOK
<1>7. QED  BY <1>3, <1>5, <1>6 DEF IInv

LEMMA NextIInv == IInv /\ [Next]_vars => IInv'
<1> SUFFICES ASSUME IInv, [Next]_vars
             PROVE  IInv'
  OBVIOUS
<1>1. term \in BOOLEAN
  BY DEF IInv, TypeOK
<1>2. CASE UNCHANGED vars
  BY <1>1, <1>2, LoopTurns DEF vars
<1>3. ASSUME NEW c \in Clients, Client(c) \/ ClientDies(c) \/ Sendto(c)
      PROVE  IInv'
  <2>1. CASE Connect(c)
    <3>1. CASE at' = [at EXCEPT ![c] = "failed"] /\ UNCHANGED waiting
      BY <1>1, <2>1, <3>1, ClientStops DEF Connect
    <3>2. CASE waiting' = Append(waiting, c) /\ at' = [at EXCEPT ![c] = "write"]
      BY <2>1, <3>2, ClientJoins DEF Connect
    <3>3. QED  BY <2>1, <3>1, <3>2 DEF Connect
  <2>2. CASE ClientDies(c)
    BY <1>1, <2>2, ClientStops DEF ClientDies
  <2>3. CASE Sendto(c)
    BY <2>3, ClientJoins DEF Sendto
  <2>4. QED  BY <1>3, <2>1, <2>2, <2>3, ClientWriteKeeps, ClientReadKeeps DEF Client
<1>4. CASE Check
  <2>1. CASE End("done")
    BY <1>1, <1>4, <2>1, EndKeeps DEF Check, IInv, LoopOK
  <2>2. CASE pc' = "poll" /\ UNCHANGED <<cur, shut, waiting>>
    BY <1>1, <1>4, <2>2, LoopTurns DEF Check
  <2>3. QED  BY <1>4, <2>1, <2>2 DEF Check
<1>5. CASE Poll
  <2>1. mode \in {"tcp", "udp"}
    BY DEF IInv, TypeOK
  <2>2. QED  BY <1>1, <1>5, <2>1, LoopTurns DEF Poll
<1>6. CASE Signal
  <2>1. /\ pc # "dead" /\ term' \in BOOLEAN
        /\ UNCHANGED <<mode, len, clientVars, up, down, data, writed>>
    BY <1>1, <1>6 DEF Signal, Up
  <2>2. CASE End("dead")
    BY <2>1, <2>2, EndKeeps
  <2>3. CASE UNCHANGED <<cur, shut, waiting>>
             /\ (UNCHANGED pc \/ (pc = "poll" /\ pc' = "check"))
    BY <2>1, <2>3, LoopTurns
  <2>4. QED  BY <1>6, <2>2, <2>3 DEF Signal
<1>7. CASE Server
  BY <1>4, <1>5, <1>7, AcceptKeeps, ReadKeeps, WriteKeeps, CloseKeeps, RecvfromKeeps
     DEF Server
<1>8. QED  BY <1>2, <1>3, <1>6, <1>7 DEF Next

THEOREM ServeInvariance == Spec => []IInv
  BY InitIInv, NextIInv, PTL DEF Spec

(* cclsys.cc:606-661: for any number of clients and any lengths, a client  *)
(* gets back the beginning of what it wrote, in order, and all of it when  *)
(* no ::write was cut short and the server did not die.                    *)
THEOREM ServeEchoExact == Spec => []EchoExact
<1>1. ASSUME IInv, NEW c \in Clients
      PROVE  /\ IsPrefix(got[c], Message(c))
             /\ (mode = "tcp" /\ at[c] = "done" /\ sent[c].whole /\ pc # "dead")
                  => got[c] = Message(c)
  <2> DEFINE g == Len(got[c])
  <2>1. /\ got[c] \in Seq(Nat) /\ g \in Nat /\ Len(down[c]) \in Nat
        /\ got[c] = Ramp(0, g) /\ g + Len(down[c]) <= len[c] /\ WholeOK(c)
    BY <1>1 DEF IInv, TypeOK, ClientOK, Streams, Received
  <2>2. Message(c) = Ramp(0, len[c]) /\ len[c] \in Nat
    BY <1>1, MessageIsRamp DEF IInv
  <2> HIDE DEF g
  <2>3. g <= len[c] /\ Len(Ramp(0, len[c])) = len[c]
    <3>1. 0 \in Nat /\ 0 <= len[c] /\ len[c] - 0 = len[c]
      BY <2>2
    <3>2. Len(Ramp(0, len[c])) = len[c] - 0
      BY <2>2, <3>1, RampFacts
    <3>3. g <= len[c]
      BY <2>1, <2>2
    <3>4. QED  BY <3>1, <3>2, <3>3
  <2>4. SubSeq(Ramp(0, len[c]), 0 + 1, g) = Ramp(0, g)
    <3>1. 0 \in Nat /\ 0 <= g
      BY <2>1
    <3>2. QED  BY <2>1, <2>2, <2>3, <3>1, MessagePart
  <2>5. SubSeq(got[c], 1, g) = got[c]
    BY <2>1, SubSeqFull DEF g
  <2>6. IsPrefix(got[c], Message(c))
    BY <2>1, <2>2, <2>3, <2>4, <2>5 DEF IsPrefix, g
  <2>7. ASSUME mode = "tcp", at[c] = "done", sent[c].whole, pc # "dead"
        PROVE  got[c] = Message(c)
    <3>1. Received(c) = len[c] /\ Len(down[c]) = 0
      BY <2>1, <2>7 DEF WholeOK, Undisturbed
    <3>2. g = len[c]
      BY <2>1, <3>1 DEF Received, g
    <3>3. QED  BY <2>1, <2>2, <3>2
  <2>8. QED  BY <2>6, <2>7
<1>2. IInv => EchoExact
  BY <1>1 DEF EchoExact
<1>3. QED  BY <1>2, ServeInvariance, PTL
=============================================================================
