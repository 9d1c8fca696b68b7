---------------------------- MODULE CclWebsProof ----------------------------
(***************************************************************************)
(* Proofs about CclWebs, and that it implements CclWebsDelegate, for any   *)
(* websockets, objects, descriptors and fragmentations.                    *)
(***************************************************************************)
EXTENDS CclWebs, TLAPS

Object == [conn : Conns, buf : Seq(Chunks)]

Ranges == /\ slot \in [Conns -> Objs \cup {Null}]
          /\ heap \in [Objs -> Object \cup {Null}]
          /\ view \in [Conns -> {"up", "down"}]
          /\ got \in [Conns -> Seq(Seq(Chunks))]
          /\ phase \in [Conns -> {"none", "http", "open", "closing"}]
          /\ exc \in Conns \cup {Null} /\ fault \in Conns \cup {Null}
          /\ leaked \subseteq Objs /\ untold \subseteq Conns /\ missed \subseteq Conns

(* The websocket c and its object know each other.                         *)
Linked(c) == /\ slot[c] # Null /\ heap[slot[c]] # Null
             /\ heap[slot[c]].conn = c /\ slot[c] \notin leaked

(* What a websocket's pointer is worth in each phase; a pointer to an      *)
(* object that is gone stays only until the end of the call that waits     *)
(* with an exception, during which nothing is allocated.                   *)
Pointers ==
  \A c \in Conns :
    /\ phase[c] = "http" => slot[c] = Null
    /\ phase[c] = "open" => Linked(c) \/ (slot[c] = Null /\ c \in missed)
    /\ phase[c] = "closing" => exc # Null /\ slot[c] # Null /\ heap[slot[c]] = Null

Kept == \A o \in Objs : heap[o] # Null /\ o \notin leaked =>
          phase[heap[o].conn] = "open" /\ slot[heap[o].conn] = o

Leaked == \A o \in leaked : heap[o] # Null

Links == Pointers /\ Kept /\ Leaked

-----------------------------------------------------------------------------
(* protocol_func, called for an event that suits the phase.                *)
Suits(c, reason) ==
  \/ reason = "established" /\ phase[c] = "http"
  \/ reason \in {"receive", "writeable"} /\ phase[c] = "open"
  \/ reason = "closed" /\ phase[c] \in {"open", "closing"}

Event(c, reason, data, left, thrown) ==
  /\ Suits(c, reason)
  /\ reason = "established" => left = 0
  /\ ProtocolFunc(c, reason, data, left, thrown)
  /\ phase' = [phase EXCEPT ![c] =
                 IF reason = "closed" THEN "none"
                 ELSE IF Returns1(left, thrown) THEN "closing" ELSE "open"]

(* The events dropped while an exception waits.                            *)
LEMMA DroppedKeeps ==
  ASSUME WebsAssumption, NullAssumption, Ranges, Links, ViewAgrees, fault = Null,
         NEW c \in Conns, NEW reason, NEW data \in Seq(Chunks), NEW left \in Nat,
         NEW thrown \in BOOLEAN, Event(c, reason, data, left, thrown), exc # Null
  PROVE  Ranges' /\ Links' /\ ViewAgrees' /\ fault' = Null
<1>1. /\ untold' = IF reason = "closed" /\ Valid(c) THEN untold \cup {c} ELSE untold
      /\ missed' = IF reason = "writeable" THEN missed ELSE missed \cup {c}
      /\ leaked' = IF reason = "closed" /\ Valid(c) THEN leaked \cup {slot[c]} ELSE leaked
      /\ UNCHANGED <<exc, slot, heap, view, got, fault>>
  BY DEF Event, ProtocolFunc, Pending
<1>2. /\ phase'[c] = IF reason = "closed" THEN "none" ELSE "open"
      /\ \A d \in Conns \ {c} : phase'[d] = phase[d]
      /\ phase' \in [Conns -> {"none", "http", "open", "closing"}]
  BY DEF Event, Returns1, Pending, Ranges
<1>3. Ranges'
  BY <1>1, <1>2 DEF Ranges, Valid
<1>4. \A d \in Conns \ {c} : Valid(c) /\ reason = "closed" => slot[d] # slot[c] \/ ~Linked(d)
  BY DEF Event, Suits, Links, Pointers, Linked, Valid
<1>5. Pointers'
  BY <1>1, <1>2, <1>4 DEF Links, Pointers, Linked, Event, Suits
<1>6. Kept'
  BY <1>1, <1>2 DEF Links, Kept, Valid, Event, Suits, Ranges
<1>7. Leaked'
  BY <1>1 DEF Links, Leaked, Valid
<1>8. ViewAgrees'
  <2>1. CASE reason = "closed" /\ Valid(c)
    <3>1. Linked(c) /\ slot[c] \in Objs
      BY <2>1 DEF Links, Pointers, Valid, Event, Suits, Ranges
    <3>2. view[c] = "up"
      BY <3>1 DEF ViewAgrees, Linked
    <3>3. untold' = untold \cup {c} /\ leaked' = leaked \cup {slot[c]}
      BY <1>1, <2>1
    <3>4. ASSUME NEW d \in Conns, d # c
          PROVE  view[d] = "up" <=>
                   \/ d \in untold'
                   \/ \E o \in Objs \ leaked' : heap[o] # Null /\ heap[o].conn = d
      BY <3>1, <3>3, <3>4 DEF ViewAgrees, Linked
    <3>5. QED  BY <1>1, <3>2, <3>3, <3>4 DEF ViewAgrees
  <2>2. CASE ~(reason = "closed" /\ Valid(c))
    BY <1>1, <2>2 DEF ViewAgrees
  <2>3. QED  BY <2>1, <2>2
<1>9. QED  BY <1>1, <1>3, <1>5, <1>6, <1>7, <1>8 DEF Links
(* An event that follows a bad pointer: only that of a websocket whose     *)
(* ESTABLISHED event was dropped.                                          *)
LEMMA FaultKeeps ==
  ASSUME WebsAssumption, Ranges, Links, ViewAgrees, fault = Null,
         NEW c \in Conns, NEW reason, NEW data, NEW left, NEW thrown,
         Event(c, reason, data, left, thrown),
         exc = Null, reason # "established", ~Valid(c)
  PROVE  Ranges' /\ ViewAgrees' /\ fault' = c /\ NoFault'
<1>1. fault' = c /\ UNCHANGED <<exc, slot, heap, view, got, untold, missed, leaked>>
  BY DEF Event, ProtocolFunc, Pending, ccvars, history
<1>2. Ranges'
  BY <1>1 DEF Ranges, Event
<1>3. phase[c] = "open" /\ slot[c] = Null /\ c \in missed
  BY DEF Event, Suits, Links, Pointers, Linked, Valid
<1>4. QED  BY <1>1, <1>2, <1>3 DEF NoFault, ViewAgrees

(* The object o of the callback is new or that of the websocket.           *)
Given(c, reason, o) ==
  /\ IF reason = "established" THEN heap[o] = Null ELSE Linked(c) /\ o = slot[c]
  /\ slot' = [slot EXCEPT ![c] = o]

Moves(c, reason, left, thrown) ==
  phase' = [phase EXCEPT ![c] = IF reason = "closed" THEN "none"
                                ELSE IF left = 0 /\ thrown THEN "closing" ELSE "open"]

(* What the callback with an object does: the object o is new or that of   *)
(* the websocket, and there is none of it afterwards when it is released.  *)
LEMMA DispatchKeeps ==
  ASSUME WebsAssumption, NullAssumption, Ranges, Links, ViewAgrees, fault = Null,
         exc = Null, fault' = Null,
         NEW c \in Conns, NEW reason \in {"established", "receive", "writeable", "closed"},
         NEW data \in Seq(Chunks), NEW left \in Nat, NEW thrown \in BOOLEAN,
         NEW buf \in Seq(Chunks), NEW o \in Objs,
         Suits(c, reason), reason = "established" => left = 0,
         Given(c, reason, o), Moves(c, reason, left, thrown),
         Dispatch(c, o, buf, reason, data, left, thrown),
         UNCHANGED <<missed, leaked>>
  PROVE  Ranges' /\ Links' /\ ViewAgrees'
<1> USE DEF Given, Moves
<1> DEFINE rel == Released(reason, left, thrown)
           all == Buffered(buf, data, left)
           x == [conn |-> c, buf |-> Emptied(all, left)]
           msg == IF all # <<>> THEN all ELSE data
<1>1. all \in Seq(Chunks) /\ msg \in Seq(Chunks) /\ Emptied(all, left) \in Seq(Chunks)
  BY DEF Buffered, Emptied
<1>2. x \in Object /\ x # Null /\ x.conn = c
  BY <1>1 DEF Object, NullAssumption
<1>3. /\ heap' = [heap EXCEPT ![o] = IF rel THEN Null ELSE x]
      /\ exc' = IF left = 0 /\ thrown THEN c ELSE exc
      /\ IF left = 0 THEN Told(c, reason, thrown, msg)
         ELSE /\ untold' = IF reason = "closed" THEN untold \cup {c} ELSE untold
              /\ UNCHANGED <<view, got>>
  BY DEF Dispatch
<1> HIDE DEF x, all, msg
<1>4. /\ heap'[o] = IF rel THEN Null ELSE x
      /\ \A p \in Objs \ {o} : heap'[p] = heap[p]
      /\ slot'[c] = o /\ \A d \in Conns \ {c} : slot'[d] = slot[d]
      /\ phase'[c] = IF reason = "closed" THEN "none" ELSE IF left = 0 /\ thrown THEN "closing" ELSE "open"
      /\ \A d \in Conns \ {c} : phase'[d] = phase[d]
  BY <1>3 DEF Ranges
<1>5. Ranges'
  <2>1. slot' \in [Conns -> Objs \cup {Null}] /\ heap' \in [Objs -> Object \cup {Null}]
    BY <1>2, <1>3 DEF Ranges
  <2>2. phase' \in [Conns -> {"none", "http", "open", "closing"}]
    BY DEF Ranges
  <2>3. view' \in [Conns -> {"up", "down"}] /\ untold' \subseteq Conns
    BY <1>3 DEF Ranges, Told
  <2>4. got' \in [Conns -> Seq(Seq(Chunks))]
    <3>1. <<>> \in Seq(Seq(Chunks)) /\ Append(got[c], msg) \in Seq(Seq(Chunks))
      BY <1>1 DEF Ranges
    <3> DEFINE g == IF reason = "established" /\ ~thrown THEN <<>>
                    ELSE IF reason = "receive" /\ ~thrown THEN Append(got[c], msg)
                    ELSE got[c]
    <3>2. g \in Seq(Seq(Chunks))
      BY <3>1 DEF Ranges
    <3>3. got' = got \/ got' = [got EXCEPT ![c] = g]
      BY <1>3 DEF Told, Ranges
    <3> HIDE DEF g
    <3>4. QED  BY <3>2, <3>3 DEF Ranges
  <2>5. QED  BY <1>3, <2>1, <2>2, <2>3, <2>4 DEF Ranges
<1>6. o # Null /\ o \notin leaked /\ (heap[o] # Null => heap[o].conn = c)
  BY DEF WebsAssumption, Links, Leaked, Linked
<1>7. \A d \in Conns \ {c} : Linked(d) => slot[d] # o
  BY <1>6 DEF Linked
<1>8. \A d \in Conns : phase[d] # "closing"
  BY DEF Links, Pointers
<1>9. Pointers'
  BY <1>2, <1>3, <1>4, <1>6, <1>7, <1>8, WebsAssumption
     DEF Links, Pointers, Linked, Released, WebsAssumption
<1>10. \A p \in Objs : heap[p] # Null /\ p \notin leaked /\ heap[p].conn = c => p = o
  BY DEF Links, Kept, Suits
<1>11. Kept'
  <2> SUFFICES ASSUME NEW p \in Objs, heap'[p] # Null, p \notin leaked
               PROVE  phase'[heap'[p].conn] = "open" /\ slot'[heap'[p].conn] = p
    BY DEF Kept
  <2>1. CASE p = o
    BY <1>2, <1>4, <2>1 DEF Released
  <2>2. CASE p # o
    <3>1. heap'[p] = heap[p] /\ heap[p].conn \in Conns
      BY <1>4, <2>2 DEF Ranges, Object
    <3>2. heap[p].conn # c
      BY <1>10, <2>2, <3>1
    <3>3. QED  BY <1>4, <3>1, <3>2 DEF Links, Kept
  <2>3. QED  BY <2>1, <2>2
<1>12. Leaked'
  BY <1>4, <1>6 DEF Links, Leaked, Ranges
<1>13. ViewAgrees'
  <2> SUFFICES ASSUME NEW d \in Conns
               PROVE  view'[d] = "up" <=>
                        \/ d \in untold'
                        \/ \E p \in Objs \ leaked : heap'[p] # Null /\ heap'[p].conn = d
    BY DEF ViewAgrees
  <2>1. CASE d # c
    <3>1. view'[d] = view[d] /\ (d \in untold' <=> d \in untold)
      BY <1>3, <2>1 DEF Told, Ranges
    <3>2. \A p \in Objs : heap'[p] # Null /\ heap'[p].conn = d <=>
                           heap[p] # Null /\ heap[p].conn = d
      BY <1>2, <1>4, <1>6, <2>1
    <3>3. QED  BY <3>1, <3>2 DEF ViewAgrees
  <2>2. CASE d = c
    <3>1. (\E p \in Objs \ leaked : heap'[p] # Null /\ heap'[p].conn = c) <=> ~rel
      BY <1>2, <1>4, <1>6, <1>10
    <3>2. CASE left = 0
      BY <1>3, <2>2, <3>1, <3>2 DEF Told, Ranges, Released
    <3>3. CASE left # 0
      <4>1. reason # "established" /\ Linked(c) /\ slot[c] \in Objs
        BY <3>3 DEF Ranges, Linked
      <4>2. view[c] = "up"
        BY <4>1 DEF ViewAgrees, Linked
      <4>3. QED  BY <1>3, <2>2, <3>1, <3>3, <4>2 DEF Released
    <3>4. QED  BY <3>2, <3>3
  <2>3. QED  BY <2>1, <2>2
<1>14. QED  BY <1>5, <1>9, <1>11, <1>12, <1>13 DEF Links
Steps(c, reason, data, left, thrown) ==
  /\ reason \in {"established", "receive", "writeable", "closed"}
  /\ data \in Seq(Chunks) /\ left \in Nat /\ thrown \in BOOLEAN
  /\ Event(c, reason, data, left, thrown)

LEMMA EventKeeps ==
  ASSUME WebsAssumption, NullAssumption, Ranges, Links, ViewAgrees, fault = Null,
         NEW c \in Conns, NEW reason, NEW data, NEW left, NEW thrown,
         Steps(c, reason, data, left, thrown)
  PROVE  Ranges' /\ ViewAgrees' /\ NoFault' /\ (fault' = Null => Links')
<1>1. CASE exc # Null
  BY <1>1, DroppedKeeps DEF Steps, NoFault
<1>2. CASE exc = Null /\ reason # "established" /\ ~Valid(c)
  BY <1>2, FaultKeeps DEF Steps, WebsAssumption
<1>3. CASE exc = Null /\ reason # "established" /\ Valid(c)
  <2>1. Linked(c) /\ slot[c] \in Objs /\ heap[slot[c]].buf \in Seq(Chunks)
    BY <1>3 DEF Steps, Event, Suits, Links, Pointers, Valid, Ranges, Object
  <2>2. /\ Dispatch(c, slot[c], heap[slot[c]].buf, reason, data, left, thrown)
        /\ UNCHANGED <<slot, fault, missed, leaked>>
    BY <1>3 DEF Steps, Event, ProtocolFunc, Pending, history
  <2>3. slot' = [slot EXCEPT ![c] = slot[c]]
    BY <2>2 DEF Ranges
  <2>4. PICK o \in Objs, buf \in Seq(Chunks) : o = slot[c] /\ buf = heap[slot[c]].buf
    BY <2>1
  <2>5. Dispatch(c, o, buf, reason, data, left, thrown)
    BY <2>2, <2>4 DEF Dispatch
  <2>6. Ranges' /\ Links' /\ ViewAgrees'
    <3>1. Given(c, reason, o)
      BY <1>3, <2>1, <2>3, <2>4 DEF Given
    <3>2. Suits(c, reason) /\ Moves(c, reason, left, thrown)
      BY <1>3 DEF Steps, Event, Returns1, Pending, Moves
    <3>3. /\ reason \in {"receive", "writeable", "closed"}
          /\ data \in Seq(Chunks) /\ left \in Nat /\ thrown \in BOOLEAN
          /\ exc = Null /\ fault' = Null
      BY <1>3, <2>2 DEF Steps
    <3>4. QED
      BY <2>2, <2>5, <3>1, <3>2, <3>3, DispatchKeeps
  <2>7. QED  BY <2>2, <2>6 DEF NoFault
<1>4. CASE exc = Null /\ reason = "established"
  <2>1. PICK o \in Objs : /\ heap[o] = Null /\ slot' = [slot EXCEPT ![c] = o]
                          /\ Dispatch(c, o, <<>>, reason, data, left, thrown)
    BY <1>4 DEF Steps, Event, ProtocolFunc, Pending
  <2>2. UNCHANGED <<fault, missed, leaked>> /\ <<>> \in Seq(Chunks)
    BY <1>4 DEF Steps, Event, ProtocolFunc, Pending, history
  <2>3. Given(c, reason, o) /\ Moves(c, reason, left, thrown)
    BY <1>4, <2>1 DEF Given, Steps, Event, Returns1, Pending, Moves
  <2>4. Ranges' /\ Links' /\ ViewAgrees'
    BY <1>4, <2>1, <2>2, <2>3, DispatchKeeps DEF Steps, Event
  <2>5. QED  BY <2>2, <2>4 DEF NoFault
<1>5. QED  BY <1>1, <1>2, <1>3, <1>4
-----------------------------------------------------------------------------
(* The descriptors: who is not there has none and wants nothing.           *)
Descriptors ==
  /\ fd \in [Conns -> Fds \cup {Null}] /\ want \in [Conns -> BOOLEAN]
  /\ \A c \in Conns : phase[c] = "none" <=> fd[c] = Null
  /\ \A c, d \in Conns : fd[c] # Null /\ fd[c] = fd[d] => c = d
  /\ \A c \in Conns : phase[c] \in {"none", "http"} => want[c] = FALSE

Poll(c) == [fd |-> fd[c], out |-> want[c]]

LEMMA PollGrows ==
  ASSUME WebsAssumption, Ranges, Descriptors, PollSetExact, NEW c \in Conns, phase[c] = "none",
         NEW f \in Fds, \A d \in Conns : fd[d] # f,
         fd' = [fd EXCEPT ![c] = f], pfds' = AddPollFd(pfds, f),
         phase' = [phase EXCEPT ![c] = "http"], want' = want
  PROVE  Descriptors' /\ PollSetExact'
<1>1. f # Null /\ \A d \in Conns : /\ fd'[d] = IF d = c THEN f ELSE fd[d]
                                   /\ phase'[d] = IF d = c THEN "http" ELSE phase[d]
  BY DEF Descriptors, WebsAssumption, Ranges
<1>2. Descriptors'
  BY <1>1 DEF Descriptors
<1>3. \A p \in pfds : p.fd # f
  BY DEF PollSetExact
<1>4. pfds' = pfds \cup {[fd |-> f, out |-> FALSE]}
  BY <1>3 DEF AddPollFd, HasFd
<1>5. \A d \in Conns : Poll(d)' = IF d = c THEN [fd |-> f, out |-> FALSE] ELSE Poll(d)
  BY <1>1 DEF Poll, Descriptors
<1>6. \A p : p \in pfds <=> \E d \in Conns : phase[d] # "none" /\ p = Poll(d)
  BY DEF PollSetExact, Poll
<1>7. \A p : p \in pfds' <=> \E d \in Conns : phase'[d] # "none" /\ p = Poll(d)'
  <2>1. phase'[c] # "none" /\ Poll(c)' = [fd |-> f, out |-> FALSE]
    BY <1>1, <1>5
  <2>2. \A d \in Conns \ {c} : Poll(d)' = Poll(d) /\ phase'[d] = phase[d]
    BY <1>1, <1>5
  <2>3. QED  BY <1>4, <1>6, <2>1, <2>2
<1>8. PollSetExact'
  BY <1>7 DEF PollSetExact, Poll
<1>9. QED  BY <1>2, <1>8

LEMMA PollShrinks ==
  ASSUME WebsAssumption, Ranges, Descriptors, PollSetExact, NEW c \in Conns, phase[c] # "none",
         fd' = [fd EXCEPT ![c] = Null], pfds' = DelPollFd(pfds, fd[c]),
         phase' = [phase EXCEPT ![c] = "none"], want' = [want EXCEPT ![c] = FALSE]
  PROVE  Descriptors' /\ PollSetExact'
<1>1. \A d \in Conns : /\ fd'[d] = IF d = c THEN Null ELSE fd[d]
                       /\ phase'[d] = IF d = c THEN "none" ELSE phase[d]
                       /\ want'[d] = IF d = c THEN FALSE ELSE want[d]
  BY DEF Descriptors, Ranges
<1>2. Descriptors'
  BY <1>1 DEF Descriptors
<1>3. pfds' = {p \in pfds : p.fd # fd[c]}
  BY DEF DelPollFd
<1>4. \A d \in Conns : Poll(d).fd = fd[d] /\ (d # c => Poll(d)' = Poll(d))
  BY <1>1 DEF Poll
<1>5. \A p : p \in pfds <=> \E d \in Conns : phase[d] # "none" /\ p = Poll(d)
  BY DEF PollSetExact, Poll
<1>6. \A d \in Conns : d # c /\ phase[d] # "none" => fd[d] # fd[c]
  BY DEF Descriptors
<1>7. \A p : p \in pfds' <=> \E d \in Conns : phase'[d] # "none" /\ p = Poll(d)'
  <2>1. phase'[c] = "none"
    BY <1>1
  <2>2. \A d \in Conns \ {c} : /\ Poll(d)' = Poll(d) /\ phase'[d] = phase[d]
                               /\ phase[d] # "none" => Poll(d).fd # fd[c]
    BY <1>1, <1>4, <1>6
  <2>3. Poll(c).fd = fd[c]
    BY <1>4
  <2>4. QED  BY <1>3, <1>5, <2>1, <2>2, <2>3
<1>8. PollSetExact'
  BY <1>7 DEF PollSetExact, Poll
<1>9. QED  BY <1>2, <1>8

LEMMA PollChanges ==
  ASSUME WebsAssumption, Ranges, Descriptors, PollSetExact, NEW c \in Conns, phase[c] # "none",
         NEW asks \in BOOLEAN, Request(c, asks, pfds), fd' = fd,
         NEW st \in {"open", "closing"}, phase' = [phase EXCEPT ![c] = st]
  PROVE  Descriptors' /\ PollSetExact'
<1>1. /\ want' = [want EXCEPT ![c] = asks] /\ pfds' = ChangeMode(pfds, fd[c], asks)
      /\ \A d \in Conns : /\ phase'[d] = IF d = c THEN st ELSE phase[d]
                          /\ want'[d] = IF d = c THEN asks ELSE want[d]
  BY DEF Request, Ranges, Descriptors
<1>2. Descriptors'
  BY <1>1 DEF Descriptors
<1>3. pfds = {Poll(d) : d \in {e \in Conns : phase[e] # "none"}}
  BY DEF PollSetExact, Poll
<1>4. \A d \in Conns : phase[d] # "none" =>
        Poll(d)' = IF Poll(d).fd = fd[c] THEN [Poll(d) EXCEPT !.out = asks] ELSE Poll(d)
  BY <1>1 DEF Poll, Descriptors
<1>5. pfds' = {IF p.fd = fd[c] THEN [p EXCEPT !.out = asks] ELSE p : p \in pfds}
  BY <1>1 DEF ChangeMode
<1>6. pfds' = {Poll(d)' : d \in {e \in Conns : phase'[e] # "none"}}
  <2> DEFINE New(p) == IF p.fd = fd[c] THEN [p EXCEPT !.out = asks] ELSE p
             On == {e \in Conns : phase[e] # "none"}
  <2>1. pfds' = {New(p) : p \in pfds} /\ On = {e \in Conns : phase'[e] # "none"}
    BY <1>1, <1>5
  <2>2. \A d \in On : Poll(d)' = New(Poll(d))
    BY <1>4
  <2> HIDE DEF New
  <2>3. QED  BY <1>3, <2>1, <2>2
<1>7. QED  BY <1>2, <1>6, <1>1 DEF PollSetExact, Poll
-----------------------------------------------------------------------------
(* Where the program is: nothing waits to be closed outside a call, and a  *)
(* bad pointer was followed inside one.                                    *)
Turn == /\ serving \in {"out", "in", "destroy", "dead"}
        /\ serving = "out" => \A c \in Conns : phase[c] # "closing"
        /\ fault # Null => serving \in {"in", "destroy"}

Callbacks == Ranges /\ ViewAgrees /\ NoFault /\ (fault = Null => Links)

IInv == /\ Callbacks /\ Descriptors /\ PollSetExact /\ Turn
        /\ rest \in [Conns -> Nat]

LEMMA InitHolds ==
  ASSUME WebsAssumption, Init
  PROVE  IInv
<1>1. Ranges
  BY DEF Init, Ranges
<1>2. ViewAgrees /\ NoFault /\ Links
  BY DEF Init, ViewAgrees, NoFault, Links, Pointers, Kept, Leaked
<1>3. Descriptors /\ PollSetExact /\ Turn /\ rest \in [Conns -> Nat]
  BY DEF Init, Descriptors, PollSetExact, Turn
<1>4. QED  BY <1>1, <1>2, <1>3 DEF IInv, Callbacks

(* An event in a service call, in which nothing but the event changes.     *)
LEMMA EventStep ==
  ASSUME WebsAssumption, NullAssumption, IInv, NEW c \in Conns, InCall(c),
         NEW reason, NEW data, NEW left, NEW thrown,
         Steps(c, reason, data, left, thrown), serving' = serving
  PROVE  Callbacks' /\ Turn'
<1>1. fault = Null /\ serving \in {"in", "destroy"} /\ Ranges /\ Links /\ ViewAgrees
  BY DEF InCall, IInv, Callbacks
<1>2. Callbacks'
  BY <1>1, EventKeeps DEF Callbacks
<1>3. QED  BY <1>1, <1>2 DEF Turn

LEMMA AcceptHolds ==
  ASSUME WebsAssumption, NullAssumption, IInv, NEW c \in Conns, Accept(c)
  PROVE  IInv'
<1>1. PICK f \in Fds : /\ \A d \in Conns : fd[d] # f
                       /\ fd' = [fd EXCEPT ![c] = f] /\ pfds' = AddPollFd(pfds, f)
  BY DEF Accept
<1>2. /\ fault = Null /\ phase[c] = "none" /\ serving = "in"
      /\ phase' = [phase EXCEPT ![c] = "http"] /\ slot' = [slot EXCEPT ![c] = Null]
      /\ missed' = missed \ {c}
      /\ UNCHANGED <<serving, exc, fault, rest, want, heap, view, got, untold, leaked>>
  BY DEF Accept, InCall
<1>3. Descriptors' /\ PollSetExact'
  BY <1>1, <1>2, PollGrows DEF IInv, Callbacks
<1>4. Ranges /\ Links /\ ViewAgrees
  BY <1>2 DEF IInv, Callbacks
<1>5. /\ slot'[c] = Null /\ \A d \in Conns \ {c} : slot'[d] = slot[d]
      /\ phase'[c] = "http" /\ \A d \in Conns \ {c} : phase'[d] = phase[d]
  BY <1>2, <1>4 DEF Ranges
<1>6. Ranges' /\ ViewAgrees'
  BY <1>2, <1>4 DEF Ranges, ViewAgrees
<1>7. Pointers' /\ Leaked'
  BY <1>2, <1>4, <1>5 DEF Links, Pointers, Linked, Leaked
<1>8. Kept'
  BY <1>2, <1>4, <1>5 DEF Links, Kept, Ranges, Object
<1>9. Turn' /\ NoFault' /\ rest' \in [Conns -> Nat]
  BY <1>2 DEF Turn, NoFault, IInv
<1>10. QED  BY <1>3, <1>6, <1>7, <1>8, <1>9 DEF IInv, Callbacks, Links

LEMMA EstablishHolds ==
  ASSUME WebsAssumption, NullAssumption, IInv, NEW c \in Conns, Establish(c)
  PROVE  IInv'
<1>1. PICK thrown \in BOOLEAN :
        /\ ProtocolFunc(c, "established", <<>>, 0, thrown)
        /\ Request(c, ~Pending, pfds)
        /\ phase' = [phase EXCEPT ![c] = IF Returns1(0, thrown) THEN "closing" ELSE "open"]
  BY DEF Establish
<1>2. /\ InCall(c) /\ phase[c] = "http"
      /\ UNCHANGED <<through, serving, fd, frames, given, rest>>
  BY DEF Establish
<1>3. Steps(c, "established", <<>>, 0, thrown)
  BY <1>1, <1>2 DEF Steps, Event, Suits
<1>4. Callbacks' /\ Turn'
  BY <1>2, <1>3, EventStep
<1>5. Descriptors' /\ PollSetExact'
  <2>1. PICK st \in {"open", "closing"} : phase' = [phase EXCEPT ![c] = st]
    BY <1>1
  <2>2. PICK asks \in BOOLEAN : Request(c, asks, pfds)
    BY <1>1 DEF Pending
  <2>3. QED  BY <1>2, <2>1, <2>2, PollChanges DEF IInv, Callbacks
<1>6. QED  BY <1>2, <1>4, <1>5 DEF IInv

LEMMA ReceiveHolds ==
  ASSUME WebsAssumption, NullAssumption, IInv, NEW c \in Conns, Receive(c)
  PROVE  IInv'
<1>1. PICK f \in 1 .. MaxFrames, k, n \in 1 .. MaxChunks, thrown \in BOOLEAN :
        /\ \/ /\ rest[c] = 0 /\ f = frames[c] + 1 /\ k = 1
           \/ /\ rest[c] > 0 /\ f = frames[c] /\ k = given[c] + 1 /\ n = rest[c]
        /\ k + n - 1 <= MaxChunks
        /\ frames' = [frames EXCEPT ![c] = f]
        /\ given' = [given EXCEPT ![c] = IF n = 1 THEN 0 ELSE k]
        /\ rest' = [rest EXCEPT ![c] = n - 1]
        /\ ProtocolFunc(c, "receive", <<<<f, n>>>>, n - 1, thrown)
        /\ Request(c, want[c] \/ (~Pending /\ n = 1), pfds)
        /\ phase' = [phase EXCEPT ![c] = IF Returns1(n - 1, thrown) THEN "closing" ELSE "open"]
  BY DEF Receive
<1>2. /\ InCall(c) /\ phase[c] = "open"
      /\ UNCHANGED <<through, serving, fd>>
  BY DEF Receive
<1>3. Steps(c, "receive", <<<<f, n>>>>, n - 1, thrown)
  <2>1. <<<<f, n>>>> \in Seq(Chunks) /\ n - 1 \in Nat
    BY DEF Chunks, WebsAssumption
  <2>2. QED  BY <1>1, <1>2, <2>1 DEF Steps, Event, Suits
<1>4. Callbacks' /\ Turn'
  BY <1>2, <1>3, EventStep
<1>5. Descriptors' /\ PollSetExact'
  <2>1. PICK st \in {"open", "closing"} : phase' = [phase EXCEPT ![c] = st]
    BY <1>1
  <2>2. PICK asks \in BOOLEAN : Request(c, asks, pfds)
    BY <1>1 DEF Pending, IInv, Descriptors
  <2>3. QED  BY <1>2, <2>1, <2>2, PollChanges DEF IInv, Callbacks
<1>6. rest' \in [Conns -> Nat]
  BY <1>1 DEF IInv, WebsAssumption
<1>7. QED  BY <1>4, <1>5, <1>6 DEF IInv

LEMMA WriteableHolds ==
  ASSUME WebsAssumption, NullAssumption, IInv, NEW c \in Conns, Writeable(c)
  PROVE  IInv'
<1>1. PICK thrown \in BOOLEAN :
        /\ ProtocolFunc(c, "writeable", <<>>, rest[c], thrown)
        /\ phase' = [phase EXCEPT ![c] = IF Returns1(rest[c], thrown) THEN "closing" ELSE "open"]
  BY DEF Writeable
<1>2. /\ InCall(c) /\ phase[c] = "open" /\ Request(c, FALSE, pfds)
      /\ UNCHANGED <<through, serving, fd, frames, given, rest>>
  BY DEF Writeable
<1>3. Steps(c, "writeable", <<>>, rest[c], thrown)
  BY <1>1, <1>2 DEF Steps, Event, Suits, IInv
<1>4. Callbacks' /\ Turn'
  BY <1>2, <1>3, EventStep
<1>5. Descriptors' /\ PollSetExact'
  <2>1. PICK st \in {"open", "closing"} : phase' = [phase EXCEPT ![c] = st]
    BY <1>1
  <2>2. QED  BY <1>2, <2>1, PollChanges DEF IInv, Callbacks
<1>6. QED  BY <1>2, <1>4, <1>5 DEF IInv

LEMMA CloseHolds ==
  ASSUME WebsAssumption, NullAssumption, IInv, NEW c \in Conns, Close(c)
  PROVE  IInv'
<1>1. PICK thrown \in BOOLEAN : ProtocolFunc(c, "closed", <<>>, rest[c], thrown)
  BY DEF Close
<1>2. /\ InCall(c) /\ phase[c] \in {"open", "closing"}
      /\ phase' = [phase EXCEPT ![c] = "none"] /\ pfds' = DelPollFd(pfds, fd[c])
      /\ fd' = [fd EXCEPT ![c] = Null] /\ want' = [want EXCEPT ![c] = FALSE]
      /\ rest' = [rest EXCEPT ![c] = 0] /\ serving' = serving
  BY DEF Close
<1>3. Steps(c, "closed", <<>>, rest[c], thrown)
  BY <1>1, <1>2 DEF Steps, Event, Suits, IInv
<1>4. Callbacks' /\ Turn'
  BY <1>2, <1>3, EventStep
<1>5. Descriptors' /\ PollSetExact'
  BY <1>2, PollShrinks DEF IInv, Callbacks
<1>6. rest' \in [Conns -> Nat]
  BY <1>2 DEF IInv
<1>7. QED  BY <1>4, <1>5, <1>6 DEF IInv

LEMMA CloseHttpHolds ==
  ASSUME WebsAssumption, NullAssumption, IInv, NEW c \in Conns, CloseHttp(c)
  PROVE  IInv'
<1>1. /\ fault = Null /\ serving \in {"in", "destroy"} /\ phase[c] = "http"
      /\ phase' = [phase EXCEPT ![c] = "none"] /\ pfds' = DelPollFd(pfds, fd[c])
      /\ fd' = [fd EXCEPT ![c] = Null]
      /\ UNCHANGED <<serving, exc, slot, heap, view, got, untold, missed, leaked, fault, rest, want>>
  BY DEF CloseHttp, InCall, ccvars, history
<1>2. want' = [want EXCEPT ![c] = FALSE]
  BY <1>1 DEF IInv, Descriptors
<1>3. Descriptors' /\ PollSetExact'
  BY <1>1, <1>2, PollShrinks DEF IInv, Callbacks
<1>4. Ranges /\ Links /\ ViewAgrees
  BY <1>1 DEF IInv, Callbacks
<1>5. phase'[c] = "none" /\ \A d \in Conns \ {c} : phase'[d] = phase[d]
  BY <1>1, <1>4 DEF Ranges
<1>6. Ranges' /\ ViewAgrees'
  BY <1>1, <1>4 DEF Ranges, ViewAgrees
<1>7. Pointers' /\ Leaked'
  BY <1>1, <1>4, <1>5 DEF Links, Pointers, Linked, Leaked
<1>8. Kept'
  BY <1>1, <1>4, <1>5 DEF Links, Kept, Ranges, Object
<1>9. Turn' /\ NoFault' /\ rest' \in [Conns -> Nat]
  BY <1>1 DEF Turn, NoFault, IInv
<1>10. QED  BY <1>3, <1>6, <1>7, <1>8, <1>9 DEF IInv, Callbacks, Links

LEMMA StepHolds ==
  ASSUME WebsAssumption, NullAssumption, IInv, [Next]_vars
  PROVE  IInv'
<1>1. ASSUME NEW c \in Conns, Serve(c)
      PROVE  IInv'
  BY <1>1, AcceptHolds, EstablishHolds, ReceiveHolds, WriteableHolds, CloseHolds,
     CloseHttpHolds DEF Serve
<1>2. ASSUME UNCHANGED <<fault, libvars, want, slot, heap, pfds, view, got, untold, history>>,
             exc' = exc \/ (exc' = Null /\ \A c \in Conns : phase[c] # "closing"),
             Turn'
      PROVE  IInv'
  <2>1. /\ UNCHANGED <<fault, phase, fd, rest, want, slot, heap, pfds>>
        /\ UNCHANGED <<view, got, untold, missed, leaked>>
    BY <1>2 DEF libvars, history
  <2>2. Ranges' /\ ViewAgrees' /\ NoFault'
    BY <1>2, <2>1 DEF IInv, Callbacks, Ranges, ViewAgrees, NoFault
  <2>3. fault' = Null => Links'
    BY <1>2, <2>1 DEF IInv, Callbacks, Links, Pointers, Linked, Kept, Leaked
  <2>4. Descriptors' /\ PollSetExact'
    BY <2>1 DEF IInv, Descriptors, PollSetExact
  <2>5. QED  BY <1>2, <2>1, <2>2, <2>3, <2>4 DEF IInv, Callbacks
<1>3. CASE Process
  <2>1. Turn' /\ \A c \in Conns : phase[c] # "closing"
    BY <1>3 DEF Process, IInv, Turn, libvars
  <2>2. QED  BY <1>2, <1>3, <2>1 DEF Process
<1>4. CASE Return
  <2>1. Turn'
    BY <1>4 DEF Return, IInv, Turn, libvars
  <2>2. QED  BY <1>2, <1>4, <2>1 DEF Return
<1>5. CASE Destroy
  <2>1. Turn'
    BY <1>5 DEF Destroy, IInv, Turn, libvars
  <2>2. QED  BY <1>2, <1>5, <2>1 DEF Destroy
<1>6. CASE Destroyed
  <2>1. Turn'
    BY <1>6 DEF Destroyed, IInv, Turn, libvars
  <2>2. QED  BY <1>2, <1>6, <2>1 DEF Destroyed
<1>7. CASE UNCHANGED vars
  <2>1. Turn'
    BY <1>7 DEF vars, IInv, Turn
  <2>2. QED  BY <1>2, <1>7, <2>1 DEF vars, libvars, history
<1>8. QED  BY <1>1, <1>3, <1>4, <1>5, <1>6, <1>7 DEF Next

LEMMA Inductive ==
  ASSUME WebsAssumption, NullAssumption
  PROVE  Spec => []IInv
<1>1. Init => IInv
  BY InitHolds
<1>2. IInv /\ [Next]_vars => IInv'
  BY StepHolds
<1>3. QED  BY <1>1, <1>2, PTL DEF Spec

-----------------------------------------------------------------------------
(* cclwebs.cc:40-41,75,112,116: a callback follows the session's pointer   *)
(* to an object that is there, always; to a null one only on a websocket   *)
(* whose ESTABLISHED event was dropped while an exception waited.          *)
THEOREM WebsNoFault ==
  ASSUME WebsAssumption, NullAssumption
  PROVE  Spec => []NoFault
<1>1. IInv => NoFault
  BY DEF IInv, Callbacks
<1>2. QED  BY <1>1, Inductive, PTL

(* cclwebs.cc:77-82,164-168: between two service calls open websockets and *)
(* connection objects correspond one to one, but for the events dropped.   *)
THEOREM WebsObjectPerConnection ==
  ASSUME WebsAssumption, NullAssumption
  PROVE  Spec => []ObjectPerConnection
<1>1. IInv => ObjectPerConnection
  <2> SUFFICES ASSUME IInv, serving \in {"out", "dead"}
               PROVE  /\ \A c \in Conns : phase[c] = "open" =>
                           \/ Valid(c) /\ heap[slot[c]].conn = c
                           \/ slot[c] = Null /\ c \in missed
                      /\ \A o \in Objs : heap[o] # Null =>
                           \/ phase[heap[o].conn] = "open" /\ slot[heap[o].conn] = o
                           \/ o \in leaked
    BY DEF ObjectPerConnection
  <2>1. Links
    BY DEF IInv, Turn, Callbacks
  <2>2. QED  BY <2>1 DEF Links, Pointers, Kept, Linked, Valid
<1>2. QED  BY <1>1, Inductive, PTL

(* cclwebs.cc:127,150,164-168: the delegate knows of exactly the           *)
(* websockets that have an object, and of those whose end it was not told. *)
THEOREM WebsViewAgrees ==
  ASSUME WebsAssumption, NullAssumption
  PROVE  Spec => []ViewAgrees
<1>1. IInv => ViewAgrees
  BY DEF IInv, Callbacks
<1>2. QED  BY <1>1, Inductive, PTL

(* cclwebs.cc:15-45: the polled set is the open descriptors, each once, in *)
(* the mode the library wants.                                             *)
THEOREM WebsPollSetExact ==
  ASSUME WebsAssumption, NullAssumption
  PROVE  Spec => []PollSetExact
<1>1. IInv => PollSetExact
  BY DEF IInv
<1>2. QED  BY <1>1, Inductive, PTL
-----------------------------------------------------------------------------
(* The refinement: CclWebs implements CclWebsDelegate                      *)

(* The fragments of the current message that were handed over: what        *)
(* m_data_buffer is to hold.                                               *)
Begun(c) == [k \in 1 .. given[c] |-> <<frames[c], given[c] + rest[c] - k + 1>>]

Fragments ==
  /\ frames \in [Conns -> Nat] /\ given \in [Conns -> Nat] /\ rest \in [Conns -> Nat]
  /\ \A c \in Conns :
       /\ phase[c] \in {"none", "http"} => given[c] = 0 /\ rest[c] = 0
       /\ phase[c] = "http" => frames[c] = 0
       /\ given[c] = 0 <=> rest[c] = 0

(* Who has an object now was told of since its last untold end.            *)
Known == \A c \in Conns : phase[c] = "open" /\ Linked(c) => c \notin untold

Reassembly ==
  \A c \in Conns : Talking(c) =>
    /\ heap[slot[c]].buf = Begun(c)
    /\ frames[c] = IF rest[c] = 0 THEN Len(got[c]) ELSE Len(got[c]) + 1

RInv == IInv /\ Fragments /\ Known /\ Reassembly

LEMMA TalkingLinked ==
  ASSUME IInv, fault = Null, NEW c \in Conns, Talking(c)
  PROVE  phase[c] = "open" /\ Linked(c)
<1>1. PICK o \in Objs \ leaked : heap[o] # Null /\ heap[o].conn = c
  BY DEF IInv, Callbacks, ViewAgrees, Talking
<1>2. QED  BY <1>1 DEF IInv, Callbacks, Links, Pointers, Kept, Talking

-----------------------------------------------------------------------------
(* What an event of the websocket c leaves of the conversation of d.       *)
Same(d) ==
  /\ (Talking(d)' <=> Talking(d)) /\ got'[d] = got[d]
  /\ Talking(d) => slot'[d] = slot[d] /\ heap'[slot[d]] = heap[slot[d]]

KnownAt(d) == phase[d] = "open" /\ Linked(d) => d \notin untold

LEMMA OthersSame ==
  ASSUME WebsAssumption, NullAssumption, IInv, Known, NEW c \in Conns, InCall(c),
         NEW reason, NEW data, NEW left, NEW thrown,
         Steps(c, reason, data, left, thrown), NEW d \in Conns \ {c}
  PROVE  Same(d) /\ KnownAt(d)'
<1>1. fault = Null /\ Ranges /\ Links /\ ViewAgrees /\ KnownAt(d)
  BY DEF InCall, IInv, Callbacks, Known, KnownAt
<1>2. phase'[d] = phase[d]
  BY <1>1 DEF Steps, Event, Ranges
<1>3. Talking(d) => Linked(d)
  BY <1>1, TalkingLinked
<1>4. CASE exc # Null
  <2>1. /\ UNCHANGED <<slot, heap, view, got>> /\ leaked \subseteq leaked'
        /\ (d \in untold' <=> d \in untold) /\ (d \in missed' <=> d \in missed)
    BY <1>4 DEF Steps, Event, ProtocolFunc, Pending
  <2>2. QED  BY <1>1, <1>2, <2>1 DEF Same, KnownAt, Talking, Linked
<1>5. CASE exc = Null /\ reason # "established" /\ ~Valid(c)
  <2>1. UNCHANGED <<slot, heap, view, got, untold, missed, leaked>>
    BY <1>5 DEF Steps, Event, ProtocolFunc, Pending, ccvars, history
  <2>2. QED  BY <1>1, <1>2, <2>1 DEF Same, KnownAt, Talking, Linked
<1>6. CASE exc = Null /\ (reason = "established" \/ Valid(c))
  <2>1. PICK o \in Objs, buf \in Seq(Chunks) :
          /\ heap[o] = Null \/ (Linked(c) /\ o = slot[c])
          /\ slot'[d] = slot[d]
          /\ Dispatch(c, o, buf, reason, data, left, thrown)
          /\ UNCHANGED <<missed, leaked>>
    <3>1. CASE reason = "established"
      <4>1. PICK o \in Objs :
              /\ heap[o] = Null /\ slot' = [slot EXCEPT ![c] = o]
              /\ Dispatch(c, o, <<>>, reason, data, left, thrown)
        BY <1>6, <3>1 DEF Steps, Event, ProtocolFunc, Pending
      <4>2. UNCHANGED <<missed, leaked>> /\ <<>> \in Seq(Chunks)
        BY <1>6, <3>1 DEF Steps, Event, ProtocolFunc, Pending, history
      <4>3. slot'[d] = slot[d]
        BY <1>1, <4>1 DEF Ranges
      <4>4. QED  BY <4>1, <4>2, <4>3
    <3>2. CASE reason # "established"
      <4>1. Linked(c) /\ slot[c] \in Objs /\ heap[slot[c]].buf \in Seq(Chunks)
        BY <1>1, <1>6, <3>2
           DEF Steps, Event, Suits, Links, Pointers, Valid, Ranges, Object
      <4>2. /\ Dispatch(c, slot[c], heap[slot[c]].buf, reason, data, left, thrown)
            /\ UNCHANGED <<slot, missed, leaked>>
        BY <1>6, <3>2 DEF Steps, Event, ProtocolFunc, Pending, history
      <4>3. QED  BY <4>1, <4>2
    <3>3. QED  BY <3>1, <3>2
  <2>2. /\ view'[d] = view[d] /\ got'[d] = got[d] /\ (d \in untold' <=> d \in untold)
        /\ \A p \in Objs \ {o} : heap'[p] = heap[p]
        /\ heap'[o] # Null => heap'[o].conn = c
    BY <1>1, <2>1 DEF Dispatch, Told, Ranges
  <2>3. Linked(d) => slot[d] # o
    BY <2>1 DEF Linked
  <2>4. slot[d] # Null => slot[d] \in Objs
    BY <1>1 DEF Ranges
  <2>5. Same(d)
    BY <1>3, <2>1, <2>2, <2>3, <2>4 DEF Same, Talking, Linked
  <2>6. KnownAt(d)'
    BY <1>1, <1>2, <2>1, <2>2, <2>3, <2>4 DEF KnownAt, Linked
  <2>7. QED  BY <2>5, <2>6
<1>7. QED  BY <1>4, <1>5, <1>6

(* ... and of its own: nothing new, the end, the beginning, a fragment     *)
(* kept, or a message given.                                               *)
Stays(c) == (Talking(c)' <=> Talking(c)) /\ slot'[c] = slot[c]

Silent(c, reason) == Same(c) /\ (Talking(c) => reason = "writeable")

Begins(c, reason) ==
  /\ reason = "established" /\ ~Talking(c)
  /\ Talking(c)' => got'[c] = <<>> /\ heap'[slot'[c]].buf = <<>>

Keeps(c, reason, data, left) ==
  /\ reason \in {"receive", "writeable"} /\ left # 0
  /\ Stays(c) /\ got'[c] = got[c] /\ heap'[slot[c]].buf = heap[slot[c]].buf \o data

Gives(c, reason, data, left) ==
  /\ reason \in {"receive", "writeable"} /\ left = 0
  /\ Stays(c) /\ heap'[slot[c]].buf = <<>>
  /\ got'[c] = IF reason = "writeable" THEN got[c]
               ELSE Append(got[c], IF heap[slot[c]].buf = <<>> THEN data
                                   ELSE heap[slot[c]].buf \o data)

Outcome(c, reason, data, left) ==
  \/ ~Talking(c)'
  \/ Silent(c, reason)
  \/ Begins(c, reason)
  \/ Keeps(c, reason, data, left)
  \/ Gives(c, reason, data, left)

LEMMA OwnOutcome ==
  ASSUME WebsAssumption, NullAssumption, IInv, Known, NEW c \in Conns, InCall(c),
         NEW reason, NEW data, NEW left, NEW thrown,
         Steps(c, reason, data, left, thrown)
  PROVE  Outcome(c, reason, data, left) /\ KnownAt(c)'
<1>1. fault = Null /\ Ranges /\ Links /\ ViewAgrees /\ KnownAt(c)
  BY DEF InCall, IInv, Callbacks, Known, KnownAt
<1>2. phase'[c] = IF reason = "closed" THEN "none"
                  ELSE IF Returns1(left, thrown) THEN "closing" ELSE "open"
  BY <1>1 DEF Steps, Event, Ranges
<1>3. Talking(c) => Linked(c)
  BY <1>1, TalkingLinked
<1>4. CASE exc # Null
  <2>1. /\ UNCHANGED <<slot, heap, view, got>>
        /\ reason # "closed" => UNCHANGED <<untold, leaked>>
        /\ missed' = IF reason = "writeable" THEN missed ELSE missed \cup {c}
    BY <1>4 DEF Steps, Event, ProtocolFunc, Pending
  <2>2. Outcome(c, reason, data, left)
    BY <2>1 DEF Outcome, Silent, Same, Talking
  <2>3. KnownAt(c)'
    BY <1>1, <1>2, <2>1 DEF KnownAt, Linked, Steps, Event, Suits, Links, Pointers
  <2>4. QED  BY <2>2, <2>3
<1>5. CASE exc = Null /\ reason # "established" /\ ~Valid(c)
  <2>1. UNCHANGED <<slot, heap, view, got, untold, missed, leaked>>
    BY <1>5 DEF Steps, Event, ProtocolFunc, Pending, ccvars, history
  <2>2. ~Linked(c)
    BY <1>5 DEF Linked, Valid
  <2>3. QED  BY <1>3, <2>1, <2>2 DEF Outcome, Silent, Same, KnownAt, Talking, Linked
<1>6. CASE exc = Null /\ reason = "established"
  <2>1. PICK o \in Objs :
          /\ slot' = [slot EXCEPT ![c] = o]
          /\ Dispatch(c, o, <<>>, reason, data, left, thrown)
    BY <1>6 DEF Steps, Event, ProtocolFunc, Pending
  <2>2. left = 0 /\ slot[c] = Null
    BY <1>1, <1>6 DEF Steps, Event, Suits, Links, Pointers
  <2>3. /\ slot'[c] = o
        /\ heap' = [heap EXCEPT ![o] = IF Released(reason, left, thrown) THEN Null
                                       ELSE [conn |-> c, buf |-> <<>>]]
        /\ c \notin untold'
        /\ view'[c] = IF thrown THEN "down" ELSE "up"
        /\ ~thrown => got'[c] = <<>>
    BY <1>1, <1>6, <2>1, <2>2 DEF Dispatch, Told, Ranges, Emptied
  <2>4. ~thrown => heap'[o].buf = <<>>
    BY <1>1, <1>6, <2>3 DEF Released, Ranges
  <2>5. QED
    BY <1>3, <1>6, <2>2, <2>3, <2>4 DEF Outcome, Begins, Talking, Linked, KnownAt
<1>7. CASE exc = Null /\ reason # "established" /\ Valid(c)
  <2>1. Linked(c) /\ slot[c] \in Objs /\ heap[slot[c]].buf \in Seq(Chunks)
    BY <1>1, <1>7 DEF Steps, Event, Suits, Links, Pointers, Valid, Ranges, Object
  <2>2. /\ Dispatch(c, slot[c], heap[slot[c]].buf, reason, data, left, thrown)
        /\ UNCHANGED <<slot, missed, leaked>>
    BY <1>7 DEF Steps, Event, ProtocolFunc, Pending, history
  <2>3. view[c] = "up"
    BY <1>1, <2>1 DEF ViewAgrees, Linked
  <2>4. CASE reason = "closed"
    BY <1>1, <1>2, <2>2, <2>4 DEF Outcome, KnownAt, Dispatch, Told, Talking, Ranges
  <2>5. CASE reason # "closed" /\ left = 0 /\ thrown
    <3>1. view'[c] = "down" /\ c \notin untold'
      BY <1>1, <2>2, <2>5 DEF Dispatch, Told, Ranges
    <3>2. QED  BY <3>1 DEF Outcome, KnownAt, Talking
  <2>6. CASE reason # "closed" /\ ~(left = 0 /\ thrown)
    <3> DEFINE buf == heap[slot[c]].buf
    <3>1. c \notin untold /\ reason \in {"receive", "writeable"}
      BY <1>1, <1>7, <2>1, <2>6 DEF KnownAt, Steps, Event, Suits
    <3>2. heap'[slot[c]].buf = Emptied(Buffered(buf, data, left), left)
      BY <1>1, <2>1, <2>2, <2>6 DEF Dispatch, Released, Ranges
    <3>3. CASE left = 0
      <4>1. /\ view'[c] = "up" /\ untold' = untold \ {c}
            /\ got'[c] = IF reason = "receive"
                         THEN Append(got[c], IF Buffered(buf, data, left) # <<>>
                                             THEN Buffered(buf, data, left) ELSE data)
                         ELSE got[c]
        BY <1>1, <1>7, <2>2, <2>6, <3>3 DEF Dispatch, Told, Ranges
      <4>2. heap'[slot[c]].buf = <<>>
        BY <3>2, <3>3 DEF Emptied
      <4>3. Stays(c) /\ c \notin untold'
        BY <2>2, <2>3, <3>1, <4>1 DEF Stays, Talking
      <4>4. reason = "receive" =>
              got'[c] = Append(got[c], IF buf = <<>> THEN data ELSE buf \o data)
        <5>1. CASE buf = <<>>
          BY <3>3, <4>1, <5>1 DEF Buffered
        <5>2. CASE buf # <<>>
          <6>1. Buffered(buf, data, left) = buf \o data
            BY <5>2 DEF Buffered
          <6>2. data \in Seq(Chunks) /\ buf \o data # <<>>
            BY <2>1, <5>2 DEF Steps
          <6>3. QED  BY <4>1, <5>2, <6>1, <6>2
        <5>3. QED  BY <5>1, <5>2
      <4>5. Gives(c, reason, data, left)
        BY <3>1, <3>3, <4>1, <4>2, <4>3, <4>4 DEF Gives
      <4>6. QED  BY <4>3, <4>5 DEF Outcome, KnownAt
    <3>4. CASE left # 0
      <4>1. UNCHANGED <<view, got, untold>>
        BY <2>2, <2>6, <3>4 DEF Dispatch
      <4>2. heap'[slot[c]].buf = buf \o data
        BY <3>2, <3>4 DEF Emptied, Buffered
      <4>3. Keeps(c, reason, data, left)
        BY <2>2, <3>1, <3>4, <4>1, <4>2 DEF Keeps, Stays, Talking
      <4>4. QED  BY <3>1, <4>1, <4>3 DEF Outcome, KnownAt
    <3>5. QED  BY <3>3, <3>4
  <2>7. QED  BY <2>4, <2>5, <2>6
<1>8. QED  BY <1>4, <1>5, <1>6, <1>7

-----------------------------------------------------------------------------
(* Nothing happens to the conversation of d that the delegate could see.   *)
Unseen(d) == (Talking(d)' <=> Talking(d)) /\ (Talking(d) => got'[d] = got[d])

(* What may happen to the one of c.                                        *)
Seen(c) ==
  \/ Unseen(c)
  \/ ~Talking(c) /\ Talking(c)' /\ got'[c] = <<>>
  \/ /\ Talking(c) /\ Talking(c)' /\ Len(got[c]) < MaxFrames
     /\ \E n \in 1 .. MaxChunks :
          got'[c] = Append(got[c], Delegate!Message(Len(got[c]) + 1, n))
  \/ Talking(c) /\ ~Talking(c)'

Up(c) == IF Talking(c) THEN "up" ELSE "down"
Heard(c) == IF Talking(c) THEN got[c] ELSE <<>>

LEMMA AbstractStep ==
  ASSUME NEW c \in Conns, Seen(c), \A d \in Conns \ {c} : Unseen(d)
  PROVE  [Delegate!Next]_(Delegate!avars)
<1> DEFINE aview == [d \in Conns |-> Up(d)]
           agot == [d \in Conns |-> Heard(d)]
<1>1. \A d \in Conns \ {c} : Up(d)' = Up(d) /\ Heard(d)' = Heard(d)
  BY DEF Unseen, Up, Heard
<1>2. aview' = [aview EXCEPT ![c] = Up(c)'] /\ agot' = [agot EXCEPT ![c] = Heard(c)']
  BY <1>1
<1>3. aview[c] = Up(c) /\ agot[c] = Heard(c)
  OBVIOUS
<1>4. CASE Unseen(c)
  <2>1. aview' = aview /\ agot' = agot
    BY <1>1, <1>4 DEF Unseen, Up, Heard
  <2>2. QED  BY <2>1 DEF Delegate!avars, Up, Heard
<1>5. CASE ~Talking(c) /\ Talking(c)' /\ got'[c] = <<>>
  <2>1. Up(c) = "down" /\ Up(c)' = "up" /\ Heard(c) = <<>> /\ Heard(c)' = <<>>
    BY <1>5 DEF Up, Heard
  <2>2. aview[c] = "down" /\ aview' = [aview EXCEPT ![c] = "up"] /\ agot' = agot
    BY <1>1, <1>2, <1>3, <2>1
  <2>3. Delegate!Established(c)
    BY <2>2 DEF Delegate!Established, Up, Heard
  <2>4. QED  BY <2>3 DEF Delegate!Next
<1>6. ASSUME Talking(c), Talking(c)', Len(got[c]) < MaxFrames,
             NEW n \in 1 .. MaxChunks,
             got'[c] = Append(got[c], Delegate!Message(Len(got[c]) + 1, n))
      PROVE  Delegate!Received(c)
  <2>1. Up(c) = "up" /\ Up(c)' = "up" /\ Heard(c) = got[c] /\ Heard(c)' = got'[c]
    BY <1>6 DEF Up, Heard
  <2>2. /\ aview[c] = "up" /\ aview' = aview /\ Len(agot[c]) < MaxFrames
        /\ agot' = [agot EXCEPT ![c] = Append(agot[c], Delegate!Message(Len(agot[c]) + 1, n))]
    BY <1>1, <1>2, <1>3, <1>6, <2>1
  <2>3. QED  BY <2>2 DEF Delegate!Received, Up, Heard
<1>7. CASE Talking(c) /\ ~Talking(c)'
  <2>1. Up(c) = "up" /\ Up(c)' = "down" /\ Heard(c)' = <<>>
    BY <1>7 DEF Up, Heard
  <2>2. /\ aview[c] = "up" /\ aview' = [aview EXCEPT ![c] = "down"]
        /\ agot' = [agot EXCEPT ![c] = <<>>]
    BY <1>2, <1>3, <2>1
  <2>3. Delegate!Closed(c)
    BY <2>2 DEF Delegate!Closed, Up, Heard
  <2>4. QED  BY <2>3 DEF Delegate!Next
<1>8. QED  BY <1>4, <1>5, <1>6, <1>7 DEF Seen, Delegate!Next

-----------------------------------------------------------------------------
ReassemblyAt(d) ==
  Talking(d) => /\ heap[slot[d]].buf = Begun(d)
                /\ frames[d] = IF rest[d] = 0 THEN Len(got[d]) ELSE Len(got[d]) + 1

Framed(d) == frames'[d] = frames[d] /\ given'[d] = given[d] /\ rest'[d] = rest[d]

(* The fragments of message f before and with its k-th, when n are to come *)
(* from the k-th on.                                                       *)
Before(f, k, n) == [i \in 1 .. k - 1 |-> <<f, k - 1 + n - i + 1>>]
UpTo(f, k, n) == [i \in 1 .. k |-> <<f, k + n - i>>]

LEMMA OneMore ==
  ASSUME NEW f \in Nat, NEW k \in Nat \ {0}, NEW n \in Nat
  PROVE  Before(f, k, n) \o <<<<f, n>>>> = UpTo(f, k, n)
<1> DEFINE a == [i \in 1 .. k - 1 |-> <<f, k - 1 + n - i + 1>>]
           b == [i \in 1 .. k |-> <<f, k + n - i>>]
           e == <<<<f, n>>>>
<1>1. a \in Seq(Nat \X Nat) /\ Len(a) = k - 1
  <2>1. k - 1 \in Nat /\ a \in [1 .. k - 1 -> Nat \X Nat]
    OBVIOUS
  <2> HIDE DEF a
  <2>2. QED  BY <2>1
<1>2. e \in Seq(Nat \X Nat) /\ Len(e) = 1 /\ e[1] = <<f, n>>
  OBVIOUS
<1>3. b \in Seq(Nat \X Nat) /\ Len(b) = k
  BY DEF b
<1>4. a \o e \in Seq(Nat \X Nat) /\ Len(a \o e) = k
  BY <1>1, <1>2
<1>5. ASSUME NEW i \in 1 .. k  PROVE (a \o e)[i] = b[i]
  <2>1. CASE i < k
    <3>1. (a \o e)[i] = a[i]
      BY <1>1, <1>2, <2>1
    <3>2. a[i] = <<f, k + n - i>>
      BY <2>1
    <3>3. QED  BY <3>1, <3>2
  <2>2. CASE i = k
    <3>1. (a \o e)[i] = e[1]
      BY <1>1, <1>2, <2>2
    <3>2. QED  BY <3>1, <1>2, <2>2
  <2>3. QED  BY <2>1, <2>2
<1>6. QED  BY <1>3, <1>4, <1>5 DEF Before, UpTo

(* An event of c leaves the others as they are.                            *)
LEMMA EventSeen ==
  ASSUME WebsAssumption, NullAssumption, RInv, NEW c \in Conns, InCall(c),
         NEW reason, NEW data, NEW left, NEW thrown,
         Steps(c, reason, data, left, thrown),
         \A d \in Conns \ {c} : Framed(d),
         Seen(c), ReassemblyAt(c)'
  PROVE  Known' /\ Reassembly' /\ [Delegate!Next]_(Delegate!avars)
<1>1. \A d \in Conns \ {c} : Same(d) /\ KnownAt(d)'
  BY OthersSame DEF RInv
<1>2. KnownAt(c)'
  BY OwnOutcome DEF RInv
<1>3. \A d \in Conns \ {c} : Unseen(d)
  BY <1>1 DEF Same, Unseen
<1>4. ASSUME NEW d \in Conns \ {c}  PROVE ReassemblyAt(d)'
  <2>1. Same(d) /\ Framed(d) /\ ReassemblyAt(d)
    BY <1>1 DEF RInv, Reassembly, ReassemblyAt
  <2>2. QED  BY <2>1 DEF Same, Framed, ReassemblyAt, Begun
<1>5. Known'
  BY <1>1, <1>2 DEF Known, KnownAt
<1>6. Reassembly'
  BY <1>4 DEF Reassembly, ReassemblyAt
<1>7. QED  BY <1>3, <1>5, <1>6, AbstractStep

LEMMA EstablishSeen ==
  ASSUME WebsAssumption, NullAssumption, RInv, NEW c \in Conns, Establish(c)
  PROVE  Fragments' /\ Known' /\ Reassembly' /\ [Delegate!Next]_(Delegate!avars)
<1>1. PICK thrown \in BOOLEAN :
        /\ ProtocolFunc(c, "established", <<>>, 0, thrown)
        /\ phase' = [phase EXCEPT ![c] = IF Returns1(0, thrown) THEN "closing" ELSE "open"]
  BY DEF Establish
<1>2. /\ InCall(c) /\ phase[c] = "http"
      /\ UNCHANGED <<frames, given, rest>>
  BY DEF Establish
<1>3. Steps(c, "established", <<>>, 0, thrown)
  BY <1>1, <1>2 DEF Steps, Event, Suits
<1>4. Outcome(c, "established", <<>>, 0)
  BY <1>2, <1>3, OwnOutcome DEF RInv
<1>5. frames[c] = 0 /\ given[c] = 0 /\ rest[c] = 0
  BY <1>2 DEF RInv, Fragments
<1>6. Begun(c)' = <<>>
  BY <1>2, <1>5 DEF Begun
<1>7. Seen(c) /\ ReassemblyAt(c)'
  BY <1>2, <1>4, <1>5, <1>6
     DEF Outcome, Silent, Begins, Keeps, Gives, Same, Seen, Unseen, ReassemblyAt
<1>8. Fragments'
  BY <1>1, <1>2 DEF RInv, Fragments, IInv, Callbacks, Ranges
<1>9. QED  BY <1>2, <1>3, <1>7, <1>8, EventSeen DEF Framed

LEMMA WriteableSeen ==
  ASSUME WebsAssumption, NullAssumption, RInv, NEW c \in Conns, Writeable(c)
  PROVE  Fragments' /\ Known' /\ Reassembly' /\ [Delegate!Next]_(Delegate!avars)
<1>1. PICK thrown \in BOOLEAN :
        /\ ProtocolFunc(c, "writeable", <<>>, rest[c], thrown)
        /\ phase' = [phase EXCEPT ![c] = IF Returns1(rest[c], thrown) THEN "closing" ELSE "open"]
  BY DEF Writeable
<1>2. /\ InCall(c) /\ phase[c] = "open"
      /\ UNCHANGED <<frames, given, rest>>
  BY DEF Writeable
<1>3. Steps(c, "writeable", <<>>, rest[c], thrown)
  BY <1>1, <1>2 DEF Steps, Event, Suits, RInv, IInv
<1>4. Outcome(c, "writeable", <<>>, rest[c])
  BY <1>2, <1>3, OwnOutcome DEF RInv
<1>5. Begun(c)' = Begun(c)
  BY <1>2 DEF Begun
<1>6. rest[c] = 0 => Begun(c) = <<>>
  BY DEF Begun, RInv, Fragments
<1>7. Talking(c) => /\ heap[slot[c]].buf = Begun(c)
                    /\ frames[c] = IF rest[c] = 0 THEN Len(got[c]) ELSE Len(got[c]) + 1
  BY DEF RInv, Reassembly
<1>8. Talking(c) => heap[slot[c]].buf \o <<>> = heap[slot[c]].buf
  <2>1. Talking(c) => heap[slot[c]].buf \in Seq(Chunks)
    BY <1>2, TalkingLinked DEF RInv, IInv, Callbacks, Ranges, Linked, Object, InCall
  <2>2. QED  BY <2>1
<1>9. Seen(c) /\ ReassemblyAt(c)'
  <2>1. CASE ~Talking(c)' \/ Silent(c, "writeable")
    BY <1>2, <1>5, <1>7, <2>1 DEF Silent, Same, Seen, Unseen, ReassemblyAt
  <2>2. CASE Keeps(c, "writeable", <<>>, rest[c])
    BY <1>2, <1>5, <1>7, <1>8, <2>2 DEF Keeps, Stays, Seen, Unseen, ReassemblyAt
  <2>3. CASE Gives(c, "writeable", <<>>, rest[c])
    BY <1>2, <1>5, <1>6, <1>7, <2>3 DEF Gives, Stays, Seen, Unseen, ReassemblyAt
  <2>4. QED  BY <1>4, <2>1, <2>2, <2>3 DEF Outcome, Begins
<1>10. Fragments'
  BY <1>1, <1>2 DEF RInv, Fragments, IInv, Callbacks, Ranges
<1>11. QED  BY <1>2, <1>3, <1>9, <1>10, EventSeen DEF Framed

LEMMA CloseSeen ==
  ASSUME WebsAssumption, NullAssumption, RInv, NEW c \in Conns, Close(c)
  PROVE  Fragments' /\ Known' /\ Reassembly' /\ [Delegate!Next]_(Delegate!avars)
<1>1. PICK thrown \in BOOLEAN : ProtocolFunc(c, "closed", <<>>, rest[c], thrown)
  BY DEF Close
<1>2. /\ InCall(c) /\ phase[c] \in {"open", "closing"}
      /\ phase' = [phase EXCEPT ![c] = "none"] /\ frames' = frames
      /\ given' = [given EXCEPT ![c] = 0] /\ rest' = [rest EXCEPT ![c] = 0]
  BY DEF Close
<1>3. Steps(c, "closed", <<>>, rest[c], thrown)
  BY <1>1, <1>2 DEF Steps, Event, Suits, RInv, IInv
<1>4. Outcome(c, "closed", <<>>, rest[c])
  BY <1>2, <1>3, OwnOutcome DEF RInv
<1>5. Seen(c) /\ ReassemblyAt(c)'
  BY <1>4
     DEF Outcome, Silent, Begins, Keeps, Gives, Same, Seen, Unseen, ReassemblyAt
<1>6. Fragments' /\ \A d \in Conns \ {c} : Framed(d)
  BY <1>2 DEF RInv, Fragments, IInv, Callbacks, Ranges, Framed
<1>7. QED  BY <1>2, <1>3, <1>5, <1>6, EventSeen

(* The buffer with the next fragment is what was begun of the message; the *)
(* last one makes the message whole.                                       *)
LEMMA ReceiveSeen ==
  ASSUME WebsAssumption, NullAssumption, RInv, NEW c \in Conns, Receive(c)
  PROVE  Fragments' /\ Known' /\ Reassembly' /\ [Delegate!Next]_(Delegate!avars)
<1>1. PICK f \in 1 .. MaxFrames, k, n \in 1 .. MaxChunks, thrown \in BOOLEAN :
        /\ \/ /\ rest[c] = 0 /\ f = frames[c] + 1 /\ k = 1
           \/ /\ rest[c] > 0 /\ f = frames[c] /\ k = given[c] + 1 /\ n = rest[c]
        /\ k + n - 1 <= MaxChunks
        /\ frames' = [frames EXCEPT ![c] = f]
        /\ given' = [given EXCEPT ![c] = IF n = 1 THEN 0 ELSE k]
        /\ rest' = [rest EXCEPT ![c] = n - 1]
        /\ ProtocolFunc(c, "receive", <<<<f, n>>>>, n - 1, thrown)
        /\ Request(c, want[c] \/ (~Pending /\ n = 1), pfds)
        /\ phase' = [phase EXCEPT ![c] = IF Returns1(n - 1, thrown) THEN "closing" ELSE "open"]
  BY DEF Receive
<1>2. /\ InCall(c) /\ phase[c] = "open"
      /\ f \in Nat /\ k \in Nat \ {0} /\ n \in Nat \ {0} /\ k \in 1 .. MaxChunks
  BY DEF Receive, WebsAssumption
<1>3. Steps(c, "receive", <<<<f, n>>>>, n - 1, thrown)
  <2>1. <<<<f, n>>>> \in Seq(Chunks) /\ n - 1 \in Nat
    BY <1>2 DEF Chunks
  <2>2. QED  BY <1>1, <1>2, <2>1 DEF Steps, Event, Suits
<1>4. Outcome(c, "receive", <<<<f, n>>>>, n - 1)
  BY <1>2, <1>3, OwnOutcome DEF RInv
<1>5. /\ frames'[c] = f /\ rest'[c] = n - 1 /\ given'[c] = IF n = 1 THEN 0 ELSE k
      /\ \A d \in Conns \ {c} : Framed(d)
  BY <1>1 DEF RInv, Fragments, Framed
<1>6. Fragments'
  BY <1>1, <1>2, <1>5 DEF RInv, Fragments, IInv, Callbacks, Ranges, Framed
<1>7. given[c] = k - 1
  BY <1>1, <1>2 DEF RInv, Fragments
<1> DEFINE sofar == Before(f, k, n)
           whole == UpTo(f, k, n)
<1>8. Begun(c) = sofar
  <2>1. CASE rest[c] = 0
    <3>1. k = 1 /\ given[c] = 0
      BY <1>1, <1>7, <2>1
    <3>2. QED  BY <3>1 DEF Begun, Before
  <2>2. CASE rest[c] # 0
    <3>1. f = frames[c] /\ n = rest[c]
      BY <1>1, <2>2
    <3>2. QED  BY <1>7, <3>1 DEF Begun, Before
  <2>3. QED  BY <2>1, <2>2
<1>9. sofar \o <<<<f, n>>>> = whole
  BY <1>2, OneMore
<1>10. n # 1 => Begun(c)' = whole
  <2>1. ASSUME n # 1, NEW i \in 1 .. k  PROVE k + (n - 1) - i + 1 = k + n - i
    BY <1>2
  <2>2. QED  BY <1>5, <2>1 DEF Begun, UpTo
<1>11. n = 1 => Begun(c)' = <<>>
  BY <1>5 DEF Begun
<1>12. n = 1 => whole = Delegate!Message(f, k)
  <2>1. ASSUME n = 1, NEW i \in 1 .. k  PROVE k - i + 1 = k + n - i
    BY <1>2, <2>1
  <2>2. QED  BY <2>1 DEF Delegate!Message, UpTo
<1>13. sofar = <<>> => whole = <<<<f, n>>>>
  <2>1. <<<<f, n>>>> \in Seq(Nat \X Nat) /\ <<>> \o <<<<f, n>>>> = <<<<f, n>>>>
    BY <1>2
  <2>2. QED  BY <1>9, <2>1
<1> HIDE DEF sofar, whole
<1>14. Talking(c) => /\ heap[slot[c]].buf = sofar
                     /\ frames[c] = IF rest[c] = 0 THEN Len(got[c]) ELSE Len(got[c]) + 1
                     /\ got[c] \in Seq(Seq(Chunks))
  BY <1>8 DEF RInv, Reassembly, IInv, Callbacks, Ranges
<1>15. Talking(c) => f = Len(got[c]) + 1
  BY <1>1, <1>2, <1>14
<1>16. Seen(c) /\ ReassemblyAt(c)'
  <2>1. CASE ~Talking(c)' \/ Silent(c, "receive")
    BY <2>1 DEF Silent, Same, Seen, Unseen, ReassemblyAt
  <2>2. CASE Keeps(c, "receive", <<<<f, n>>>>, n - 1)
    <3>1. Talking(c)' => /\ heap'[slot'[c]].buf = Begun(c)' /\ got'[c] = got[c]
                         /\ f = Len(got[c]) + 1 /\ n - 1 # 0
      <4>1. n # 1 /\ Begun(c)' = whole
        BY <1>2, <1>10, <2>2 DEF Keeps
      <4>2. Talking(c)' => Talking(c) /\ heap'[slot'[c]].buf = heap[slot[c]].buf \o <<<<f, n>>>>
                           /\ got'[c] = got[c]
        BY <2>2 DEF Keeps, Stays
      <4>3. n - 1 # 0
        BY <2>2 DEF Keeps
      <4>4. QED  BY <1>9, <1>14, <1>15, <4>1, <4>2, <4>3
    <3>2. QED  BY <1>5, <2>2, <3>1 DEF Keeps, Stays, Seen, Unseen, ReassemblyAt
  <2>3. CASE Gives(c, "receive", <<<<f, n>>>>, n - 1)
    <3>1. n = 1
      BY <1>2, <2>3 DEF Gives
    <3>2. Talking(c)' => /\ heap'[slot'[c]].buf = <<>> /\ Talking(c)
                         /\ got'[c] = Append(got[c], Delegate!Message(f, k))
      BY <1>9, <1>12, <1>13, <1>14, <2>3, <3>1 DEF Gives, Stays
    <3>3. Talking(c)' => Len(got'[c]) = f /\ Len(got[c]) < MaxFrames
      <4>1. Talking(c)' => Delegate!Message(f, k) \in Seq(Nat \X Nat)
        <5>1. \A i \in 1 .. k : <<f, k - i + 1>> \in Nat \X Nat
          BY <1>2
        <5>2. Delegate!Message(f, k) \in [1 .. k -> Nat \X Nat]
          BY <5>1 DEF Delegate!Message
        <5>3. QED  BY <1>2, <5>2
      <4>2. ASSUME Talking(c)'
            PROVE  Len(got'[c]) = Len(got[c]) + 1 /\ Len(got[c]) + 1 = f
                   /\ Len(got[c]) \in Nat
        <5>1. got[c] \in Seq(Seq(Chunks))
          BY <1>14, <3>2, <4>2
        <5>2. QED  BY <1>15, <3>2, <4>2, <5>1
      <4>3. QED  BY <1>2, <4>2, <1>1 DEF WebsAssumption
    <3>4. ReassemblyAt(c)'
      BY <1>5, <1>11, <3>1, <3>2, <3>3 DEF ReassemblyAt
    <3>5. Seen(c)
      BY <1>2, <1>15, <2>3, <3>2, <3>3 DEF Seen, Unseen, Gives, Stays
    <3>6. QED  BY <3>4, <3>5
  <2>4. QED  BY <1>4, <2>1, <2>2, <2>3 DEF Outcome, Begins
<1>17. QED  BY <1>2, <1>3, <1>5, <1>6, <1>16, EventSeen

-----------------------------------------------------------------------------
(* Steps that make no callback.                                            *)
LEMMA AcceptSeen ==
  ASSUME WebsAssumption, NullAssumption, RInv, NEW c \in Conns, Accept(c)
  PROVE  Fragments' /\ Known' /\ Reassembly' /\ [Delegate!Next]_(Delegate!avars)
<1>1. /\ fault = Null /\ phase[c] = "none"
      /\ phase' = [phase EXCEPT ![c] = "http"] /\ slot' = [slot EXCEPT ![c] = Null]
      /\ frames' = [frames EXCEPT ![c] = 0] /\ missed' = missed \ {c}
      /\ UNCHANGED <<given, rest, heap, view, got, untold, leaked>>
  BY DEF Accept, InCall
<1>2. Ranges /\ Links /\ ViewAgrees
  BY <1>1 DEF RInv, IInv, Callbacks
<1>3. /\ phase'[c] = "http" /\ frames'[c] = 0
      /\ \A d \in Conns \ {c} : /\ phase'[d] = phase[d] /\ slot'[d] = slot[d]
                                /\ frames'[d] = frames[d]
  BY <1>1, <1>2 DEF Ranges, RInv, Fragments
<1>4. view[c] = "up" => c \in untold
  BY <1>1, <1>2 DEF ViewAgrees, Links, Kept
<1>5. \A d \in Conns : Talking(d)' <=> Talking(d)
  BY <1>1, <1>4 DEF Talking
<1>6. ~Talking(c)
  BY <1>4 DEF Talking
<1>7. Fragments'
  BY <1>1, <1>3 DEF RInv, Fragments
<1>8. Known'
  BY <1>1, <1>3 DEF RInv, Known, Linked
<1>9. Reassembly'
  BY <1>1, <1>3, <1>5, <1>6 DEF RInv, Reassembly, Begun
<1>10. Seen(c) /\ \A d \in Conns \ {c} : Unseen(d)
  BY <1>1, <1>5 DEF Seen, Unseen
<1>11. QED  BY <1>7, <1>8, <1>9, <1>10, AbstractStep

LEMMA CloseHttpSeen ==
  ASSUME WebsAssumption, NullAssumption, RInv, NEW c \in Conns, CloseHttp(c)
  PROVE  Fragments' /\ Known' /\ Reassembly' /\ [Delegate!Next]_(Delegate!avars)
<1>1. /\ fault = Null /\ phase[c] = "http" /\ phase' = [phase EXCEPT ![c] = "none"]
      /\ UNCHANGED <<frames, given, rest, slot, heap, view, got, untold, missed, leaked>>
  BY DEF CloseHttp, InCall, ccvars, history
<1>2. /\ phase'[c] = "none" /\ \A d \in Conns \ {c} : phase'[d] = phase[d]
  BY <1>1 DEF RInv, IInv, Callbacks, Ranges
<1>3. \A d \in Conns : Talking(d)' <=> Talking(d)
  BY <1>1 DEF Talking
<1>4. Fragments'
  BY <1>1, <1>2 DEF RInv, Fragments
<1>5. Known' /\ Reassembly'
  BY <1>1, <1>2, <1>3 DEF RInv, Known, Linked, Reassembly, Begun
<1>6. Seen(c) /\ \A d \in Conns \ {c} : Unseen(d)
  BY <1>1, <1>3 DEF Seen, Unseen
<1>7. QED  BY <1>4, <1>5, <1>6, AbstractStep

LEMMA TurnSeen ==
  ASSUME RInv, UNCHANGED <<libvars, slot, heap, view, got, untold, history>>
  PROVE  Fragments' /\ Known' /\ Reassembly' /\ [Delegate!Next]_(Delegate!avars)
<1>1. UNCHANGED <<phase, frames, given, rest, slot, heap, view, got, untold, missed, leaked>>
  BY DEF libvars, history
<1>2. \A d \in Conns : (Talking(d)' <=> Talking(d)) /\ Up(d)' = Up(d) /\ Heard(d)' = Heard(d)
  BY <1>1 DEF Talking, Up, Heard
<1>3. Fragments' /\ Known' /\ Reassembly'
  BY <1>1, <1>2 DEF RInv, Fragments, Known, Linked, Reassembly, Begun
<1>4. UNCHANGED Delegate!avars
  <2>1. /\ [d \in Conns |-> Up(d)]' = [d \in Conns |-> Up(d)]
        /\ [d \in Conns |-> Heard(d)]' = [d \in Conns |-> Heard(d)]
    BY <1>2
  <2>2. QED  BY <2>1 DEF Delegate!avars, Up, Heard
<1>5. QED  BY <1>3, <1>4

LEMMA StepSeen ==
  ASSUME WebsAssumption, NullAssumption, RInv, [Next]_vars
  PROVE  RInv' /\ [Delegate!Next]_(Delegate!avars)
<1>1. IInv'
  BY StepHolds DEF RInv
<1>2. ASSUME NEW c \in Conns, Serve(c)
      PROVE  Fragments' /\ Known' /\ Reassembly' /\ [Delegate!Next]_(Delegate!avars)
  BY <1>2, AcceptSeen, EstablishSeen, ReceiveSeen, WriteableSeen, CloseSeen, CloseHttpSeen
     DEF Serve
<1>3. CASE Process \/ Return \/ Destroy \/ Destroyed \/ UNCHANGED vars
  <2>1. UNCHANGED <<libvars, slot, heap, view, got, untold, history>>
    BY <1>3 DEF Process, Return, Destroy, Destroyed, vars, libvars, history
  <2>2. QED  BY <1>1, <2>1, TurnSeen DEF RInv
<1>4. QED  BY <1>1, <1>2, <1>3 DEF Next, RInv

LEMMA InitSeen ==
  ASSUME WebsAssumption, Init
  PROVE  RInv /\ Delegate!Init
<1>1. IInv
  BY InitHolds
<1>2. \A c \in Conns : ~Talking(c)
  BY DEF Init, Talking
<1>3. Fragments /\ Known /\ Reassembly
  BY <1>2 DEF Init, Fragments, Known, Linked, Reassembly
<1>4. Delegate!Init
  BY <1>2 DEF Delegate!Init
<1>5. QED  BY <1>1, <1>3, <1>4 DEF RInv

(* cclwebs.cc:59-178: whatever the fragmentation and the other websockets  *)
(* do, the delegate of a websocket hears that it is established, then      *)
(* whole messages in order, then its end, up to an event that was dropped. *)
THEOREM WebsImplementsDelegate ==
  ASSUME WebsAssumption, NullAssumption
  PROVE  Spec => DelegateSpec
<1>1. Init => RInv /\ Delegate!Init
  BY InitSeen
<1>2. RInv /\ [Next]_vars => RInv' /\ [Delegate!Next]_(Delegate!avars)
  BY StepSeen
<1>3. QED  BY <1>1, <1>2, PTL DEF Spec, DelegateSpec, Delegate!Spec
=============================================================================
