------------------------------ MODULE CclWebs ------------------------------
(***************************************************************************)
(* lib/cclwebs.cc: a libwebsockets context, the C++ connection object it   *)
(* keeps per websocket, the reassembly of fragmented messages, the set of  *)
(* polled descriptors, and exceptions of the delegate carried across the C *)
(* library by m_exc_ptr.                                                   *)
(*                                                                         *)
(* libwebsockets is external; it is modelled by what cclwebs.cc relies on: *)
(* one libwebsocket_service call goes once round its descriptors and runs  *)
(* any number of callbacks of each websocket (one accepted or closed in a  *)
(* call is not served again in it), a callback that returns nonzero has    *)
(* its websocket closed in the same call, a websocket starts with zeroed   *)
(* session memory, and every descriptor is announced before use and        *)
(* withdrawn after it.                                                     *)
(* The delegate is server_callback of tests/cclwebs_test.cc.               *)
(***************************************************************************)
EXTENDS Naturals, Sequences

CONSTANTS Conns,        \* websockets (struct libwebsocket)
          Objs,         \* addresses connection_c objects are allocated at
          Fds,          \* socket descriptors
          Null,
          MaxFrames,    \* messages a peer sends on one websocket
          MaxChunks     \* fragments of a message

ASSUME WebsAssumption ==
  /\ MaxFrames \in Nat /\ MaxChunks \in Nat \ {0}
  /\ Null \notin Objs /\ Null \notin Fds /\ Null \notin Conns

Chunks == (1 .. MaxFrames) \X (1 .. MaxChunks)

ASSUME NullAssumption == Null \notin [conn : Conns, buf : Seq(Chunks)]

VARIABLES serving,  \* where the program is: outside the library, in process(),
                    \* in ~context_c(), or done with the context
          through,  \* websockets this call is through with
          exc,      \* m_exc_ptr: whose exception is stored, or Null
          fault,    \* whose event followed a bad pointer, or Null
          phase,    \* the library's state of each websocket
          fd,       \* its descriptor
          frames,   \* messages the peer has begun to send on it
          given,    \* fragments of the current message handed over
          rest,     \* fragments of the current message still to come
          want,     \* the library owes it a WRITEABLE callback
          slot,     \* its session memory: the connection_c pointer
          heap,     \* the connection_c objects: address -> object or Null
          pfds,     \* m_pfd_set
          view, got,\* history: what the delegate was told (CclWebsDelegate)
          missed,   \* history: websockets an event of which was dropped
          untold,   \* history: websockets the delegate believes up after the end
          leaked    \* history: objects whose websocket ended without them

libvars == <<phase, fd, frames, given, rest>>
ccvars == <<exc, slot, heap, view, got, untold>>
history == <<missed, leaked>>
vars == <<serving, through, exc, fault, phase, fd, frames, given, rest, want, slot,
          heap, pfds, view, got, missed, untold, leaked>>

ObjType == [conn : Conns,
            buf : UNION {[1 .. n -> Chunks] : n \in 0 .. MaxChunks - 1}]

(* The ranges of the state; in particular m_data_buffer never holds a      *)
(* whole message between two events.                                       *)
TypeOK ==
  /\ serving \in {"out", "in", "destroy", "dead"}
  /\ through \subseteq Conns
  /\ exc \in Conns \cup {Null} /\ fault \in Conns \cup {Null}
  /\ phase \in [Conns -> {"none", "http", "open", "closing"}]
  /\ fd \in [Conns -> Fds \cup {Null}]
  /\ frames \in [Conns -> 0 .. MaxFrames]
  /\ given \in [Conns -> 0 .. MaxChunks] /\ rest \in [Conns -> 0 .. MaxChunks]
  /\ want \in [Conns -> BOOLEAN]
  /\ slot \in [Conns -> Objs \cup {Null}]
  /\ heap \in [Objs -> ObjType \cup {Null}]
  /\ pfds \subseteq [fd : Fds, out : BOOLEAN]
  /\ view \in [Conns -> {"up", "down"}]
  /\ got \in [Conns -> Seq(Seq(Chunks))]
  /\ missed \subseteq Conns /\ untold \subseteq Conns /\ leaked \subseteq Objs

Init ==
  /\ serving = "out" /\ through = {} /\ exc = Null /\ fault = Null
  /\ phase = [c \in Conns |-> "none"] /\ fd = [c \in Conns |-> Null]
  /\ frames = [c \in Conns |-> 0] /\ given = [c \in Conns |-> 0]
  /\ rest = [c \in Conns |-> 0] /\ want = [c \in Conns |-> FALSE]
  /\ slot = [c \in Conns |-> Null] /\ heap = [o \in Objs |-> Null]
  /\ pfds = {} /\ view = [c \in Conns |-> "down"] /\ got = [c \in Conns |-> <<>>]
  /\ missed = {} /\ untold = {} /\ leaked = {}

-----------------------------------------------------------------------------
(* http_func: m_pfd_set is ordered by descriptor alone, so inserting one   *)
(* that is present changes nothing; changing the mode of one that is not   *)
(* fails the assert.                                                       *)
HasFd(s, f) == \E p \in s : p.fd = f
AddPollFd(s, f) == IF HasFd(s, f) THEN s ELSE s \cup {[fd |-> f, out |-> FALSE]}

(* Mutant of DelPollFd: compares the mode as well as the descriptor. *)
DelPollFdReadOnly(s, f) == s \ {[fd |-> f, out |-> FALSE]}

DelPollFd(s, f) == {p \in s : p.fd # f}

ChangeMode(s, f, out) == {IF p.fd = f THEN [p EXCEPT !.out = out] ELSE p : p \in s}

-----------------------------------------------------------------------------
(* protocol_func for the websocket c: data is the fragment, left what      *)
(* libwebsockets_remaining_packet_payload returns, thrown whether the      *)
(* delegate throws if it is called.  It returns 1 iff Returns1.            *)

(* Mutant of Pending: the callback does not look at m_exc_ptr. *)
PendingNever == FALSE

(* An exception waits to be rethrown: events are dropped. *)
Pending == exc # Null

Returns1(left, thrown) == ~Pending /\ left = 0 /\ thrown

(* Mutant of Buffered: the last fragment is not appended to the others. *)
BufferedButLast(buf, data, left) == IF left # 0 THEN buf \o data ELSE buf

(* m_data_buffer after the fragment: untouched by a message that is        *)
(* complete when nothing of it was buffered.                               *)
Buffered(buf, data, left) == IF left # 0 \/ buf # <<>> THEN buf \o data ELSE buf

(* data_buffer.clear() before the callback. *)
Emptied(buf, left) == IF left = 0 THEN <<>> ELSE buf

(* Mutant of Released: the object of a closed websocket stays. *)
ReleasedOnThrow(reason, left, thrown) == left = 0 /\ thrown

(* The connection object is deleted: the delegate threw, or it is over. *)
Released(reason, left, thrown) == (left = 0 /\ thrown) \/ reason = "closed"

(* What the delegate saw of the call. *)
Told(c, reason, thrown, msg) ==
  /\ view' = [view EXCEPT ![c] =
                IF thrown \/ reason = "closed" THEN "down" ELSE "up"]
  /\ got' = [got EXCEPT ![c] =
               IF reason = "established" /\ ~thrown THEN <<>>
               ELSE IF reason = "receive" /\ ~thrown THEN Append(@, msg) ELSE @]
  /\ untold' = untold \ {c}

(* The part after the connection object o was found or created. *)
Dispatch(c, o, buffered, reason, data, left, thrown) ==
  LET buf == Buffered(buffered, data, left)
  IN  /\ heap' = [heap EXCEPT ![o] =
                    IF Released(reason, left, thrown) THEN Null
                    ELSE [conn |-> c, buf |-> Emptied(buf, left)]]
      /\ exc' = IF left = 0 /\ thrown THEN c ELSE exc
      /\ IF left = 0 THEN Told(c, reason, thrown, IF buf # <<>> THEN buf ELSE data)
         ELSE /\ untold' = IF reason = "closed" THEN untold \cup {c} ELSE untold
              /\ UNCHANGED <<view, got>>

Valid(c) == slot[c] # Null /\ heap[slot[c]] # Null

ProtocolFunc(c, reason, data, left, thrown) ==
  \/ /\ Pending
     /\ untold' = IF reason = "closed" /\ Valid(c) THEN untold \cup {c} ELSE untold
     /\ missed' = IF reason = "writeable" THEN missed ELSE missed \cup {c}
     /\ leaked' = IF reason = "closed" /\ Valid(c) THEN leaked \cup {slot[c]} ELSE leaked
     /\ UNCHANGED <<exc, slot, heap, view, got, fault>>
  \/ /\ ~Pending /\ reason = "established"
     /\ \E o \in Objs : /\ heap[o] = Null
                        /\ slot' = [slot EXCEPT ![c] = o]
                        /\ Dispatch(c, o, <<>>, reason, data, left, thrown)
     /\ UNCHANGED <<fault, history>>
  \/ /\ ~Pending /\ reason # "established" /\ Valid(c)
     /\ Dispatch(c, slot[c], heap[slot[c]].buf, reason, data, left, thrown)
     /\ UNCHANGED <<slot, fault, history>>
  \/ /\ ~Pending /\ reason # "established" /\ ~Valid(c)
     /\ fault' = c
     /\ UNCHANGED <<ccvars, history>>

-----------------------------------------------------------------------------
(* The library's events.  The delegate asks for a WRITEABLE callback when  *)
(* it is told of a new websocket and for every message (the asserted       *)
(* callback_on_writable calls http_func with CHANGE_MODE).  It may throw   *)
(* whenever it is called, and a websocket may close inside a message.      *)
InCall(c) ==
  serving \in {"in", "destroy"} /\ fault = Null /\ c \notin through
Through(c) == through' = through \cup {c}

Request(c, asks, s) ==
  /\ want' = [want EXCEPT ![c] = asks]
  /\ pfds' = ChangeMode(s, fd[c], asks)

(* accept(): the descriptor is announced; the upgrade request follows. *)
Accept(c) ==
  /\ InCall(c) /\ serving = "in" /\ phase[c] = "none"
  /\ \E f \in Fds : /\ \A d \in Conns : fd[d] # f
                    /\ fd' = [fd EXCEPT ![c] = f]
                    /\ pfds' = AddPollFd(pfds, f)
  /\ phase' = [phase EXCEPT ![c] = "http"]
  /\ slot' = [slot EXCEPT ![c] = Null]
  /\ frames' = [frames EXCEPT ![c] = 0]
  /\ Through(c)
  /\ missed' = missed \ {c}
  /\ UNCHANGED <<serving, exc, fault, given, rest, want, heap, view, got, untold, leaked>>

Establish(c) ==
  /\ InCall(c) /\ serving = "in" /\ phase[c] = "http"
  /\ \E thrown \in BOOLEAN :
       /\ ProtocolFunc(c, "established", <<>>, 0, thrown)
       /\ Request(c, ~Pending, pfds)
       /\ phase' = [phase EXCEPT ![c] =
                      IF Returns1(0, thrown) THEN "closing" ELSE "open"]
  /\ UNCHANGED <<through, serving, fd, frames, given, rest>>

(* The next fragment of the current message, or the first of a new one. *)
Receive(c) ==
  /\ InCall(c) /\ serving = "in" /\ phase[c] = "open"
  /\ \E f \in 1 .. MaxFrames, k, n \in 1 .. MaxChunks, thrown \in BOOLEAN :
       /\ \/ /\ rest[c] = 0 /\ f = frames[c] + 1 /\ k = 1
          \/ /\ rest[c] > 0 /\ f = frames[c] /\ k = given[c] + 1 /\ n = rest[c]
       /\ k + n - 1 <= MaxChunks
       /\ frames' = [frames EXCEPT ![c] = f]
       /\ given' = [given EXCEPT ![c] = IF n = 1 THEN 0 ELSE k]
       /\ rest' = [rest EXCEPT ![c] = n - 1]
       /\ ProtocolFunc(c, "receive", <<<<f, n>>>>, n - 1, thrown)
       /\ Request(c, want[c] \/ (~Pending /\ n = 1), pfds)
       /\ phase' = [phase EXCEPT ![c] =
                      IF Returns1(n - 1, thrown) THEN "closing" ELSE "open"]
  /\ UNCHANGED <<through, serving, fd>>

(* The request is spent before the callback is made. *)
Writeable(c) ==
  /\ InCall(c) /\ serving = "in" /\ phase[c] = "open" /\ want[c]
  /\ \E thrown \in BOOLEAN :
       /\ ProtocolFunc(c, "writeable", <<>>, rest[c], thrown)
       /\ phase' = [phase EXCEPT ![c] =
                      IF Returns1(rest[c], thrown) THEN "closing" ELSE "open"]
  /\ Request(c, FALSE, pfds)
  /\ UNCHANGED <<through, serving, fd, frames, given, rest>>

(* The peer or a timeout closes a websocket, a nonzero return value does,  *)
(* or libwebsocket_context_destroy does.                                   *)
Close(c) ==
  /\ InCall(c) /\ phase[c] \in {"open", "closing"}
  /\ \E thrown \in BOOLEAN : ProtocolFunc(c, "closed", <<>>, rest[c], thrown)
  /\ phase' = [phase EXCEPT ![c] = "none"]
  /\ pfds' = DelPollFd(pfds, fd[c])
  /\ fd' = [fd EXCEPT ![c] = Null]
  /\ want' = [want EXCEPT ![c] = FALSE]
  /\ given' = [given EXCEPT ![c] = 0] /\ rest' = [rest EXCEPT ![c] = 0]
  /\ Through(c)
  /\ UNCHANGED <<serving, frames>>

(* A websocket that never got past its upgrade request. *)
CloseHttp(c) ==
  /\ InCall(c) /\ phase[c] = "http"
  /\ phase' = [phase EXCEPT ![c] = "none"]
  /\ pfds' = DelPollFd(pfds, fd[c])
  /\ fd' = [fd EXCEPT ![c] = Null]
  /\ Through(c)
  /\ UNCHANGED <<serving, ccvars, history, fault, frames, given, rest, want>>

-----------------------------------------------------------------------------
(* process(): forget the last exception, then service. *)
Process ==
  /\ serving = "out" /\ serving' = "in"
  /\ through' = {}
  /\ exc' = Null
  /\ UNCHANGED <<fault, libvars, want, slot, heap, pfds, view, got, untold, history>>

(* The service call returns once what must be closed is; a pending         *)
(* exception leaves process() here and stays recorded.                     *)
Return ==
  /\ serving = "in" /\ fault = Null
  /\ \A c \in Conns : phase[c] # "closing"
  /\ serving' = "out"
  /\ UNCHANGED <<through, exc, fault, libvars, want, slot, heap, pfds, view, got, untold, history>>

(* ~context_c(): every websocket is closed. *)
Destroy ==
  /\ serving = "out" /\ serving' = "destroy"
  /\ through' = {}
  /\ UNCHANGED <<exc, fault, libvars, want, slot, heap, pfds, view, got, untold, history>>

Destroyed ==
  /\ serving = "destroy" /\ fault = Null /\ \A c \in Conns : phase[c] = "none"
  /\ serving' = "dead"
  /\ UNCHANGED <<through, exc, fault, libvars, want, slot, heap, pfds, view, got, untold, history>>

Serve(c) == Accept(c) \/ Establish(c) \/ Receive(c) \/ Writeable(c) \/ Close(c)
            \/ CloseHttp(c)

Next == Process \/ Return \/ Destroy \/ Destroyed \/ \E c \in Conns : Serve(c)

Spec == Init /\ [][Next]_vars

-----------------------------------------------------------------------------
(* cclwebs.cc:40-41,75,112,116: no callback ever follows a stale           *)
(* connection pointer; a null one only that of a websocket whose           *)
(* ESTABLISHED event came while an exception of another one waited.        *)
NoFault == fault # Null => slot[fault] = Null /\ fault \in missed

(* cclwebs.cc:77-82 "if connection established: create websocket           *)
(* connection object", 164-168 "if connection closed: release connection": *)
(* between two service calls the open websockets and the connection        *)
(* objects correspond one to one, but for the events that line 75 drops    *)
(* while an exception waits: they leave a websocket without its object or  *)
(* an object without its websocket, and nothing else does.                 *)
ObjectPerConnection ==
  serving \in {"out", "dead"} =>
    /\ \A c \in Conns : phase[c] = "open" =>
         \/ Valid(c) /\ heap[slot[c]].conn = c
         \/ slot[c] = Null /\ c \in missed
    /\ \A o \in Objs : heap[o] # Null =>
         \/ phase[heap[o].conn] = "open" /\ slot[heap[o].conn] = o
         \/ o \in leaked

(* cclwebs.cc:127,150,164-168: the delegate knows of exactly the           *)
(* websockets that have an object, so that what it keeps in user_data can  *)
(* be freed (tests/cclwebs_test.cc:35-45), but for those that closed       *)
(* inside a message or while an exception waited: it is not told of their  *)
(* end, and of no other's.                                                 *)
ViewAgrees ==
  \A c \in Conns :
    view[c] = "up" <=>
      \/ c \in untold
      \/ \E o \in Objs \ leaked : heap[o] # Null /\ heap[o].conn = c

(* cclwebs.cc:15-45: outside the library, m_pfd_set is what the library    *)
(* wants polled: each open descriptor once, for writing exactly while a    *)
(* WRITEABLE callback is due.                                              *)
PollSetExact ==
  pfds = {[fd |-> fd[c], out |-> want[c]] : c \in {d \in Conns : phase[d] # "none"}}

(* A conversation is over for the delegate when it is told so, when it     *)
(* should have been, or when an event of it was dropped.                   *)
Talking(c) == view[c] = "up" /\ c \notin untold /\ c \notin missed

Delegate == INSTANCE CclWebsDelegate
  WITH view <- [c \in Conns |-> IF Talking(c) THEN "up" ELSE "down"],
       got <- [c \in Conns |-> IF Talking(c) THEN got[c] ELSE <<>>]

(* cclwebs.cc:59-178: seen by the delegate, a websocket is established,    *)
(* gives whole messages in order, and closes, whatever the fragmentation   *)
(* and the other websockets do, up to an event that was dropped.           *)
DelegateSpec == Delegate!Spec
=============================================================================
