-------------------------- MODULE CclWebsDelegate --------------------------
(***************************************************************************)
(* What lib/cclwebs.h promises the delegate of a protocol (conn_callback_t *)
(* and connection_c): for each websocket it is told "established", then it *)
(* is given whole messages in the order they were sent, and then it is     *)
(* over, once.  How the messages are fragmented on the way, and   *)
(* that there are other websockets, does not show.                         *)
(***************************************************************************)
EXTENDS Naturals, Sequences

CONSTANTS Conns,      \* the websockets
          MaxFrames,  \* the longest conversation
          MaxChunks   \* the most fragments a message arrives in

VARIABLES view,       \* websocket -> whether the delegate knows it as up
          got         \* websocket -> the messages given since it is up

avars == <<view, got>>

(* The n fragments of the message number f, each known by how many come     *)
(* from it on: a message that lacks one is none of these.                  *)
Message(f, n) == [k \in 1 .. n |-> <<f, n - k + 1>>]

Init == view = [c \in Conns |-> "down"] /\ got = [c \in Conns |-> <<>>]

Established(c) ==
  /\ view[c] = "down"
  /\ view' = [view EXCEPT ![c] = "up"]
  /\ UNCHANGED got

Received(c) ==
  /\ view[c] = "up" /\ Len(got[c]) < MaxFrames
  /\ \E n \in 1 .. MaxChunks :
       got' = [got EXCEPT ![c] = Append(@, Message(Len(@) + 1, n))]
  /\ UNCHANGED view

Closed(c) ==
  /\ view[c] = "up"
  /\ view' = [view EXCEPT ![c] = "down"]
  /\ got' = [got EXCEPT ![c] = <<>>]

Next == \E c \in Conns : Established(c) \/ Received(c) \/ Closed(c)

Spec == Init /\ [][Next]_avars
=============================================================================
