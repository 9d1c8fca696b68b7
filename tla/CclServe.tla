------------------------------ MODULE CclServe ------------------------------
(***************************************************************************)
(* Processes that talk through socket_c and fd_c of lib/cclsys.h, the way  *)
(* tests/cclsys_test.cc uses them.  Over TCP a server takes one connection *)
(* at a time, reads the message and writes it back; over UDP a receiver    *)
(* prints each datagram until one says "terminate".  Both wait with        *)
(* poll_c::ready(1000,...) and look at g_terminate, which a signal handler *)
(* sets, after each round.                                                 *)
(*                                                                         *)
(* A message is the sequence of its byte positions.  What a system call    *)
(* may do is modelled as far as the code tells it apart: ::write takes     *)
(* part of what it is given, ::read gives what has arrived up to the size  *)
(* of the buffer and blocks when nothing has, a handler installed without  *)
(* SA_RESTART makes a blocked call fail.  The clients are processes of     *)
(* their own and may die.  An exception ends the process that threw it:    *)
(* its descriptors are closed by destructors or by the system.             *)
(***************************************************************************)
EXTENDS Integers, Sequences, SequencesExt

CONSTANTS Clients,     \* client processes, one message each
          Lengths,     \* the lengths a message may have
          Buf,         \* c_buffer_add of fd_c::read (1024 in the code)
          UdpMax,      \* c_udp_max_cnt of recvfrom (4096 in the code)
          Queue,       \* connections or datagrams the system keeps waiting
          Finisher,    \* the client whose datagram says "terminate"
          MaxSignals   \* signals that arrive (a bound)

Nobody == ""

ASSUME ServeAssumption ==
  /\ Nobody \notin Clients
  /\ Lengths \subseteq Nat /\ MaxSignals \in Nat
  /\ {Buf, UdpMax, Queue} \subseteq Nat \ {0}

VARIABLES mode,     \* "tcp" or "udp"
          len,      \* length of each client's message
          at,       \* what each client does
          sent,     \* bytes each client has written; was no ::write cut short?
          up, down, \* bytes on their way to the server, to the client
          got,      \* what each client's read() has so far
          shut,     \* how the server's end of each connection was closed
          waiting,  \* accept queue, or the datagrams that arrived
          pc,       \* where the server's loop is
          cur,      \* the client it serves
          data,     \* what the server's read() has so far
          writed,   \* bytes fd_c::write has written of it
          term,     \* g_terminate
          signals   \* signals so far

vars == <<mode, len, at, sent, up, down, got, shut, waiting, pc, cur, data,
          writed, term, signals>>

Ended == {"done", "failed", "dead"}

Message(c) == [i \in 1 .. len[c] |-> i]

TypeOK ==
  /\ mode \in {"tcp", "udp"}
  /\ len \in [Clients -> Lengths]
  /\ at \in [Clients -> {"start", "write", "read"} \cup Ended]
  /\ sent \in [Clients -> [bytes : Nat, whole : BOOLEAN]]
  /\ \A c \in Clients : sent[c].bytes <= len[c]
  /\ up \in [Clients -> Seq(Nat)]
  /\ down \in [Clients -> Seq(Nat)] /\ got \in [Clients -> Seq(Nat)]
  /\ shut \in [Clients -> {"no", "eof", "reset"}]
  /\ pc \in {"check", "poll", "accept", "read", "write", "recv", "done", "dead"}
  /\ waiting \in Seq(Clients)
  /\ cur \in Clients \cup {Nobody}
  /\ data \in Seq(Nat)
  /\ writed \in 0 .. Len(data)
  /\ term \in BOOLEAN

Init ==
  /\ mode \in {"tcp", "udp"}
  /\ len \in [Clients -> Lengths]
  /\ at = [c \in Clients |-> "start"]
  /\ sent = [c \in Clients |-> [bytes |-> 0, whole |-> TRUE]]
  /\ up = [c \in Clients |-> <<>>] /\ down = up /\ got = up
  /\ shut = [c \in Clients |-> "no"]
  /\ waiting = <<>> /\ data = <<>>
  /\ pc = "poll" /\ cur = Nobody
  /\ writed = 0 /\ signals = 0
  /\ term = FALSE

clientVars == <<at, sent, got>>
wireVars == <<up, down, shut>>
serverVars == <<pc, cur, data, writed>>

Up == pc \notin {"done", "dead"}
Blocked == pc = "read" /\ up[cur] = <<>> /\ at[cur] # "dead"

-----------------------------------------------------------------------------
(* The clients of TCP: connect, write, read, close *)

(* socket_c::connect fails when nobody listens, and waits for a place in   *)
(* the queue that socket_c::listen asked for.                              *)
Connect(c) ==
  /\ mode = "tcp" /\ at[c] = "start"
  /\ \/ /\ Up /\ Len(waiting) < Queue
        /\ waiting' = Append(waiting, c)
        /\ at' = [at EXCEPT ![c] = "write"]
     \/ ~Up /\ at' = [at EXCEPT ![c] = "failed"] /\ UNCHANGED waiting
  /\ UNCHANGED <<mode, len, sent, got, wireVars, serverVars, term, signals>>

(* fd_c::write: one ::write, which takes the next k bytes.  Bytes for an   *)
(* end that was closed are answered with a reset, after which ::write      *)
(* fails.                                                                  *)
ClientWrite(c) ==
  /\ at[c] = "write"
  /\ \/ /\ shut[c] # "reset"
        /\ \E k \in 0 .. len[c] - sent[c].bytes :
             LET n == sent[c].bytes
             IN  /\ k = 0 <=> n = len[c]
                 /\ sent' = [sent EXCEPT ![c] = [bytes |-> n + k,
                                                    whole |-> @.whole /\ n + k = len[c]]]
                 /\ up' = [up EXCEPT ![c] = IF shut[c] = "eof" THEN @
                                            ELSE @ \o SubSeq(Message(c), n + 1, n + k)]
                 /\ shut' = [shut EXCEPT ![c] = IF @ = "eof" /\ k > 0 THEN "reset" ELSE @]
                 /\ at' = [at EXCEPT ![c] = IF n + k = len[c] THEN "read" ELSE @]
     \/ /\ shut[c] = "reset"
        /\ at' = [at EXCEPT ![c] = "failed"]
        /\ UNCHANGED <<sent, up, shut>>
  /\ UNCHANGED <<mode, len, down, got, waiting, serverVars, term, signals>>

(* fd_c::read: one ::read of at most Buf bytes; a full buffer asks for     *)
(* more, the end of the stream is a read of nothing.                       *)
ClientRead(c) ==
  /\ at[c] = "read"
  /\ \/ /\ down[c] # <<>> \/ shut[c] = "eof"
        /\ LET k == Min({Len(down[c]), Buf})
           IN  /\ got' = [got EXCEPT ![c] = @ \o SubSeq(down[c], 1, k)]
               /\ down' = [down EXCEPT ![c] = SubSeq(@, k + 1, Len(@))]
               /\ at' = [at EXCEPT ![c] = IF k >= Buf THEN @ ELSE "done"]
     \/ /\ shut[c] = "reset"
        /\ at' = [at EXCEPT ![c] = "failed"]
        /\ UNCHANGED <<got, down>>
  /\ UNCHANGED <<mode, len, sent, up, shut, waiting, serverVars, term, signals>>

ClientDies(c) ==
  /\ at[c] \in {"write", "read"}
  /\ at' = [at EXCEPT ![c] = "dead"]
  /\ UNCHANGED <<mode, len, sent, got, wireVars, waiting, serverVars, term, signals>>

(* The clients of UDP: sendto.  Nothing is sent for an empty string; a     *)
(* datagram may be lost, and is when there is no place for it.             *)
Sendto(c) ==
  /\ mode = "udp" /\ at[c] = "start"
  /\ at' = [at EXCEPT ![c] = "done"]
  /\ \/ len[c] > 0 /\ Up /\ Len(waiting) < Queue /\ waiting' = Append(waiting, c)
     \/ UNCHANGED waiting
  /\ UNCHANGED <<mode, len, sent, got, wireVars, serverVars, term, signals>>

-----------------------------------------------------------------------------
(* The server *)

(* An end closed while bytes of the other side are unread is reset.        *)
ShutOf(c) == IF up[c] # <<>> THEN "reset" ELSE "eof"

(* The process ends: what it accepted is closed, what waits is reset.      *)
End(how) ==
  /\ pc' = how
  /\ cur' = Nobody
  /\ shut' = [c \in Clients |->
                CASE c = cur -> ShutOf(c)
                  [] \E i \in DOMAIN waiting : waiting[i] = c -> "reset"
                  [] OTHER -> shut[c]]
  /\ waiting' = <<>>

(* while (!g_terminate) *)
Check ==
  /\ pc = "check"
  /\ IF term THEN End("done")
             ELSE pc' = "poll" /\ UNCHANGED <<cur, shut, waiting>>
  /\ UNCHANGED <<mode, len, clientVars, up, down, data, writed, term, signals>>

(* Mutant of Poll: a negative timeout. *)
PollForever ==
  /\ pc = "poll" /\ waiting # <<>>
  /\ pc' = IF mode = "tcp" THEN "accept" ELSE "recv"
  /\ UNCHANGED <<mode, len, clientVars, wireVars, waiting, cur, data, writed, term, signals>>

(* poll.ready(1000,res): something waits, or the time is over. *)
Poll ==
  /\ pc = "poll"
  /\ pc' = IF waiting = <<>> THEN "check"
           ELSE IF mode = "tcp" THEN "accept" ELSE "recv"
  /\ UNCHANGED <<mode, len, clientVars, wireVars, waiting, cur, data, writed, term, signals>>

Accept ==
  /\ pc = "accept"
  /\ cur' = Head(waiting) /\ waiting' = Tail(waiting)
  /\ pc' = "read" /\ data' = <<>> /\ writed' = 0
  /\ UNCHANGED <<mode, len, clientVars, wireVars, term, signals>>

Keep(k) == /\ data' = data \o SubSeq(up[cur], 1, k)
           /\ up' = [up EXCEPT ![cur] = SubSeq(@, k + 1, Len(@))]

(* Mutant of Read: the loop goes on until the stream ends. *)
ReadToEnd ==
  /\ pc = "read" /\ ~Blocked
  /\ LET k == Min({Len(up[cur]), Buf})
     IN  Keep(k) /\ pc' = IF k > 0 THEN "read" ELSE "write"
  /\ UNCHANGED <<mode, len, clientVars, down, shut, waiting, cur, writed, term, signals>>

(* Mutant of Read: the result is cut to the buffer of the last ::read. *)
ReadLast ==
  /\ pc = "read" /\ ~Blocked
  /\ LET k == Min({Len(up[cur]), Buf})
     IN  /\ data' = SubSeq(up[cur], 1, k)
         /\ up' = [up EXCEPT ![cur] = SubSeq(@, k + 1, Len(@))]
         /\ pc' = IF k >= Buf THEN "read" ELSE "write"
  /\ UNCHANGED <<mode, len, clientVars, down, shut, waiting, cur, writed, term, signals>>

(* fd_c::read of the connection, as above. *)
Read ==
  /\ pc = "read" /\ ~Blocked
  /\ LET k == Min({Len(up[cur]), Buf})
     IN  Keep(k) /\ pc' = IF k >= Buf THEN "read" ELSE "write"
  /\ UNCHANGED <<mode, len, clientVars, down, shut, waiting, cur, writed, term, signals>>

(* fd_c::write of what was read: the bytes not written yet.  It fails when *)
(* the client is gone and the system knows it.                             *)
Write ==
  /\ pc = "write" /\ writed < Len(data)
  /\ \/ \E k \in 1 .. Len(data) - writed :
          /\ writed' = writed + k
          /\ sent' = [sent EXCEPT ![cur].whole = @ /\ writed + k = Len(data)]
          /\ down' = [down EXCEPT ![cur] = @ \o SubSeq(data, writed + 1, writed + k)]
          /\ UNCHANGED <<pc, cur, shut, waiting>>
     \/ /\ at[cur] \in Ended /\ End("dead")
        /\ UNCHANGED <<writed, sent, down>>
  /\ UNCHANGED <<mode, len, at, got, up, data, term, signals>>

(* acc_sock.close() *)
Close ==
  /\ pc = "write" /\ writed = Len(data)
  /\ shut' = [shut EXCEPT ![cur] = ShutOf(cur)]
  /\ cur' = Nobody /\ pc' = "check"
  /\ UNCHANGED <<mode, len, clientVars, up, down, waiting, data, writed, term, signals>>

(* socket_c::recvfrom, and what the receiver does with the datagram: one   *)
(* that fills the buffer throws, "terminate" ends the loop.                *)
Recvfrom ==
  /\ pc = "recv"
  /\ LET c == Head(waiting)
     IN  \/ /\ len[c] >= UdpMax /\ End("dead")
         \/ /\ len[c] < UdpMax /\ c = Finisher /\ End("done")
         \/ /\ len[c] < UdpMax /\ c # Finisher
            /\ waiting' = Tail(waiting) /\ pc' = "check" /\ UNCHANGED <<cur, shut>>
  /\ UNCHANGED <<mode, len, clientVars, up, down, data, writed, term, signals>>

(* A signal arrives: the handler sets g_terminate, or only g_signum.  A    *)
(* call that blocks fails: poll returns without descriptors, ::read makes  *)
(* fd_c::read throw.  The handler may also run just before the call.       *)
Signal ==
  /\ Up /\ signals < MaxSignals
  /\ signals' = signals + 1
  /\ term' \in {term, TRUE}
  /\ \/ UNCHANGED <<pc, cur, shut, waiting>>
     \/ /\ pc = "poll" /\ waiting = <<>>
        /\ pc' = "check" /\ UNCHANGED <<cur, shut, waiting>>
     \/ Blocked /\ End("dead")
  /\ UNCHANGED <<mode, len, clientVars, up, down, data, writed>>

Server == Check \/ Poll \/ Accept \/ Read \/ Write \/ Close \/ Recvfrom
Client(c) == Connect(c) \/ ClientWrite(c) \/ ClientRead(c)

Next ==
  \/ Server \/ Signal
  \/ \E c \in Clients : Client(c) \/ ClientDies(c) \/ Sendto(c)

(* The scheduler runs every process that is not blocked; nobody has to     *)
(* die, to be signalled or to send a datagram.                             *)
Spec == Init /\ [][Next]_vars /\ WF_vars(Server) /\ \A c \in Clients : WF_vars(Client(c))

-----------------------------------------------------------------------------
(* cclsys.cc:606-661: however ::write and ::read cut the stream, a client  *)
(* gets back the beginning of what it wrote, in order; all of it when no   *)
(* ::write of either side was cut short and the server did not die.        *)
EchoExact ==
  \A c \in Clients :
    /\ IsPrefix(got[c], Message(c))
    /\ (mode = "tcp" /\ at[c] = "done" /\ sent[c].whole /\ pc # "dead")
         => got[c] = Message(c)

Even == \E c \in Clients : len[c] % Buf = 0

(* cclsys.cc:656: no client waits for ever, unless the length of some      *)
(* message is a multiple of the buffer's: the server reads on for more of  *)
(* it while its client waits for the answer, and everyone with them.       *)
ServesAll ==
  (mode = "tcp" /\ ~Even) =>
    \A c \in Clients : at[c] # "start" ~> at[c] \in Ended

(* cclsys_test.cc:253-275,332-351: the loop ends after the handler set     *)
(* g_terminate, also when it ran just before poll was entered, with the    *)
(* same exception.                                                         *)
TermEnds == (mode = "udp" \/ ~Even) => (term ~> ~Up)
=============================================================================
