------------------------------ MODULE CclHttp ------------------------------
(***************************************************************************)
(* lib/cclhttp.cc: server_c, a C++ face of a libmicrohttpd daemon that is  *)
(* run from the program's own poll loop, and the connection_c it keeps for *)
(* a request, from the first call of the access handler to the completion  *)
(* notice.                                                                 *)
(*                                                                         *)
(* libmicrohttpd is external; it is modelled by what cclhttp.cc relies on: *)
(* MHD_run serves any number of events of its connections in any order;    *)
(* the handler is called once with the headers, then for each piece of the *)
(* body (again for a piece it does not take), then once with no data until *)
(* a response is queued; MHD_NO closes the connection; a request whose     *)
(* handler was called is completed exactly once, and its con_cls is null   *)
(* again for the next request of the connection; MHD_stop_daemon closes    *)
(* every connection.                                                       *)
(* The callbacks are server_connection and server_completed of             *)
(* tests/cclhttp_test.cc; GET stands for every method that has no upload.  *)
(***************************************************************************)
EXTENDS Naturals, Sequences

CONSTANTS Conns,      \* connections of the daemon
          Objs,       \* addresses of connection_c objects, and of buffers
          Null,
          MaxPieces,  \* pieces of an upload (a bound)
          MayThrow    \* may the connection callback throw?

ASSUME HttpAssumption ==
  /\ MaxPieces \in Nat /\ MayThrow \in BOOLEAN
  /\ Null \notin Objs /\ Null \notin Conns

Body(n) == [k \in 1 .. n |-> k]
Datas == UNION {[1 .. n -> 1 .. MaxPieces] : n \in 0 .. MaxPieces}
Objects == [kind : {"GET", "PUT"}, user : Objs \cup {Null}]

ASSUME NullAssumption == Null \notin Datas \cup Objects

VARIABLES running,  \* the program: outside the daemon, in process(), in
                    \* ~server_c(), or done
          exc,      \* m_exc_ptr: whose exception is stored, or Null
          reply,    \* what the last process() threw, "internal" for its
                    \* own error, or Null
          lastly,   \* history: whose callback threw last in this process()
          con,      \* the daemon's connections
          cls,      \* *con_cls of each: the connection_c of its request
          heap,     \* the connection_c objects
          bufs      \* the callback's string buffers (user_data)

daemon == <<running, exc, reply, lastly>>
vars == <<running, exc, reply, lastly, con, cls, heap, bufs>>

States == {"closed", "idle", "body", "last", "answered", "dying"}
Quiet(st) == [st |-> st, kind |-> "GET", size |-> 0, taken |-> 0, saved |-> <<>>]

(* The ranges of the state; no buffer ever holds more than one body.       *)
TypeOK ==
  /\ running \in {"out", "in", "stop", "dead"}
  /\ {exc, lastly} \subseteq Conns \cup {Null}
  /\ reply \in Conns \cup {Null, "internal"}
  /\ con \in [Conns -> [st : States, kind : {"GET", "PUT"}, size : 0 .. MaxPieces,
                        taken : 0 .. MaxPieces, saved : Datas]]
  /\ cls \in [Conns -> Objs \cup {Null}]
  /\ heap \in [Objs -> Objects \cup {Null}]
  /\ bufs \in [Objs -> Datas \cup {Null}]

Init ==
  /\ running = "out" /\ exc = Null /\ reply = Null /\ lastly = Null
  /\ con = [c \in Conns |-> Quiet("closed")]
  /\ cls = [c \in Conns |-> Null]
  /\ heap = [o \in Objs |-> Null] /\ bufs = [o \in Objs |-> Null]

-----------------------------------------------------------------------------
(* The callbacks of the program *)

(* Mutant of UploadLeft: *m_upload_data_size is not reset. *)
UploadLeftAll(size) == size

(* upload_data() takes the whole piece: what is left of it is nothing. *)
UploadLeft(size) == 0

(* user_data() of the object o, created when it is null. *)
WithBuffer(o, b) ==
  IF heap[o].user # Null THEN b = heap[o].user /\ heap' = heap
  ELSE bufs[b] = Null /\ heap' = [heap EXCEPT ![o].user = b]

Held(b) == IF bufs[b] = Null THEN <<>> ELSE bufs[b]

(* The exception of the callback of c is stored. *)
Caught(c) == exc' = c /\ lastly' = c /\ UNCHANGED <<running, reply>>

(* server_connection with a piece of an upload. *)
TakePiece(c) ==
  \E b \in Objs :
    LET k == con[c].taken + 1
        left == UploadLeft(1)
    IN  /\ WithBuffer(cls[c], b)
        /\ bufs' = [bufs EXCEPT ![b] = Append(Held(b), k)]
        /\ con' = [con EXCEPT ![c].taken = k - left,
                              ![c].st = IF k - left = con[c].size THEN "last" ELSE "body"]

(* server_connection with no data: a response is queued, after an upload   *)
(* was written to its file.                                                *)
Answer(c) ==
  \/ /\ con[c].kind = "GET"
     /\ con' = [con EXCEPT ![c].st = "answered"]
     /\ UNCHANGED <<heap, bufs>>
  \/ /\ con[c].kind = "PUT"
     /\ \E b \in Objs : /\ WithBuffer(cls[c], b)
                        /\ bufs' = [bufs EXCEPT ![b] = Held(b)]
                        /\ con' = [con EXCEPT ![c].st = "answered",
                                              ![c].saved = Held(b)]

(* server_connection throws before or after it made its buffer. *)
Fail(c) ==
  /\ MayThrow
  /\ \/ UNCHANGED <<heap, bufs>>
     \/ /\ con[c].kind = "PUT"
        /\ \E b \in Objs : /\ WithBuffer(cls[c], b)
                           /\ bufs' = [bufs EXCEPT ![b] = Held(b)]
  /\ con' = [con EXCEPT ![c].st = "dying"]

(* Mutant of Freed: the completion callback is not called. *)
FreedNever(o) == UNCHANGED bufs

(* server_completed: the buffer of an upload is deleted. *)
Freed(o) ==
  IF heap[o].kind = "PUT" /\ heap[o].user # Null
  THEN bufs' = [bufs EXCEPT ![heap[o].user] = Null] ELSE UNCHANGED bufs

-----------------------------------------------------------------------------
(* The daemon's events *)

Serving == running = "in"

Connect(c) ==
  /\ Serving /\ con[c].st = "closed"
  /\ con' = [con EXCEPT ![c] = Quiet("idle")]
  /\ UNCHANGED <<daemon, cls, heap, bufs>>

(* connection_func with *con_cls null: the object is made. *)
Headers(c) ==
  /\ Serving /\ con[c].st = "idle" /\ cls[c] = Null
  /\ \E kind \in {"GET", "PUT"}, n \in 0 .. MaxPieces, o \in Objs :
       /\ kind = "GET" => n = 0
       /\ heap[o] = Null
       /\ heap' = [heap EXCEPT ![o] = [kind |-> kind, user |-> Null]]
       /\ cls' = [cls EXCEPT ![c] = o]
       /\ con' = [con EXCEPT ![c] = [st |-> IF n = 0 THEN "last" ELSE "body",
                                     kind |-> kind, size |-> n, taken |-> 0,
                                     saved |-> <<>>]]
  /\ UNCHANGED <<daemon, bufs>>

(* connection_func with an object: the callback runs; when it throws,      *)
(* MHD_NO.                                                                 *)
Handler(c) ==
  /\ Serving /\ con[c].st \in {"body", "last"}
  /\ \/ con[c].st = "body" /\ TakePiece(c) /\ UNCHANGED daemon
     \/ con[c].st = "last" /\ Answer(c) /\ UNCHANGED daemon
     \/ Fail(c) /\ Caught(c)
  /\ UNCHANGED cls

(* completed_func: the callback, then the object is deleted. *)
Completed(c) ==
  LET o == cls[c]
  IN  /\ Freed(o)
      /\ heap' = [heap EXCEPT ![o] = Null]
      /\ cls' = [cls EXCEPT ![c] = Null]

(* The response was sent; the connection may be kept for another request. *)
Sent(c) ==
  /\ Serving /\ con[c].st = "answered"
  /\ Completed(c)
  /\ \E st \in {"idle", "closed"} : con' = [con EXCEPT ![c] = Quiet(st)]
  /\ UNCHANGED daemon

(* Mutant of Close: a broken upload is not completed. *)
CloseQuietly(c) ==
  /\ Serving \/ running = "stop"
  /\ con[c].st # "closed"
  /\ IF cls[c] # Null /\ con[c].st # "body"
     THEN Completed(c) ELSE UNCHANGED <<cls, heap, bufs>>
  /\ con' = [con EXCEPT ![c] = Quiet("closed")]
  /\ UNCHANGED daemon

(* The client goes away, the handler said MHD_NO, or the daemon stops. *)
Close(c) ==
  /\ Serving \/ running = "stop"
  /\ con[c].st # "closed"
  /\ IF cls[c] # Null THEN Completed(c) ELSE UNCHANGED <<cls, heap, bufs>>
  /\ con' = [con EXCEPT ![c] = Quiet("closed")]
  /\ UNCHANGED daemon

-----------------------------------------------------------------------------
(* Mutant of Process: the exception of the last run is kept. *)
ProcessKeeping ==
  /\ running = "out" /\ running' = "in"
  /\ lastly' = Null
  /\ UNCHANGED <<exc, reply, con, cls, heap, bufs>>

(* Mutant of Process: nothing is served after an exception. *)
ProcessOnce ==
  /\ running = "out" /\ exc = Null /\ running' = "in"
  /\ lastly' = Null
  /\ UNCHANGED <<exc, reply, con, cls, heap, bufs>>

(* process(): forget the last exception, then run the daemon. *)
Process ==
  /\ running = "out" /\ running' = "in"
  /\ exc' = Null /\ lastly' = Null
  /\ UNCHANGED <<reply, con, cls, heap, bufs>>

(* MHD_run returns once the connections refused are closed; an exception   *)
(* that was stored is thrown to the caller.  When MHD_run reports a        *)
(* failure that is thrown instead, and what is stored is never seen.       *)
Return ==
  /\ running = "in" /\ running' = "out"
  /\ \/ reply' = exc /\ \A c \in Conns : con[c].st # "dying"
     \/ reply' = "internal"
  /\ UNCHANGED <<exc, lastly, con, cls, heap, bufs>>

(* ~server_c() *)
Stop ==
  /\ running = "out" /\ running' = "stop"
  /\ UNCHANGED <<exc, reply, lastly, con, cls, heap, bufs>>

Stopped ==
  /\ running = "stop" /\ \A c \in Conns : con[c].st = "closed"
  /\ running' = "dead"
  /\ UNCHANGED <<exc, reply, lastly, con, cls, heap, bufs>>

Next ==
  \/ Process \/ Return \/ Stop \/ Stopped
  \/ \E c \in Conns : Connect(c) \/ Headers(c) \/ Handler(c) \/ Sent(c) \/ Close(c)

Spec == Init /\ [][Next]_vars

(* The program keeps calling process(), as the loop of the test does, and  *)
(* every run of the daemon comes to the connections whose request is there *)
(* in full.  Clients owe nothing: not the rest of a body, not a close.     *)
Fairness ==
  /\ WF_vars(Process) /\ WF_vars(Return)
  /\ \A c \in Conns : SF_vars(con[c].st = "last" /\ Handler(c))

LiveSpec == Spec /\ Fairness

-----------------------------------------------------------------------------
(* cclhttp.cc:39-42,114,155-158: a connection object exists exactly while  *)
(* a request is under way, and belongs to it alone; a request that breaks  *)
(* off, is refused or is cut by the end of the server leaves none behind.  *)
ObjectPerRequest ==
  /\ \A c \in Conns : con[c].st \in {"body", "last", "answered", "dying"} <=> cls[c] # Null
  /\ \A o \in Objs : heap[o] # Null <=> \E c \in Conns : cls[c] = o
  /\ \A c, d \in Conns : cls[c] # Null /\ cls[c] = cls[d] => c = d

(* cclhttp.cc:151-152, cclhttp_test.cc:100-109: what the callback hung on  *)
(* user_data() is reachable from one live object, or was freed: also when  *)
(* the upload broke off or the callback threw.                             *)
UserDataOwned ==
  \A b \in Objs : bufs[b] # Null =>
    \E c \in Conns : /\ cls[c] # Null /\ heap[cls[c]].user = b
                     /\ \A d \in Conns \ {c} : cls[d] # Null => heap[cls[d]].user # b

(* cclhttp.cc:249-257: while an upload goes on, the callback has the       *)
(* pieces so far, each once and in order; what it saved when it answered   *)
(* is the whole body of this very request.                                 *)
UploadExact ==
  \A c \in Conns :
    /\ con[c].st \in {"body", "last"} /\ heap[cls[c]].user # Null =>
         bufs[heap[cls[c]].user] = Body(con[c].taken)
    /\ con[c].st = "answered" /\ con[c].kind = "PUT" => con[c].saved = Body(con[c].size)

(* cclhttp.cc:130-136,218-234: process() throws exactly when a callback    *)
(* threw during that very call, and then the exception of the last one,    *)
(* unless the run of the daemon itself is reported as failed.              *)
RethrowsLast == running = "out" => reply \in {lastly, "internal"}

(* cclhttp.cc:119-138: while the server runs, a request that came in whole *)
(* is answered, or its connection is closed: it does not hang.             *)
RequestEnds ==
  \A c \in Conns : con[c].st = "last" ~>
                     (con[c].st \in {"answered", "dying", "closed"} \/ running = "stop")
=============================================================================
