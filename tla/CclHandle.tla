----------------------------- MODULE CclHandle ------------------------------
(***************************************************************************)
(* The objects of lib/cclsys.h that own a handle of the system, socket_c   *)
(* (a descriptor, -1 when it has none), pipe_c and file_c (a FILE, null    *)
(* when it has none), and poll_c, which keeps descriptors by number.  The  *)
(* system gives a handle out again once it is closed, and an object knows  *)
(* its handle by number only.                                              *)
(*                                                                         *)
(* The program is any sequence of calls on its objects; after a call that  *)
(* throws, the destructors that run are some of those it could have run    *)
(* anyway.  The three classes treat their handle alike; accepting and      *)
(* polling is for sockets.  Serial numbers, which the program does not     *)
(* have, tell what was opened from what was opened later under the same    *)
(* handle.                                                                 *)
(***************************************************************************)
EXTENDS Integers, FiniteSets, Functions

CONSTANTS Objs,       \* the objects
          MaxHandle,  \* handles are 0 .. MaxHandle (a bound)
          MaxOpens,   \* what the program opens in all (a bound)
          MaxWatch,   \* descriptors poll_c has at a time (a bound)
          Events      \* event masks given to poll_c

ASSUME HandleAssumption == {MaxHandle, MaxOpens, MaxWatch} \subseteq Nat

VARIABLES table,    \* serial of what each handle means, 0 when it is free
          opens,    \* serials given out so far
          nonblock, \* serials of the listeners left in nonblocking mode
          obj,      \* what each object holds
          poll,     \* poll_c: m_pfd_set, m_pfd_array, m_set_changed
          asked,    \* what was asked of poll_c last, for each descriptor
          dropped,  \* serials whose object was assigned over
          foreign   \* calls that reached something that is not the object's

vars == <<table, opens, nonblock, obj, poll, asked, dropped, foreign>>

None == -1
Handles == 0 .. MaxHandle
Stdin == 1             \* the serial of what handle 0 means from the start
Serials == 1 .. (MaxOpens + 1)

Gone == [st |-> "gone", h |-> None, own |-> 0]
Void == [st |-> "has", h |-> None, own |-> 0]
Nothing == [h \in {} |-> 0]

TypeOK ==
  /\ table \in [Handles -> 0 .. (MaxOpens + 1)]
  /\ opens \in Serials
  /\ nonblock \subseteq Serials
  /\ obj \in [Objs -> [st : {"gone", "has", "empty", "failed"},
                       h : Handles \cup {None}, own : 0 .. (MaxOpens + 1)]]
  /\ dropped \subseteq Serials

Init ==
  /\ table = [h \in Handles |-> IF h = 0 THEN Stdin ELSE 0]
  /\ opens = 1
  /\ nonblock = {}
  /\ obj = [o \in Objs |-> Gone]
  /\ poll = [set |-> Nothing, array |-> Nothing, changed |-> FALSE]
  /\ asked = Nothing
  /\ dropped = {}
  /\ foreign = {}

-----------------------------------------------------------------------------
(* The system: a new handle is the lowest free one.                        *)
Free == {h \in Handles : table[h] = 0}
Lowest(h) == \A g \in Free : h <= g

Live(o) == obj[o].st # "gone"
Holds(o) == Live(o) /\ obj[o].h # None

(* The object's call reaches the system with the object's handle.          *)
Touched(o) == IF table[obj[o].h] = obj[o].own THEN foreign
              ELSE foreign \cup {obj[o].st}
Touch(o) == foreign' = Touched(o)

(* close, fclose and pclose release the handle, also when they report an   *)
(* error.                                                                  *)
Release(o) == /\ table' = [table EXCEPT ![obj[o].h] = 0]
              /\ Touch(o)

Open(o) ==
  /\ opens < MaxOpens + 1
  /\ opens' = opens + 1
  /\ \E h \in Free :
       /\ Lowest(h)
       /\ table' = [table EXCEPT ![h] = opens + 1]
       /\ obj' = [obj EXCEPT ![o] = [st |-> "has", h |-> h, own |-> opens + 1]]

-----------------------------------------------------------------------------
(* socket_c(domain,type), pipe_c(command,type), file_c(name,mode).  A      *)
(* constructor that throws leaves no object and nothing open.              *)
Construct(o) ==
  /\ ~Live(o) /\ Open(o)
  /\ UNCHANGED <<nonblock, poll, asked, dropped, foreign>>

(* socket_c() is defaulted where it is declared: the object is set to      *)
(* zero, and the socket that stands for "no connection" has descriptor 0.  *)
EmptySocket == [st |-> "empty", h |-> 0, own |-> 0]

(* accept(): a connection waits, or none does and the listener is in       *)
(* nonblocking mode; otherwise it blocks.                                  *)
Accept(l, o) ==
  /\ Holds(l) /\ ~Live(o)
  /\ \/ Open(o)
     \/ /\ table[obj[l].h] \in nonblock
        /\ obj' = [obj EXCEPT ![o] = EmptySocket]
        /\ UNCHANGED <<table, opens>>
  /\ Touch(l)
  /\ UNCHANGED <<nonblock, poll, asked, dropped>>

(* accept_nonblock(): FIONBIO on, accept(), FIONBIO off.  When the second  *)
(* ioctl fails the listener stays nonblocking and the result is destroyed: *)
(* a connection is closed again, and so is descriptor 0 for the socket     *)
(* that stands for none.                                                   *)
AcceptNonblock(l, o) ==
  LET listener == {table[obj[l].h]}
  IN  /\ Holds(l) /\ ~Live(o) /\ table[obj[l].h] # 0
      /\ \/ /\ \/ Open(o)
               \/ /\ obj' = [obj EXCEPT ![o] = EmptySocket]
                  /\ UNCHANGED <<table, opens>>
            /\ nonblock' = nonblock \ listener
            /\ Touch(l)
         \/ /\ nonblock' \in {nonblock \cup listener, nonblock \ listener}
            /\ Touch(l)
            /\ UNCHANGED <<table, opens, obj>>
         \/ /\ nonblock' = nonblock \cup listener
            /\ table' = [table EXCEPT ![0] = 0]
            /\ foreign' = Touched(l) \cup (IF table[0] = 0 THEN {} ELSE {"empty"})
            /\ UNCHANGED <<opens, obj>>
      /\ UNCHANGED <<poll, asked, dropped>>

(* Mutant of MoveConstruct: the source keeps its handle. *)
CopyConstruct(o, s) ==
  /\ ~Live(o) /\ Live(s)
  /\ obj' = [obj EXCEPT ![o] = obj[s]]
  /\ UNCHANGED <<table, opens, nonblock, poll, asked, dropped, foreign>>

(* T(T &&): the source gives its handle away. *)
MoveConstruct(o, s) ==
  /\ ~Live(o) /\ Live(s)
  /\ obj' = [[obj EXCEPT ![o] = obj[s]] EXCEPT ![s] = Void]
  /\ UNCHANGED <<table, opens, nonblock, poll, asked, dropped, foreign>>

(* operator=(T &&): what the left side had stays open and has no owner.    *)
(* An object moved to itself loses its handle.                             *)
MoveAssign(o, s) ==
  /\ Live(o) /\ Live(s)
  /\ obj' = [[obj EXCEPT ![o] = obj[s]] EXCEPT ![s] = Void]
  /\ dropped' = dropped \cup ({obj[o].own} \ {0})
  /\ UNCHANGED <<table, opens, nonblock, poll, asked, foreign>>

(* close(): throws without a handle.  When the system reports an error it  *)
(* throws before it resets the member.                                     *)
Close(o) ==
  /\ Holds(o) /\ Release(o)
  /\ \/ obj' = [obj EXCEPT ![o] = Void]
     \/ obj' = [obj EXCEPT ![o] = [st |-> "failed", h |-> @.h, own |-> 0]]
  /\ UNCHANGED <<opens, nonblock, poll, asked, dropped>>

(* Mutant of Destroy: the handle stays open. *)
DestroyQuietly(o) ==
  /\ Live(o)
  /\ obj' = [obj EXCEPT ![o] = Gone]
  /\ UNCHANGED <<table, asked, foreign, opens, nonblock, poll, dropped>>

(* ~socket_c(), ~pipe_c(), ~file_c() *)
Destroy(o) ==
  /\ Live(o)
  /\ IF Holds(o) THEN Release(o) ELSE UNCHANGED <<table, foreign>>
  /\ obj' = [obj EXCEPT ![o] = Gone]
  /\ UNCHANGED <<opens, nonblock, poll, asked, dropped>>

(* Any other member: read, write, flush, seek, tell, get_fd, listen,       *)
(* connect, bind, sendto, recvfrom, set_timeout.  It throws without a      *)
(* handle and passes it to the system otherwise.                           *)
Use(o) ==
  /\ Holds(o) /\ Touch(o)
  /\ UNCHANGED <<table, opens, nonblock, obj, poll, asked, dropped>>

-----------------------------------------------------------------------------
(* poll_c: its set is compared by descriptor alone *)

With(f, h, x) == [g \in DOMAIN f \cup {h} |-> IF g = h THEN x ELSE f[g]]

Asks(h, e, again) == asked' = With(asked, h, [ev |-> e, again |-> again])

(* std::set::insert leaves an element that is there as it is. *)
Insert(o, e) ==
  /\ Holds(o)
  /\ LET h == obj[o].h
         there == h \in DOMAIN poll.set
     IN  /\ there \/ Cardinality(DOMAIN poll.set) < MaxWatch
         /\ poll' = [poll EXCEPT !.set = IF there THEN @ ELSE With(@, h, e),
                                 !.changed = TRUE]
         /\ Asks(h, e, there)
  /\ UNCHANGED <<table, opens, nonblock, obj, dropped, foreign>>

(* Mutant of Update: the array is not made again. *)
UpdateSetOnly(o, e) ==
  /\ Holds(o) /\ obj[o].h \in DOMAIN poll.set
  /\ poll' = [poll EXCEPT !.set[obj[o].h] = e]
  /\ Asks(obj[o].h, e, FALSE)
  /\ UNCHANGED <<table, opens, nonblock, obj, dropped, foreign>>

(* update() and remove() assert that the descriptor is in the set. *)
Update(o, e) ==
  /\ Holds(o) /\ obj[o].h \in DOMAIN poll.set
  /\ poll' = [poll EXCEPT !.set[obj[o].h] = e, !.changed = TRUE]
  /\ Asks(obj[o].h, e, FALSE)
  /\ UNCHANGED <<table, opens, nonblock, obj, dropped, foreign>>

PollRemove(o) ==
  /\ Holds(o) /\ obj[o].h \in DOMAIN poll.set
  /\ poll' = [poll EXCEPT !.set = Restrict(@, DOMAIN @ \ {obj[o].h}), !.changed = TRUE]
  /\ asked' = Restrict(asked, DOMAIN asked \ {obj[o].h})
  /\ UNCHANGED <<table, opens, nonblock, obj, dropped, foreign>>

(* ready() and operator<< copy the set into the array when it changed.     *)
(* What poll(2) then answers is for the program and changes nothing here.  *)
ProcessChanges ==
  /\ poll.changed
  /\ poll' = [poll EXCEPT !.array = poll.set, !.changed = FALSE]
  /\ UNCHANGED <<table, opens, nonblock, obj, asked, dropped, foreign>>

Next ==
  \/ \E o \in Objs : \/ Construct(o) \/ Close(o) \/ Destroy(o) \/ Use(o) \/ PollRemove(o)
                     \/ \E e \in Events : Insert(o, e) \/ Update(o, e)
  \/ \E o, s \in Objs : \/ Accept(s, o) \/ AcceptNonblock(s, o)
                        \/ MoveConstruct(o, s) \/ MoveAssign(o, s)
  \/ ProcessChanges

Spec == Init /\ [][Next]_vars

-----------------------------------------------------------------------------
(* cclsys.cc:491-540,606-661,722-1055: a call on an object reaches what    *)
(* that object opened, never what another object or the program opened     *)
(* under the same handle.  It starts to be otherwise in two ways only: by  *)
(* a call on the socket that stands for "no connection", and by one on an  *)
(* object whose close() was reported as failed.                            *)
ReachesOwn == "has" \in foreign => foreign \cap {"empty", "failed"} # {}

(* cclsys.h:175-186,201-212,263-274: whatever is open has exactly one      *)
(* object that will close it, unless that object was assigned over.        *)
OneOwner ==
  \A h \in Handles :
    table[h] \notin dropped \cup {0, Stdin} =>
      Cardinality({o \in Objs : obj[o].st = "has" /\ obj[o].own = table[h]}) = 1

(* cclsys.cc:195-246: what poll(2) is given is what the program asked for  *)
(* last, the same descriptors with the same events.  The exception is a    *)
(* descriptor inserted while poll_c had its number, be it from something   *)
(* closed since: the events of old are kept.                               *)
PollAsAsked ==
  ~poll.changed =>
    /\ DOMAIN poll.array = DOMAIN asked
    /\ \A h \in DOMAIN asked : asked[h].again \/ poll.array[h] = asked[h].ev

(* cclsys.cc:808-812: the socket returned when no connection waits is an   *)
(* empty value: its destructor and members reach nothing.                  *)
EmptyIsEmpty == "empty" \notin foreign
=============================================================================
