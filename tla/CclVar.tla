------------------------------- MODULE CclVar -------------------------------
(***************************************************************************)
(* The reference counted variables of lib/cclvar.h: var_c is one pointer   *)
(* to a loc_c, loc_c carries an atomic counter and the value, and a value  *)
(* that is a container holds var_c objects of its own.                     *)
(*                                                                         *)
(* A PLACE is anything that is a var_c: a local variable of a thread       *)
(* (Handles), an element of a container (Elems), the slot of the literal   *)
(* pool m_str_map (Pool).  at[p] is the m_loc_ptr of the place p, Null     *)
(* while no var_c is constructed there.  What a container is (array, list, *)
(* set, dict) is abstracted to its element positions, and a scalar is a    *)
(* location none of whose positions is used.                               *)
(*                                                                         *)
(* The threads run one library call at a time; the steps of operator= and  *)
(* of the destructor cascade interleave at every counter operation.        *)
(***************************************************************************)
EXTENDS Integers, FiniteSets, Sequences

CONSTANTS Threads,      \* the threads of the program
          Handles,      \* the local var_c objects
          Owner,        \* the thread each handle belongs to
          Locs,         \* the addresses loc_c objects are allocated at
          Slots,        \* the element positions of a container
          Pool,         \* the var_c of one literal in m_str_map
          Null,         \* no pointer
          Wild,         \* what a read of deleted memory yields
          AliasedWalk   \* may v = v[i] drop the last holder of v's container?

Elems == Locs \X Slots
Places == Handles \cup {Pool} \cup Elems

ASSUME FiniteAssumption ==
  /\ IsFiniteSet(Threads) /\ IsFiniteSet(Handles)
  /\ IsFiniteSet(Locs) /\ IsFiniteSet(Slots)

ASSUME DistinctAssumption ==
  /\ Owner \in [Handles -> Threads]
  /\ Pool \notin Handles /\ (Handles \cup {Pool}) \cap Elems = {}
  /\ Threads \cap Places = {}
  /\ Null \notin Locs /\ Wild \notin Locs /\ Wild # Null
  /\ Null \notin Places
  /\ AliasedWalk \in BOOLEAN

VARIABLES at,      \* place -> the location its m_loc_ptr points to
          cnt,     \* location -> m_ref_cnt
          op,      \* thread -> the operator= it is inside of
          stack    \* thread -> the nested ~loc_c() calls, innermost first

vars == <<at, cnt, op, stack>>

NoOp == [pc |-> "idle", dst |-> Null, src |-> Null, new |-> Null]

OpType == {NoOp} \cup
          [pc : {"unref", "set"}, dst : Places, src : Places, new : Locs]

(* at, cnt, op and stack stay in the ranges the declarations in cclvar.h   *)
(* give m_loc_ptr, m_ref_cnt and the locals of operator=.                  *)
TypeOK ==
  /\ at \in [Places -> Locs \cup {Null, Wild}]
  /\ cnt \in [Locs -> Nat]
  /\ op \in [Threads -> OpType]
  /\ stack \in [Threads -> Seq(Locs)]

-----------------------------------------------------------------------------
(* Locations *)

Dying == {l \in Locs : \E t \in Threads : \E i \in 1 .. Len(stack[t]) :
                         stack[t][i] = l}
Free == {l \in Locs : cnt[l] = 0 /\ l \notin Dying}
Live(l) == cnt[l] > 0

-----------------------------------------------------------------------------
(* Places a thread can name, and the caller's side of the contract *)

Busy(t) == op[t].pc # "idle"
Idle(t) == ~Busy(t) /\ stack[t] = <<>>
Owned(t) == {h \in Handles : Owner[h] = t}

(* v and v[i] for the variables v of t *)
Refs(t) == Owned(t) \cup {p \in Elems : \E h \in Owned(t) : at[h] = p[1]}

(* The C++ object a place is part of: the container for an element. *)
Object(p) == IF p \in Elems THEN p[1] ELSE p

(* Callers serialise the use of one C++ object as they must for any        *)
(* standard container: nobody writes it while it is in use, nobody reads   *)
(* it while it is written.  Objects that merely SHARE locations are not    *)
(* covered: for them the counter is all the protection there is.           *)
MayRead(t, p) ==
  \A u \in Threads \ {t} : Busy(u) => Object(p) # Object(op[u].dst)
MayWrite(t, p) ==
  \A u \in Threads \ {t} :
    Busy(u) => Object(p) \notin {Object(op[u].dst), Object(op[u].src)}

(* A contract of the callers, not code: whoever assigns an element has     *)
(* another local variable that holds the element's container meanwhile.    *)
(* operator= would need less: that the container is not released by the    *)
(* assignment itself.                                                      *)
Kept(t, d, s) == s \in Elems => \E h \in Owned(t) \ {d} : at[h] = s[1]

-----------------------------------------------------------------------------
Init ==
  /\ at = [p \in Places |-> Null]
  /\ cnt = [l \in Locs |-> 0]
  /\ op = [t \in Threads |-> NoOp]
  /\ stack = [t \in Threads |-> <<>>]

(* loc_c::ref() *)
Ref(l) == cnt' = [cnt EXCEPT ![l] = @ + 1]

(* Mutant of Unref: deletes at one holder left instead of none. *)
UnrefEarly(t, l) ==
  /\ cnt' = [cnt EXCEPT ![l] = @ - 1]
  /\ stack' = IF cnt[l] <= 2 THEN [stack EXCEPT ![t] = <<l>> \o @] ELSE stack

(* loc_c::unref(): the thread whose decrement reaches zero deletes. *)
Unref(t, l) ==
  /\ cnt' = [cnt EXCEPT ![l] = @ - 1]
  /\ stack' = IF cnt[l] = 1 THEN [stack EXCEPT ![t] = <<l>> \o @] ELSE stack

(* A new value: a local variable, push_back of one, or the blank that      *)
(* operator[] puts behind a key the dictionary lacks.                      *)
Construct(t, p) ==
  /\ Idle(t) /\ p \in Refs(t) /\ at[p] = Null /\ MayWrite(t, p)
  /\ \E l \in Free : /\ at' = [at EXCEPT ![p] = l]
                     /\ cnt' = [cnt EXCEPT ![l] = 1]
  /\ UNCHANGED <<op, stack>>

(* Mutant of Intern: the map's copy does not count as a holder. *)
InternUncounted(t, h) ==
  /\ Idle(t) /\ h \in Owned(t) /\ at[h] = Null
  /\ \/ /\ at[Pool] # Null
        /\ at' = [at EXCEPT ![h] = at[Pool]]
        /\ Ref(at[Pool])
     \/ /\ at[Pool] = Null
        /\ \E l \in Free : /\ at' = [at EXCEPT ![h] = l, ![Pool] = l]
                           /\ cnt' = [cnt EXCEPT ![l] = 1]
  /\ UNCHANGED <<op, stack>>

(* var_c of a C literal: the pool keeps one holder of it for ever.        *)
Intern(t, h) ==
  /\ Idle(t) /\ h \in Owned(t) /\ at[h] = Null
  /\ \/ /\ at[Pool] # Null
        /\ at' = [at EXCEPT ![h] = at[Pool]]
        /\ Ref(at[Pool])
     \/ /\ at[Pool] = Null
        /\ \E l \in Free : /\ at' = [at EXCEPT ![h] = l, ![Pool] = l]
                           /\ cnt' = [cnt EXCEPT ![l] = 2]
  /\ UNCHANGED <<op, stack>>

(* Mutant of CopyConstruct: the pointer is copied, the counter is not. *)
CopyUncounted(t, p, s) ==
  /\ Idle(t) /\ p \in Refs(t) \cup Handles /\ at[p] = Null /\ MayWrite(t, p)
  /\ s \in Refs(t) /\ at[s] \in Locs /\ MayRead(t, s)
  /\ at' = [at EXCEPT ![p] = at[s]]
  /\ UNCHANGED <<cnt, op, stack>>

(* var_c(const var_c &): every insertion of a copy in a container, and the *)
(* argument a thread copies for another one before it hands it over.       *)
CopyConstruct(t, p, s) ==
  /\ Idle(t) /\ p \in Refs(t) \cup Handles /\ at[p] = Null /\ MayWrite(t, p)
  /\ s \in Refs(t) /\ at[s] \in Locs /\ MayRead(t, s)
  /\ at' = [at EXCEPT ![p] = at[s]]
  /\ Ref(at[s])
  /\ UNCHANGED <<op, stack>>

(* ~var_c(): a variable goes out of scope or an element is erased. *)
Destroy(t, p) ==
  /\ Idle(t) /\ p \in Refs(t) /\ at[p] \in Locs /\ MayWrite(t, p)
  /\ at' = [at EXCEPT ![p] = Null]
  /\ Unref(t, at[p])
  /\ UNCHANGED op

(* Mutant of AssignRef: operator= without its first statement. *)
AssignUnguarded(t, d, s) ==
  /\ Idle(t) /\ {d, s} \subseteq Refs(t) /\ {at[d], at[s]} \subseteq Locs
  /\ MayWrite(t, d) /\ MayRead(t, s)
  /\ AliasedWalk \/ Kept(t, d, s)
  /\ op' = [op EXCEPT ![t] = [pc |-> "unref", dst |-> d, src |-> s,
                              new |-> at[s]]]
  /\ UNCHANGED <<at, cnt, stack>>

(* operator=, first statement: a_var.m_loc_ptr->ref(). *)
AssignRef(t, d, s) ==
  /\ Idle(t) /\ {d, s} \subseteq Refs(t) /\ {at[d], at[s]} \subseteq Locs
  /\ MayWrite(t, d) /\ MayRead(t, s)
  /\ AliasedWalk \/ Kept(t, d, s)
  /\ Ref(at[s])
  /\ op' = [op EXCEPT ![t] = [pc |-> "unref", dst |-> d, src |-> s,
                              new |-> at[s]]]
  /\ UNCHANGED <<at, stack>>

(* operator=, second statement: m_loc_ptr->unref(), cascade included. *)
AssignUnref(t) ==
  /\ op[t].pc = "unref"
  /\ Unref(t, at[op[t].dst])
  /\ op' = [op EXCEPT ![t].pc = "set"]
  /\ UNCHANGED at

(* operator=, third statement: m_loc_ptr = a_var.m_loc_ptr, read AGAIN.    *)
(* When the element's container died in the second statement, the read is  *)
(* of deleted memory.                                                      *)
Readable(p) == p \in Elems => Live(p[1])

AssignSet(t) ==
  /\ op[t].pc = "set" /\ stack[t] = <<>>
  /\ at' = [at EXCEPT ![op[t].dst] =
              IF Readable(op[t].src) THEN at[op[t].src] ELSE Wild]
  /\ op' = [op EXCEPT ![t] = NoOp]
  /\ UNCHANGED <<cnt, stack>>

(* Mutant of DestroyElem: the elements' destructors do not unref. *)
DropElem(t) ==
  /\ stack[t] # <<>>
  /\ \E i \in Slots : LET p == <<Head(stack[t]), i>>
                      IN  at[p] \in Locs /\ at' = [at EXCEPT ![p] = Null]
  /\ UNCHANGED <<cnt, op, stack>>

(* Mutant of DestroyElem: the loop over the elements stops one short. *)
DestroyElemShort(t) ==
  /\ stack[t] # <<>>
  /\ \E i \in Slots : LET p == <<Head(stack[t]), i>>
                      IN  /\ \E j \in Slots : j > i
                          /\ at[p] \in Locs
                          /\ at' = [at EXCEPT ![p] = Null]
                          /\ Unref(t, at[p])
  /\ UNCHANGED op

(* ~loc_c(): deleting the container destroys its elements one by one; an   *)
(* element that was the last holder of its location is deleted before the  *)
(* next one.                                                               *)
DestroyElem(t) ==
  /\ stack[t] # <<>>
  /\ \E i \in Slots : LET p == <<Head(stack[t]), i>>
                      IN  /\ at[p] \in Locs
                          /\ at' = [at EXCEPT ![p] = Null]
                          /\ Unref(t, at[p])
  /\ UNCHANGED op

Delete(t) ==
  /\ stack[t] # <<>>
  /\ \A i \in Slots : at[<<Head(stack[t]), i>>] = Null
  /\ stack' = [stack EXCEPT ![t] = Tail(@)]
  /\ UNCHANGED <<at, cnt, op>>

Continue(t) == AssignUnref(t) \/ AssignSet(t) \/ DestroyElem(t) \/ Delete(t)

Call(t) ==
  \/ \E p \in Places : Construct(t, p)
  \/ \E h \in Handles : Intern(t, h)
  \/ \E p, s \in Places : CopyConstruct(t, p, s)
  \/ \E p \in Places : Destroy(t, p)
  \/ \E d, s \in Places : AssignRef(t, d, s)

Next == \E t \in Threads : Call(t) \/ Continue(t)

(* A thread inside a call keeps running it; it need not make another. *)
Fairness == \A t \in Threads : WF_vars(Continue(t))

Spec == Init /\ [][Next]_vars /\ Fairness

-----------------------------------------------------------------------------
(* The destination of an operator= between its second and third statement  *)
(* still shows the old pointer but no longer holds a reference.            *)
Released == {p \in Places : \E t \in Threads : op[t].pc = "set" /\ op[t].dst = p}

(* Who holds a reference on l: places, and threads inside operator=. *)
Holders(l) == {p \in Places : at[p] = l /\ p \notin Released}
              \cup {t \in Threads : op[t].new = l}

(* cclvar.h:101-102,162,172,174-180: the counter is exact.  However the    *)
(* threads interleave, m_ref_cnt is the number of references in existence: *)
(* never too low (premature delete) nor too high (leak).                   *)
RefExact == \A l \in Locs : cnt[l] = Cardinality(Holders(l))

(* cclvar.h:102: nobody can still reach what is deleted: every pointer     *)
(* that is held leads to a location with a positive counter.               *)
NoDangling ==
  /\ \A p \in Places \ Released : at[p] # Null => at[p] \in Locs /\ Live(at[p])
  /\ \A t \in Threads : Busy(t) => Live(op[t].new)

(* cclvar.h:102: a location is being deleted by one thread at most, once,  *)
(* and only after its counter reached zero.                                *)
DeletedOnce ==
  /\ \A t \in Threads : \A i \in 1 .. Len(stack[t]) : cnt[stack[t][i]] = 0
  /\ \A t, u \in Threads : \A i \in 1 .. Len(stack[t]), j \in 1 .. Len(stack[u]) :
       stack[t][i] = stack[u][j] => t = u /\ i = j

(* cclvar.h:176-178: the pointer operator= reads in its third statement is *)
(* the one it took a reference on in the first, in memory still allocated: *)
(* nothing the second statement deletes, and no other thread, moves it.    *)
SourceStable ==
  \A t \in Threads : Busy(t) => /\ Readable(op[t].src)
                                /\ at[op[t].src] = op[t].new

(* The locations some reference outside the heap leads to. *)
Rooted == {l \in Locs : \/ \E p \in Holders(l) : p \notin Elems
                        \/ \E p \in Holders(l) \cap Elems : ~Live(p[1])}
Points(l) == {m \in Locs : \E i \in Slots : at[<<l, i>>] = m}

(* The locations a chain of elements leads to from a rooted one: those in  *)
(* every set that has the rooted ones and is closed under Points.          *)
Closed(S) == Rooted \subseteq S /\ \A l \in S : Points(l) \subseteq S
Reachable == {l \in Locs : \A S \in SUBSET Locs : Closed(S) => l \in S}
Leaked == {l \in Locs : Live(l)} \ Reachable

(* cclvar.h:102: counting leaks cycles and nothing else: a set of live     *)
(* locations that no variable leads into holds itself alive, each member   *)
(* being an element of another member or of itself.                        *)
OnlyCyclesLeak == \A l \in Leaked : \E m \in Leaked : l \in Points(m)

(* cclvar.h:102, cclvar.cc:6-28: what reached zero is given back: every    *)
(* cascade ends, and with it the assignment that started it.               *)
CascadeEnds == \A t \in Threads : ~Idle(t) ~> Idle(t)

(* cclvar.cc:166-183: a literal is one location for the life of the        *)
(* program: no release, by any thread and in any cascade, ever brings its  *)
(* counter to zero.                                                        *)
LiteralStays == [][at[Pool] # Null => cnt'[at[Pool]] > 0]_vars
=============================================================================
