---------------------------- MODULE CclPidProof ----------------------------
(***************************************************************************)
(* Proofs about CclPid for any number of objects, identifiers and children,*)
(* however the kernel hands identifiers out again and whatever the caller  *)
(* does: objects that are through are used again, children are polled,     *)
(* objects are moved over others that own a child, and handlers interrupt  *)
(* waitpid.                                                                *)
(***************************************************************************)
EXTENDS CclPid, FiniteSetTheorems, TLAPS

Holds(o) == pid[o] \in Pids

(* The identifier in o still means the process o was given. *)
Sound(o) == Exists(pid[o]) /\ own[o] \in Serials /\ table[pid[o]].of = own[o]

(* An object with an identifier holds the very process it was given, which *)
(* runs or is a zombie, unless that process was waited for and the         *)
(* identifier stayed.                                                      *)
HoldsOwn ==
  \A o \in Objs : IF Holds(o) THEN Sound(o) \/ own[o] \in slips
                            ELSE own[o] = 0

(* No two objects were given the same process, and none of a later one.    *)
SerialsOnce ==
  /\ \A o \in Objs : own[o] <= forks
  /\ \A o, s \in Objs : own[o] # 0 /\ own[o] = own[s] => o = s
  /\ \A p \in Pids : IsChild(p) => table[p].of <= forks

(* Every child not waited for has an object, or had one that let go of it. *)
ChildHeld ==
  \A p \in Pids : IsChild(p) =>
    \/ \E o \in Objs : pid[o] = p /\ own[o] = table[p].of
    \/ table[p].of \in lost

-----------------------------------------------------------------------------
(* What the steps of the program do to the objects *)

Keeps(o) == pid'[o] = pid[o] /\ own'[o] = own[o]
Drops(o) == pid'[o] \in {-1, Gone} /\ own'[o] = 0

(* At most one process o waits for is reaped; the history has it if it is  *)
(* not the one o was given, or if o keeps the identifier.                  *)
TakesOne(o) ==
  \/ UNCHANGED table
  \/ \E p \in Ended(pid[o]) :
       /\ table' = Reaped(p)
       /\ Keeps(o) \/ table[p].of # own[o] => table[p].of \in slips'

(* The history has the process o was given if o no longer holds it and it  *)
(* was not waited for.                                                     *)
LeavesNoChild(o) ==
  \A p \in Pids : pid[o] = p /\ own[o] = table[p].of /\ IsChild(p)' =>
    Keeps(o) \/ own[o] \in lost'

(* One object keeps what it has or lets go of it. *)
ObjectStep(o) ==
  /\ pid' = [pid EXCEPT ![o] = pid'[o]] /\ own' = [own EXCEPT ![o] = own'[o]]
  /\ Keeps(o) \/ Drops(o)
  /\ TakesOne(o) /\ LeavesNoChild(o)
  /\ forks' = forks
  /\ slips \subseteq slips' /\ lost \subseteq lost'

(* The kernel ends a child or starts and ends a process of someone else.   *)
KernelStep ==
  /\ UNCHANGED <<forks, pid, own, call, status, history>>
  /\ table' \in [Pids -> [st : {"free", "running", "zombie"}, of : 0 .. Stranger]]
  /\ \A p \in Pids : /\ IsChild(p)' <=> IsChild(p)
                     /\ IsChild(p) => table'[p].of = table[p].of

-----------------------------------------------------------------------------
USE DEF history

(* A call that is running has an object. *)
LEMMA CallRunning ==
  ASSUME TypeOK, call.at \in {"kill", "reap"}
  PROVE  /\ call # Idle
         /\ call \in [at : {"kill", "reap"}, obj : Objs,
                      by : {"destroy", "terminate", "wait"}]
<1>1. call # Idle
  <2>1. Idle.at = "idle"
    BY DEF Idle
  <2>2. QED  BY <2>1
<1>2. QED  BY <1>1 DEF TypeOK, CallType

(* waitpid on the identifier an object holds is about that process alone.  *)
LEMMA WaitedOwn ==
  ASSUME NEW o \in Objs, Holds(o)
  PROVE  /\ pid[o] # -1 /\ pid[o] # Gone
         /\ Waited(pid[o]) \subseteq {pid[o]}
         /\ IsChild(pid[o]) => Waited(pid[o]) = {pid[o]}
         /\ \A p \in Ended(pid[o]) : p = pid[o] /\ IsChild(p)
  BY PidAssumption DEF Waited, Ended, Holds, Gone

(* A child waitpid finds is one of the program's. *)
LEMMA EndedFacts ==
  ASSUME NEW n, NEW p \in Ended(n)
  PROVE  p \in Pids /\ p \in Waited(n) /\ IsChild(p) /\ table[p].of \in Serials
  BY DEF Ended, Waited, IsChild

(* What waitpid takes out of the table. *)
LEMMA ReapedFacts ==
  ASSUME TypeOK, NEW p \in Pids, table' = Reaped(p)
  PROVE  /\ table' \in [Pids -> [st : {"free", "running", "zombie"}, of : 0 .. Stranger]]
         /\ ~IsChild(p)'
         /\ \A q \in Pids \ {p} : table'[q] = table[q]
  BY PidAssumption DEF TypeOK, Reaped, Stranger, IsChild, Exists

(* The wait of o takes one process, and the history has a foreign one. *)
LEMMA TakesFacts ==
  ASSUME TypeOK, NEW o \in Objs, NEW p \in Ended(pid[o]), Takes(o, p)
  PROVE  /\ table' \in [Pids -> [st : {"free", "running", "zombie"}, of : 0 .. Stranger]]
         /\ slips \subseteq slips' /\ slips' \subseteq Serials
         /\ Drops(o) => TakesOne(o)
         /\ LeavesNoChild(o)
<1>1. p \in Pids /\ table' = Reaped(p) /\ table[p].of \in Serials
  BY EndedFacts DEF Takes
<1>2. slips' = slips \cup ({table[p].of} \ {own[o]})
  BY DEF Takes
<1>3. table' \in [Pids -> [st : {"free", "running", "zombie"}, of : 0 .. Stranger]]
  BY <1>1, ReapedFacts
<1>4. Drops(o) => TakesOne(o)
  <2>1. ASSUME Drops(o), Keeps(o)
        PROVE  own[o] = 0
    BY <2>1 DEF Drops, Keeps
  <2>2. table[p].of # 0
    BY <1>1 DEF Serials
  <2>3. QED  BY <1>1, <1>2, <2>1, <2>2 DEF TakesOne
<1>5. LeavesNoChild(o)
  <2> SUFFICES ASSUME NEW q \in Pids, pid[o] = q
               PROVE  ~IsChild(q)'
    BY DEF LeavesNoChild
  <2>1. q = p
    BY WaitedOwn DEF Holds
  <2>2. QED  BY <1>1, <2>1, ReapedFacts
<1>6. QED  BY <1>1, <1>2, <1>3, <1>4, <1>5 DEF TypeOK

(* What o lets go of is in the history if it was there. *)
LEMMA LetsGoFacts ==
  ASSUME TypeOK, NEW o \in Objs, LetsGo(o)
  PROVE  /\ lost \subseteq lost' /\ lost' \subseteq Serials
         /\ UNCHANGED table => LeavesNoChild(o)
<1>1. \A p \in Waited(pid[o]) : table[p].of \in Serials
  BY DEF Waited, IsChild
<1>2. lost \subseteq lost' /\ lost' \subseteq Serials
  BY <1>1 DEF LetsGo, TypeOK
<1>3. ASSUME UNCHANGED table
      PROVE  LeavesNoChild(o)
  <2> SUFFICES ASSUME NEW p \in Pids, pid[o] = p, own[o] = table[p].of, IsChild(p)'
               PROVE  own[o] \in lost'
    BY DEF LeavesNoChild
  <2>1. p \in Waited(pid[o])
    BY <1>3 DEF Waited, IsChild, Exists
  <2>2. QED  BY <2>1 DEF LetsGo
<1>4. QED  BY <1>2, <1>3

(* What Forget does to the objects. *)
LEMMA ForgetFacts ==
  ASSUME TypeOK, NEW o \in Objs, NEW n \in {-1, Gone}, Forget(o, n)
  PROVE  /\ pid' \in [Objs -> Pids \cup {-1, Gone}] /\ own' \in [Objs -> 0 .. MaxForks]
         /\ pid' = [pid EXCEPT ![o] = pid'[o]] /\ own' = [own EXCEPT ![o] = own'[o]]
         /\ Drops(o)
<1>1. pid'[o] = n /\ own'[o] = 0
  BY DEF TypeOK, Forget
<1>2. pid' = [pid EXCEPT ![o] = pid'[o]] /\ own' = [own EXCEPT ![o] = own'[o]]
  BY <1>1 DEF Forget
<1>3. 0 \in 0 .. MaxForks
  BY PidAssumption
<1>4. QED  BY <1>1, <1>2, <1>3 DEF TypeOK, Forget, Drops

(* What leaving the objects alone does to them. *)
LEMMA SameFacts ==
  ASSUME TypeOK, NEW o \in Objs, UNCHANGED <<pid, own>>
  PROVE  /\ pid' \in [Objs -> Pids \cup {-1, Gone}] /\ own' \in [Objs -> 0 .. MaxForks]
         /\ pid' = [pid EXCEPT ![o] = pid'[o]] /\ own' = [own EXCEPT ![o] = own'[o]]
         /\ Keeps(o) /\ LeavesNoChild(o)
  BY DEF TypeOK, Keeps, LeavesNoChild

(* What wait() returns names a process of the program. *)
LEMMA StoreFacts ==
  ASSUME TypeOK, NEW o \in Objs, NEW s \in 0 .. MaxForks, Store(o, s)
  PROVE  status' \in [of : 0 .. MaxForks, stored : 0 .. MaxForks]
  BY DEF TypeOK, Store

-----------------------------------------------------------------------------
(* Each operation is a step of that kind. *)

(* cclsys.cc:147-163 *)
LEMMA DestroySteps ==
  ASSUME TypeOK, NEW o \in Objs, Destroy(o)
  PROVE  TypeOK' /\ ObjectStep(o)
<1>1. /\ Gone \in {-1, Gone} /\ -1 \notin Pids /\ lost' = lost
      /\ UNCHANGED <<forks, status, lost>>
  BY PidAssumption DEF Destroy
<1>2. CASE pid[o] = -1 /\ Forget(o, Gone) /\ UNCHANGED <<table, call, slips>>
  <2>1. TypeOK'
    BY <1>1, <1>2, ForgetFacts DEF TypeOK
  <2>2. LeavesNoChild(o)
    BY <1>1, <1>2 DEF LeavesNoChild
  <2>3. QED  BY <1>1, <1>2, <2>1, <2>2, ForgetFacts DEF ObjectStep, TakesOne
<1>3. CASE /\ pid[o] # -1
           /\ \E p \in Ended(pid[o]) : Takes(o, p)
           /\ Forget(o, Gone) /\ UNCHANGED call
  <2>1. TypeOK'
    BY <1>1, <1>3, ForgetFacts, TakesFacts DEF TypeOK
  <2>2. QED  BY <1>1, <1>3, <2>1, ForgetFacts, TakesFacts DEF ObjectStep
<1>4. CASE /\ pid[o] # -1 /\ ReapsNone(pid[o])
           /\ call' = [at |-> "kill", obj |-> o, by |-> "destroy"]
           /\ UNCHANGED <<pid, own, slips>>
  <2>1. call' \in CallType /\ UNCHANGED table
    BY <1>4 DEF CallType, ReapsNone
  <2>2. TypeOK'
    BY <1>1, <1>4, <2>1 DEF TypeOK
  <2>3. QED  BY <1>1, <1>4, <2>1, <2>2, SameFacts DEF ObjectStep, TakesOne
<1>5. QED  BY <1>2, <1>3, <1>4 DEF Destroy

(* cclsys.cc:165-182 *)
LEMMA TerminateSteps ==
  ASSUME TypeOK, NEW o \in Objs, Terminate(o)
  PROVE  TypeOK' /\ ObjectStep(o)
<1>1. UNCHANGED <<forks, pid, own, status, lost>>
  BY DEF Terminate
<1>2. ASSUME NEW p \in Ended(pid[o]), table' = Reaped(p),
             slips' = slips \cup {table[p].of}, UNCHANGED call
      PROVE  TypeOK' /\ ObjectStep(o)
  <2>1. p \in Pids /\ table[p].of \in Serials
    BY <1>2, EndedFacts
  <2>2. TypeOK'
    BY <1>1, <1>2, <2>1, ReapedFacts DEF TypeOK
  <2>3. TakesOne(o)
    BY <1>2 DEF TakesOne
  <2>4. QED  BY <1>1, <1>2, <2>2, <2>3, SameFacts DEF ObjectStep
<1>3. CASE /\ ReapsNone(pid[o])
           /\ call' = [at |-> "kill", obj |-> o, by |-> "terminate"]
           /\ UNCHANGED slips
  <2>1. call' \in CallType /\ UNCHANGED table
    BY <1>3 DEF CallType, ReapsNone
  <2>2. TypeOK'
    BY <1>1, <1>3, <2>1 DEF TypeOK
  <2>3. QED  BY <1>1, <1>3, <2>1, <2>2, SameFacts DEF ObjectStep, TakesOne
<1>4. QED  BY <1>2, <1>3 DEF Terminate

(* cclsys.cc:184-193 *)
LEMMA WaitSteps ==
  ASSUME TypeOK, NEW o \in Objs, Wait(o)
  PROVE  TypeOK' /\ ObjectStep(o)
<1>1. UNCHANGED forks /\ 0 \in 0 .. MaxForks
  BY PidAssumption DEF Wait
<1>2. ASSUME Return(o, "wait")
      PROVE  Forget(o, -1) /\ call' \in CallType
  BY <1>2 DEF Return, CallType
<1>3. CASE /\ \E p \in Ended(pid[o]) : Takes(o, p) /\ Store(o, table[p].of)
           /\ Return(o, "wait")
           /\ UNCHANGED lost
  <2>1. PICK p \in Ended(pid[o]) : Takes(o, p) /\ Store(o, table[p].of)
    BY <1>3
  <2>2. status' \in [of : 0 .. MaxForks, stored : 0 .. MaxForks]
    BY <2>1, EndedFacts, StoreFacts DEF Serials
  <2>3. TypeOK'
    BY <1>1, <1>2, <1>3, <2>1, <2>2, ForgetFacts, TakesFacts DEF TypeOK
  <2>4. QED  BY <1>1, <1>2, <1>3, <2>1, <2>3, ForgetFacts, TakesFacts DEF ObjectStep
<1>4. CASE /\ ReapsNone(pid[o]) /\ Store(o, 0)
           /\ Return(o, "wait") /\ LetsGo(o)
           /\ UNCHANGED slips
  <2>1. UNCHANGED table
    BY <1>4 DEF ReapsNone
  <2>2. TypeOK'
    BY <1>1, <1>2, <1>4, <2>1, StoreFacts, ForgetFacts, LetsGoFacts DEF TypeOK
  <2>3. QED
    BY <1>1, <1>2, <1>4, <2>1, <2>2, ForgetFacts, LetsGoFacts DEF ObjectStep, TakesOne
<1>5. CASE /\ ReapsNone(pid[o]) /\ Waited(pid[o]) # {}
           /\ call' = [at |-> "reap", obj |-> o, by |-> "wait"]
           /\ UNCHANGED <<pid, own, status, history>>
  <2>1. call' \in CallType /\ UNCHANGED table
    BY <1>5 DEF CallType, ReapsNone
  <2>2. TypeOK'
    BY <1>1, <1>5, <2>1 DEF TypeOK
  <2>3. QED  BY <1>1, <1>5, <2>1, <2>2, SameFacts DEF ObjectStep, TakesOne
<1>6. QED  BY <1>3, <1>4, <1>5 DEF Wait

(* cclsys.cc:155-157,172-175: a kill() that fails had no child to reach. *)
LEMMA KillSteps ==
  ASSUME TypeOK, Kill
  PROVE  call.obj \in Objs /\ TypeOK' /\ ObjectStep(call.obj)
<1> DEFINE o == call.obj
<1>1. /\ o \in Objs /\ UNCHANGED <<table, forks, status, history>>
      /\ call \in [at : {"kill", "reap"}, obj : Objs,
                   by : {"destroy", "terminate", "wait"}]
      /\ call.at = "kill"
  BY CallRunning DEF Kill
<1>2. CASE call' = [call EXCEPT !.at = "reap"] /\ UNCHANGED <<pid, own>>
  <2>1. call' \in CallType
    BY <1>1, <1>2 DEF CallType
  <2>2. TypeOK'
    BY <1>1, <1>2, <2>1 DEF TypeOK
  <2>3. QED  BY <1>1, <1>2, <2>2, SameFacts DEF ObjectStep, TakesOne
<1>3. CASE /\ Waited(pid[o]) = {} /\ Forget(o, Gone) /\ call' = Idle
  <2>1. call' \in CallType /\ Gone \in {-1, Gone}
    BY <1>3 DEF CallType
  <2>2. TypeOK'
    BY <1>1, <1>3, <2>1, ForgetFacts DEF TypeOK
  <2>3. LeavesNoChild(o)
    <3> SUFFICES ASSUME NEW p \in Pids, pid[o] = p
                 PROVE  ~IsChild(p)'
      BY DEF LeavesNoChild
    <3>1. ~IsChild(p)
      BY <1>3 DEF Waited
    <3>2. QED  BY <1>1, <3>1 DEF IsChild, Exists
  <2>4. QED  BY <1>1, <1>3, <2>1, <2>2, <2>3, ForgetFacts DEF ObjectStep, TakesOne
<1>4. CASE call' = Idle /\ UNCHANGED <<pid, own>>
  <2>1. call' \in CallType
    BY <1>4 DEF CallType
  <2>2. TypeOK'
    BY <1>1, <1>4, <2>1 DEF TypeOK
  <2>3. QED  BY <1>1, <1>4, <2>2, SameFacts DEF ObjectStep, TakesOne
<1>5. QED  BY <1>2, <1>3, <1>4 DEF Kill

(* cclsys.cc:157,175,190: the waitpid that blocks returns. *)
LEMMA ReapSteps ==
  ASSUME TypeOK, Reap
  PROVE  call.obj \in Objs /\ TypeOK' /\ ObjectStep(call.obj)
<1> DEFINE o == call.obj
<1>1. o \in Objs /\ UNCHANGED forks /\ 0 \in 0 .. MaxForks
  BY CallRunning, PidAssumption DEF Reap
<1>2. PICK n \in {-1, Gone} : Forget(o, n) /\ call' = Idle
  BY DEF Reap, Return
<1>3. call' \in CallType
  BY <1>2 DEF CallType
<1>4. ASSUME NEW p \in Ended(pid[o]), Takes(o, p), UNCHANGED lost,
             IF call.by = "wait" THEN Store(o, table[p].of) ELSE UNCHANGED status
      PROVE  TypeOK' /\ ObjectStep(o)
  <2>1. status' \in [of : 0 .. MaxForks, stored : 0 .. MaxForks]
    BY <1>1, <1>4, EndedFacts, StoreFacts DEF Serials, TypeOK
  <2>2. TypeOK'
    BY <1>1, <1>2, <1>3, <1>4, <2>1, ForgetFacts, TakesFacts DEF TypeOK
  <2>3. QED  BY <1>1, <1>2, <1>4, <2>2, ForgetFacts, TakesFacts DEF ObjectStep
<1>5. CASE /\ ReapsNone(pid[o]) /\ LetsGo(o) /\ UNCHANGED slips
           /\ IF call.by = "wait" THEN Store(o, 0) ELSE UNCHANGED status
  <2>1. status' \in [of : 0 .. MaxForks, stored : 0 .. MaxForks]
    BY <1>1, <1>5, StoreFacts DEF TypeOK
  <2>2. UNCHANGED table
    BY <1>5 DEF ReapsNone
  <2>3. TypeOK'
    BY <1>1, <1>2, <1>3, <1>5, <2>1, <2>2, ForgetFacts, LetsGoFacts DEF TypeOK
  <2>4. QED
    BY <1>1, <1>2, <1>5, <2>2, <2>3, ForgetFacts, LetsGoFacts DEF ObjectStep, TakesOne
<1>6. QED  BY <1>1, <1>4, <1>5 DEF Reap

(* The kernel takes no child away and turns nothing into one. *)
LEMMA KernelSteps ==
  ASSUME TypeOK, NEW p \in Pids, Exit(p) \/ StrangerStarts(p) \/ StrangerEnds(p)
  PROVE  TypeOK' /\ KernelStep
<1>1. table \in [Pids -> [st : {"free", "running", "zombie"}, of : 0 .. Stranger]]
  BY DEF TypeOK
<1>2. Stranger \notin Serials /\ Stranger \in 0 .. Stranger /\ 0 \in 0 .. Stranger
  BY PidAssumption DEF Stranger, Serials
<1>3. UNCHANGED <<forks, pid, own, call, status, history>>
  BY DEF Exit, StrangerStarts, StrangerEnds
<1>4. KernelStep
  <2>1. CASE Exit(p)
    BY <1>1, <1>3, <2>1 DEF Exit, IsChild, Exists, KernelStep
  <2>2. CASE StrangerStarts(p)
    BY <1>1, <1>2, <1>3, <2>2 DEF StrangerStarts, Offered, IsChild, Exists, KernelStep
  <2>3. CASE StrangerEnds(p)
    BY <1>1, <1>2, <1>3, <2>3 DEF StrangerEnds, IsChild, Exists, KernelStep
  <2>4. QED  BY <2>1, <2>2, <2>3
<1>5. QED  BY <1>4 DEF KernelStep, TypeOK

(* fork() gives a free identifier to a child with a serial of its own. *)
LEMMA NewSteps ==
  ASSUME TypeOK, NEW o \in Objs, New(o)
  PROVE  /\ TypeOK' /\ UNCHANGED <<call, status, history>>
         /\ forks' = forks + 1 /\ forks + 1 \in Serials /\ forks \in Nat
         /\ pid[o] = Gone
         /\ \E p \in Pids :
              /\ table[p].st = "free"
              /\ pid' = [q \in Objs |-> IF q = o THEN p ELSE pid[q]]
              /\ own' = [q \in Objs |-> IF q = o THEN forks + 1 ELSE own[q]]
              /\ table' = [q \in Pids |-> IF q = p
                             THEN [st |-> "running", of |-> forks + 1] ELSE table[q]]
<1>1. PICK p \in Pids : /\ table[p].st = "free"
                        /\ table' = [table EXCEPT ![p] = [st |-> "running",
                                                          of |-> forks + 1]]
                        /\ pid' = [pid EXCEPT ![o] = p]
  BY DEF New, Offered
<1>2. /\ call = Idle /\ pid[o] = Gone /\ forks < MaxForks /\ forks' = forks + 1
      /\ own' = [own EXCEPT ![o] = forks + 1] /\ UNCHANGED <<call, status, history>>
  BY DEF New, Alive
<1>3. forks \in Nat /\ MaxForks \in Nat /\ forks + 1 \in Serials
      /\ forks + 1 \in 0 .. MaxForks /\ forks + 1 \in 0 .. Stranger
  BY <1>2, PidAssumption DEF TypeOK, Serials, Stranger
<1>4. TypeOK'
  BY <1>1, <1>2, <1>3 DEF TypeOK
<1>5. /\ pid' = [q \in Objs |-> IF q = o THEN p ELSE pid[q]]
      /\ own' = [q \in Objs |-> IF q = o THEN forks + 1 ELSE own[q]]
  BY <1>1, <1>2 DEF TypeOK
<1>6. table' = [q \in Pids |-> IF q = p THEN [st |-> "running", of |-> forks + 1]
                                        ELSE table[q]]
  BY <1>1 DEF TypeOK
<1>7. QED  BY <1>1, <1>2, <1>3, <1>4, <1>5, <1>6

(* A move: identifier and claim change hands together. *)
LEMMA MoveSteps ==
  ASSUME TypeOK, NEW o \in Objs, NEW s \in Objs, MoveConstruct(o, s) \/ MoveAssign(o, s)
  PROVE  /\ TypeOK' /\ call = Idle /\ UNCHANGED <<table, forks, call, status, slips>>
         /\ lost \subseteq lost'
         /\ \A p \in Pids : pid[o] = p /\ own[o] = table[p].of /\ IsChild(p) =>
              own[o] \in lost'
         /\ pid' = [q \in Objs |-> IF q = s THEN -1 ELSE IF q = o THEN pid[s] ELSE pid[q]]
         /\ own' = [q \in Objs |-> IF q = s THEN 0 ELSE IF q = o THEN own[s] ELSE own[q]]
<1>1. Move(o, s) /\ call = Idle /\ UNCHANGED <<table, forks, call, status, slips>>
  BY DEF MoveConstruct, MoveAssign, Ready
<1>2. lost \subseteq lost' /\ lost' \subseteq Serials
  BY LetsGoFacts DEF MoveConstruct, MoveAssign, TypeOK
<1>3. ASSUME NEW p \in Pids, pid[o] = p, own[o] = table[p].of, IsChild(p)
      PROVE  own[o] \in lost'
  <2>1. pid[o] # Gone /\ p \in Waited(pid[o])
    BY <1>3, PidAssumption DEF Gone, Waited
  <2>2. LetsGo(o)
    BY <2>1 DEF MoveConstruct, MoveAssign, Alive
  <2>3. QED  BY <1>3, <2>1, <2>2 DEF LetsGo
<1>4. /\ pid' = [q \in Objs |-> IF q = s THEN -1 ELSE IF q = o THEN pid[s] ELSE pid[q]]
      /\ own' = [q \in Objs |-> IF q = s THEN 0 ELSE IF q = o THEN own[s] ELSE own[q]]
  BY <1>1 DEF Move, TypeOK
<1>5. TypeOK'
  BY <1>1, <1>2, <1>4, PidAssumption DEF TypeOK
<1>6. QED  BY <1>1, <1>2, <1>3, <1>4, <1>5

(* Every step of the program is one of these. *)
LEMMA Steps ==
  ASSUME TypeOK, Next
  PROVE  \/ KernelStep
         \/ \E o \in Objs : New(o)
         \/ \E o, s \in Objs : MoveConstruct(o, s) \/ MoveAssign(o, s)
         \/ \E o \in Objs : ObjectStep(o)
<1>1. ASSUME NEW p \in Pids, Exit(p) \/ StrangerStarts(p) \/ StrangerEnds(p)
      PROVE  KernelStep
  BY <1>1, KernelSteps
<1>2. CASE Kill \/ Reap
  BY <1>2, KillSteps, ReapSteps
<1>3. ASSUME NEW o \in Objs, Destroy(o) \/ Terminate(o) \/ Wait(o)
      PROVE  ObjectStep(o)
  BY <1>3, DestroySteps, TerminateSteps, WaitSteps
<1>4. QED  BY <1>1, <1>2, <1>3 DEF Next

-----------------------------------------------------------------------------
(* Types and serials *)

LEMMA TypeNext == TypeOK /\ [Next]_vars => TypeOK'
<1> SUFFICES ASSUME TypeOK, [Next]_vars
             PROVE  TypeOK'
  OBVIOUS
<1>1. CASE UNCHANGED vars
  BY <1>1 DEF vars, TypeOK
<1>2. CASE Next
  <2>1. ASSUME NEW p \in Pids, Exit(p) \/ StrangerStarts(p) \/ StrangerEnds(p)
        PROVE  TypeOK'
    BY <2>1, KernelSteps
  <2>2. ASSUME NEW o \in Objs, New(o) \/ Destroy(o) \/ Terminate(o) \/ Wait(o)
        PROVE  TypeOK'
    BY <2>2, NewSteps, DestroySteps, TerminateSteps, WaitSteps
  <2>3. ASSUME NEW o \in Objs, NEW s \in Objs, MoveConstruct(o, s) \/ MoveAssign(o, s)
        PROVE  TypeOK'
    BY <2>3, MoveSteps
  <2>4. QED  BY <1>2, <2>1, <2>2, <2>3, KillSteps, ReapSteps DEF Next
<1>3. QED  BY <1>1, <1>2

(* m_pid is -1 or an identifier, whatever the caller does with the object. *)
THEOREM PidTypeCorrect == Spec => []TypeOK
<1>1. Init => TypeOK
  <2> SUFFICES ASSUME Init
               PROVE  TypeOK
    OBVIOUS
  <2>1. call \in CallType
    BY DEF Init, CallType
  <2>2. MaxForks \in Nat /\ 0 \in 0 .. Stranger /\ 0 \in 0 .. MaxForks
    BY PidAssumption DEF Stranger
  <2>3. QED  BY <2>1, <2>2 DEF Init, TypeOK, Gone
<1>2. QED  BY <1>1, TypeNext, PTL DEF Spec

(* A step of one object adds no child and no claim. *)
LEMMA ObjectStepFacts ==
  ASSUME TypeOK, NEW o \in Objs, ObjectStep(o)
  PROVE  /\ \A q \in Objs \ {o} : pid'[q] = pid[q] /\ own'[q] = own[q]
         /\ \A p \in Pids : IsChild(p)' => IsChild(p) /\ table'[p] = table[p]
<1>1. \A q \in Objs \ {o} : pid'[q] = pid[q] /\ own'[q] = own[q]
  <2>1. DOMAIN pid = Objs /\ DOMAIN own = Objs
    BY DEF TypeOK
  <2>2. QED  BY <2>1 DEF ObjectStep
<1>2. ASSUME NEW p \in Pids, IsChild(p)'
      PROVE  IsChild(p) /\ table'[p] = table[p]
  <2>1. CASE UNCHANGED table
    BY <1>2, <2>1 DEF IsChild, Exists
  <2>2. ASSUME NEW q \in Ended(pid[o]), table' = Reaped(q)
        PROVE  IsChild(p) /\ table'[p] = table[p]
    <3>1. q \in Pids
      BY DEF Ended, Waited
    <3>2. p # q
      BY <1>2, <2>2, <3>1, ReapedFacts
    <3>3. table'[p] = table[p]
      BY <2>2, <3>1, <3>2, ReapedFacts
    <3>4. QED  BY <1>2, <3>3 DEF IsChild, Exists
  <2>3. QED  BY <2>1, <2>2 DEF ObjectStep, TakesOne
<1>3. QED  BY <1>1, <1>2

LEMMA SerialsNext == TypeOK /\ SerialsOnce /\ [Next]_vars => SerialsOnce'
<1> SUFFICES ASSUME TypeOK, SerialsOnce, [Next]_vars
             PROVE  SerialsOnce'
  OBVIOUS
<1>1. forks \in Int /\ \A o \in Objs : own[o] \in Int
  BY DEF TypeOK
<1>2. CASE UNCHANGED vars
  BY <1>2 DEF vars, SerialsOnce, IsChild, Exists
<1>3. CASE KernelStep
  BY <1>3 DEF KernelStep, SerialsOnce
<1>4. ASSUME NEW o \in Objs, New(o)
      PROVE  SerialsOnce'
  <2>1. PICK p \in Pids :
          /\ own' = [q \in Objs |-> IF q = o THEN forks + 1 ELSE own[q]]
          /\ table' = [q \in Pids |-> IF q = p
                         THEN [st |-> "running", of |-> forks + 1] ELSE table[q]]
    BY <1>4, NewSteps
  <2>2. forks' = forks + 1
    BY <1>4, NewSteps
  <2>3. \A q \in Objs : own'[q] <= forks'
    BY <1>1, <2>1, <2>2 DEF SerialsOnce
  <2>4. ASSUME NEW q \in Objs, NEW s \in Objs, own'[q] # 0, own'[q] = own'[s]
        PROVE  q = s
    <3>1. own[q] # forks + 1 /\ own[s] # forks + 1
      BY <1>1 DEF SerialsOnce
    <3>2. QED  BY <2>1, <2>4, <3>1 DEF SerialsOnce
  <2>5. ASSUME NEW r \in Pids, IsChild(r)'
        PROVE  table'[r].of <= forks'
    <3>1. CASE r = p
      BY <1>1, <2>1, <2>2, <3>1
    <3>2. CASE r # p
      <4>1. table'[r] = table[r]
        BY <2>1, <3>2
      <4>2. IsChild(r) /\ table[r].of \in Int
        BY <2>5, <4>1 DEF IsChild, Exists, Serials
      <4>3. QED  BY <1>1, <2>2, <4>1, <4>2 DEF SerialsOnce
    <3>3. QED  BY <3>1, <3>2
  <2>6. QED  BY <2>3, <2>4, <2>5 DEF SerialsOnce
<1>5. ASSUME NEW o \in Objs, NEW s \in Objs, MoveConstruct(o, s) \/ MoveAssign(o, s)
      PROVE  SerialsOnce'
  <2>1. own' = [q \in Objs |-> IF q = s THEN 0 ELSE IF q = o THEN own[s] ELSE own[q]]
        /\ forks' = forks /\ table' = table
    BY <1>5, MoveSteps
  <2>2. 0 <= forks
    BY DEF TypeOK
  <2>3. QED  BY <1>1, <2>1, <2>2 DEF SerialsOnce, IsChild, Exists
<1>6. ASSUME NEW o \in Objs, ObjectStep(o)
      PROVE  SerialsOnce'
  <2>1. forks' = forks /\ own'[o] \in {own[o], 0} /\ 0 <= forks
    BY <1>6 DEF ObjectStep, Keeps, Drops, TypeOK
  <2>2. \A q \in Objs : own'[q] \in {own[q], 0}
    BY <1>6, <2>1, ObjectStepFacts
  <2>3. QED  BY <1>1, <1>6, <2>1, <2>2, ObjectStepFacts DEF SerialsOnce
<1>7. QED  BY <1>2, <1>3, <1>4, <1>5, <1>6, Steps

LEMMA SerialsInvariance == Spec => [](TypeOK /\ SerialsOnce)
<1>1. Init => SerialsOnce
  BY DEF Init, SerialsOnce, IsChild, Exists
<1>2. QED  BY <1>1, PidTypeCorrect, SerialsNext, PTL DEF Spec

-----------------------------------------------------------------------------
(* The processes objects hold *)

LEMMA HoldsOwnNext ==
  ASSUME TypeOK, SerialsOnce, HoldsOwn, [Next]_vars
  PROVE  HoldsOwn'
<1> DEFINE Right(q) == IF pid'[q] \in Pids
                       THEN \/ /\ table'[pid'[q]].st \in {"running", "zombie"}
                               /\ own'[q] \in Serials
                               /\ table'[pid'[q]].of = own'[q]
                            \/ own'[q] \in slips'
                       ELSE own'[q] = 0
<1>0. (\A q \in Objs : Right(q)) => HoldsOwn'
  BY DEF HoldsOwn, Holds, Sound, Exists
<1>1. CASE UNCHANGED vars
  BY <1>1 DEF vars, HoldsOwn, Holds, Sound, Exists
<1>2. CASE KernelStep
  <2> SUFFICES ASSUME NEW o \in Objs
               PROVE  Right(o)
    BY <1>0
  <2>1. UNCHANGED <<pid, own, slips>>
    BY <1>2 DEF KernelStep
  <2>2. CASE Holds(o) /\ Sound(o)
    <3>1. IsChild(pid[o]) /\ pid[o] \in Pids
      BY <2>2 DEF Sound, IsChild, Holds
    <3>2. Exists(pid[o])' /\ table'[pid[o]].of = table[pid[o]].of
      BY <1>2, <3>1 DEF KernelStep, IsChild, Exists
    <3>3. QED  BY <2>1, <2>2, <3>1, <3>2 DEF Sound, Exists
  <2>3. QED  BY <2>1, <2>2 DEF HoldsOwn, Holds
<1>3. ASSUME NEW o \in Objs, New(o)
      PROVE  HoldsOwn'
  <2>1. PICK p \in Pids :
          /\ table[p].st = "free"
          /\ pid' = [q \in Objs |-> IF q = o THEN p ELSE pid[q]]
          /\ own' = [q \in Objs |-> IF q = o THEN forks + 1 ELSE own[q]]
          /\ table' = [q \in Pids |-> IF q = p
                         THEN [st |-> "running", of |-> forks + 1] ELSE table[q]]
    BY <1>3, NewSteps
  <2>2. forks + 1 \in Serials /\ slips' = slips
    BY <1>3, NewSteps
  <2> SUFFICES ASSUME NEW q \in Objs
               PROVE  Right(q)
    BY <1>0
  <2>3. CASE q = o
    BY <2>1, <2>2, <2>3
  <2>4. CASE q # o /\ Holds(q) /\ Sound(q)
    <3>1. pid[q] # p /\ pid'[q] = pid[q] /\ own'[q] = own[q] /\ pid[q] \in Pids
      BY <2>1, <2>4 DEF Sound, Exists, Holds
    <3>2. table'[pid[q]] = table[pid[q]]
      BY <2>1, <3>1
    <3>3. QED  BY <2>4, <3>1, <3>2 DEF Sound, Exists
  <2>5. CASE q # o /\ ~(Holds(q) /\ Sound(q))
    BY <2>1, <2>2, <2>5 DEF HoldsOwn, Holds
  <2>6. QED  BY <2>3, <2>4, <2>5
<1>4. ASSUME NEW o \in Objs, NEW s \in Objs, MoveConstruct(o, s) \/ MoveAssign(o, s)
      PROVE  HoldsOwn'
  <2>1. /\ pid' = [q \in Objs |-> IF q = s THEN -1 ELSE IF q = o THEN pid[s] ELSE pid[q]]
        /\ own' = [q \in Objs |-> IF q = s THEN 0 ELSE IF q = o THEN own[s] ELSE own[q]]
        /\ table' = table /\ slips' = slips
    BY <1>4, MoveSteps
  <2> SUFFICES ASSUME NEW q \in Objs
               PROVE  Right(q)
    BY <1>0
  <2>2. CASE q = s
    <3>1. pid'[q] = -1 /\ own'[q] = 0 /\ -1 \notin Pids
      BY <2>1, <2>2, PidAssumption
    <3>2. QED  BY <3>1
  <2>3. CASE q # s
    <3>1. PICK r \in Objs : pid'[q] = pid[r] /\ own'[q] = own[r]
      BY <2>1, <2>3
    <3>2. QED  BY <2>1, <3>1 DEF HoldsOwn, Holds, Sound, Exists
  <2>4. QED  BY <2>2, <2>3
<1>5. ASSUME NEW o \in Objs, ObjectStep(o)
      PROVE  HoldsOwn'
  <2>1. slips \subseteq slips' /\ (Keeps(o) \/ Drops(o)) /\ TakesOne(o)
    BY <1>5 DEF ObjectStep
  <2> SUFFICES ASSUME NEW q \in Objs
               PROVE  Right(q)
    BY <1>0
  <2>2. CASE q = o /\ Drops(o)
    BY <2>2, PidAssumption DEF Drops, Gone
  <2>3. CASE pid'[q] = pid[q] /\ own'[q] = own[q] /\ (q = o => Keeps(o))
    <3>1. CASE ~Holds(q)
      BY <2>3, <3>1 DEF HoldsOwn, Holds
    <3>2. CASE Holds(q) /\ own[q] \in slips
      BY <2>1, <2>3, <3>2 DEF Holds
    <3>3. CASE Holds(q) /\ Sound(q) /\ table'[pid[q]] = table[pid[q]]
      BY <2>3, <3>3 DEF Sound, Exists, Holds
    <3>4. CASE Holds(q) /\ Sound(q) /\ table'[pid[q]] # table[pid[q]]
      (* the process of q was reaped *)
      <4>1. PICK p \in Ended(pid[o]) :
              /\ table' = Reaped(p)
              /\ Keeps(o) \/ table[p].of # own[o] => table[p].of \in slips'
        BY <2>1, <3>4 DEF TakesOne
      <4>2. p \in Pids /\ pid[q] \in Pids
        BY <3>4, <4>1, EndedFacts DEF Holds
      <4>3. pid[q] = p
        BY <3>4, <4>1, <4>2, ReapedFacts
      <4>4. own[q] = table[p].of /\ own[q] # 0
        BY <3>4, <4>3 DEF Sound, Serials
      <4>5. CASE q = o
        BY <2>3, <4>1, <4>2, <4>3, <4>4, <4>5
      <4>6. CASE q # o
        <5>1. own[o] # own[q]
          BY <4>4, <4>6 DEF SerialsOnce
        <5>2. own[q] \in slips'
          BY <4>1, <4>4, <5>1
        <5>3. QED  BY <2>3, <4>2, <5>2
      <4>7. QED  BY <4>5, <4>6
    <3>5. QED  BY <3>1, <3>2, <3>3, <3>4 DEF HoldsOwn
  <2>4. q # o => pid'[q] = pid[q] /\ own'[q] = own[q]
    BY <1>5, ObjectStepFacts
  <2>5. QED  BY <2>1, <2>2, <2>3, <2>4 DEF Keeps
<1>6. QED  BY <1>1, <1>2, <1>3, <1>4, <1>5, Steps

THEOREM PidInvariance == Spec => [](TypeOK /\ SerialsOnce /\ HoldsOwn)
<1>1. Init => HoldsOwn
  BY PidAssumption DEF Init, HoldsOwn, Holds, Gone
<1>2. TypeOK /\ SerialsOnce /\ HoldsOwn /\ [Next]_vars => HoldsOwn'
  BY HoldsOwnNext
<1>3. QED  BY <1>1, <1>2, SerialsInvariance, PTL DEF Spec

(* A call beyond its first waitpid is made on an object, and a destructor's *)
(* on one with an identifier.                                              *)
CallHolds ==
  call.at # "idle" =>
    pid[call.obj] # Gone /\ (call.by = "destroy" => pid[call.obj] # -1)

LEMMA CallHoldsNext == TypeOK /\ CallHolds /\ [Next]_vars => CallHolds'
<1> SUFFICES ASSUME TypeOK, CallHolds, [Next]_vars
             PROVE  CallHolds'
  OBVIOUS
<1>1. CASE UNCHANGED <<call, pid>>
  BY <1>1 DEF CallHolds
<1>2. CASE call' = Idle
  BY <1>2 DEF CallHolds, Idle
<1>3. CASE call = Idle /\ UNCHANGED call
  BY <1>3 DEF CallHolds, Idle
<1>4. ASSUME NEW p \in Pids, Exit(p) \/ StrangerStarts(p) \/ StrangerEnds(p)
      PROVE  CallHolds'
  BY <1>1, <1>4 DEF Exit, StrangerStarts, StrangerEnds
<1>5. ASSUME NEW o \in Objs, New(o)
      PROVE  CallHolds'
  BY <1>3, <1>5 DEF New
<1>6. ASSUME NEW o \in Objs, NEW s \in Objs, MoveConstruct(o, s) \/ MoveAssign(o, s)
      PROVE  CallHolds'
  BY <1>3, <1>6, MoveSteps
<1>7. ASSUME NEW o \in Objs, Destroy(o)
      PROVE  CallHolds'
  <2>1. \/ call = Idle /\ UNCHANGED call
        \/ /\ pid[o] # -1 /\ pid[o] # Gone /\ UNCHANGED pid
           /\ call' = [at |-> "kill", obj |-> o, by |-> "destroy"]
    BY <1>7 DEF Destroy, Ready, Alive
  <2>2. QED  BY <1>3, <2>1 DEF CallHolds
<1>8. ASSUME NEW o \in Objs, Terminate(o) \/ Wait(o)
      PROVE  CallHolds'
  <2>1. \/ call = Idle /\ UNCHANGED call
        \/ call' = Idle
        \/ /\ pid[o] # Gone /\ UNCHANGED pid
           /\ \/ call' = [at |-> "kill", obj |-> o, by |-> "terminate"]
              \/ call' = [at |-> "reap", obj |-> o, by |-> "wait"]
    BY <1>8 DEF Terminate, Wait, Ready, Alive, Return
  <2>2. QED  BY <1>2, <1>3, <2>1 DEF CallHolds
<1>9. CASE Kill
  <2>1. call' = Idle \/ (call' = [call EXCEPT !.at = "reap"] /\ pid' = pid)
    BY <1>9 DEF Kill
  <2>2. CASE call' = [call EXCEPT !.at = "reap"] /\ pid' = pid
    <3>1. call'.by = call.by /\ call'.obj = call.obj
      BY <1>9, <2>2, CallRunning DEF Kill
    <3>2. QED  BY <1>9, <2>2, <3>1 DEF CallHolds, Kill
  <2>3. QED  BY <1>2, <2>1, <2>2
<1>10. CASE Reap
  BY <1>2, <1>10 DEF Reap, Return
<1>11. CASE UNCHANGED vars
  BY <1>1, <1>11 DEF vars
<1>12. QED  BY <1>4, <1>5, <1>6, <1>7, <1>8, <1>9, <1>10, <1>11 DEF Next

(* cclsys.cc:155,172: kill() reaches the object's own process or nobody,   *)
(* unless that process was waited for and the identifier stayed; the -1    *)
(* that means every process comes only from terminate() of an object that  *)
(* is through.                                                             *)
THEOREM PidKillsOwn == Spec => []KillsOwn
<1>1. TypeOK /\ HoldsOwn /\ CallHolds => KillsOwn
  <2> SUFFICES ASSUME TypeOK, HoldsOwn, CallHolds, call.at = "kill"
               PROVE  /\ pid[call.obj] = -1 => call.by = "terminate"
                      /\ pid[call.obj] # -1 /\ Exists(pid[call.obj]) =>
                           \/ table[pid[call.obj]].of = own[call.obj]
                           \/ own[call.obj] \in slips
    BY DEF KillsOwn
  <2>1. call.obj \in Objs /\ call.by \in {"destroy", "terminate"}
    <3>1. call # Idle
      BY CallRunning
    <3>2. call \in [at : {"kill"}, obj : Objs, by : {"destroy", "terminate"}]
      BY <3>1 DEF TypeOK, CallType
    <3>3. QED  BY <3>2
  <2>2. pid[call.obj] = -1 => call.by = "terminate"
    BY <2>1 DEF CallHolds
  <2>3. CASE Holds(call.obj)
    BY <2>1, <2>2, <2>3 DEF HoldsOwn, Sound
  <2>4. pid[call.obj] # -1 => Holds(call.obj)
    BY <2>1 DEF CallHolds, TypeOK, Holds
  <2>5. QED  BY <2>2, <2>3, <2>4
<1>2. Init => CallHolds
  <2>1. Init => call = Idle
    BY DEF Init
  <2>2. Idle.at = "idle"
    BY DEF Idle
  <2>3. QED  BY <2>1, <2>2 DEF CallHolds
<1>3. QED  BY <1>1, <1>2, PidInvariance, CallHoldsNext, PTL DEF Spec

-----------------------------------------------------------------------------
(* The status *)

(* What a waitpid on the identifier of o reaps is the process of o, and    *)
(* there is one to wait for, unless that was waited for before.            *)
LEMMA WaitsForOwn ==
  ASSUME TypeOK, HoldsOwn, NEW o \in Objs, own[o] \notin slips \cup {0}
  PROVE  /\ \A p \in Ended(pid[o]) : table[p].of = own[o]
         /\ LetsGo(o) => own[o] \in lost'
<1>1. Holds(o) /\ IsChild(pid[o]) /\ table[pid[o]].of = own[o]
  BY DEF HoldsOwn, Sound, IsChild
<1>2. QED  BY <1>1, WaitedOwn DEF LetsGo

LEMMA StatusNext ==
  ASSUME TypeOK, HoldsOwn, StatusOwn, [Next]_vars
  PROVE  StatusOwn'
<1>1. CASE UNCHANGED status /\ slips \subseteq slips' /\ lost \subseteq lost'
  BY <1>1 DEF StatusOwn
<1>2. ASSUME NEW o \in Objs, slips \subseteq slips',
             \/ \E p \in Ended(pid[o]) : Store(o, table[p].of)
             \/ Store(o, 0) /\ LetsGo(o)
      PROVE  StatusOwn'
  <2>1. CASE own[o] \in slips \cup {0}
    BY <1>2, <2>1 DEF Store, StatusOwn
  <2>2. CASE own[o] \notin slips \cup {0}
    <3>1. own[o] \in lost' \/ Store(o, own[o])
      BY <1>2, <2>2, WaitsForOwn
    <3>2. status'.of = own[o]
      BY <1>2 DEF Store
    <3>3. QED  BY <3>1, <3>2 DEF Store, StatusOwn
  <2>3. QED  BY <2>1, <2>2
<1>3. ASSUME NEW o \in Objs, Wait(o)
      PROVE  StatusOwn'
  BY <1>1, <1>2, <1>3 DEF Wait, Takes
<1>4. CASE Reap
  <2>1. call.obj \in Objs
    BY <1>4, CallRunning DEF Reap
  <2>2. slips \subseteq slips' /\ lost \subseteq lost'
    BY <1>4 DEF Reap, Takes, LetsGo
  <2>3. CASE UNCHANGED status
    BY <1>1, <2>2, <2>3
  <2>4. QED  BY <1>2, <1>4, <2>1, <2>2, <2>3 DEF Reap
<1>5. ASSUME NEW o \in Objs, New(o) \/ Destroy(o) \/ Terminate(o)
      PROVE  StatusOwn'
  <2>1. UNCHANGED status /\ UNCHANGED lost /\ slips \subseteq slips'
    BY <1>5, NewSteps DEF Destroy, Terminate, Takes
  <2>2. QED  BY <1>1, <2>1
<1>6. ASSUME NEW o \in Objs, NEW s \in Objs, MoveConstruct(o, s) \/ MoveAssign(o, s)
      PROVE  StatusOwn'
  BY <1>1, <1>6, MoveSteps
<1>7. ASSUME NEW p \in Pids, Exit(p) \/ StrangerStarts(p) \/ StrangerEnds(p)
      PROVE  StatusOwn'
  BY <1>1, <1>7 DEF Exit, StrangerStarts, StrangerEnds
<1>8. CASE Kill
  BY <1>1, <1>8 DEF Kill
<1>9. CASE UNCHANGED vars
  BY <1>1, <1>9 DEF vars
<1>10. QED  BY <1>3, <1>4, <1>5, <1>6, <1>7, <1>8, <1>9 DEF Next

(* cclsys.cc:184-193: wait() returns the status of the object's process,   *)
(* unless the object polled it, was interrupted in the wait for it, or it  *)
(* had been waited for before.                                             *)
THEOREM PidStatusOwn == Spec => []StatusOwn
<1>1. Init => StatusOwn
  BY DEF Init, StatusOwn
<1>2. TypeOK /\ SerialsOnce /\ HoldsOwn /\ StatusOwn /\ [Next]_vars => StatusOwn'
  BY StatusNext
<1>3. QED  BY <1>1, <1>2, PidInvariance, PTL DEF Spec

-----------------------------------------------------------------------------
(* The children *)

LEMMA ChildHeldNext ==
  ASSUME TypeOK, ChildHeld, [Next]_vars
  PROVE  ChildHeld'
<1>1. CASE UNCHANGED vars
  BY <1>1 DEF vars, ChildHeld, IsChild, Exists
<1>2. CASE KernelStep
  BY <1>2 DEF KernelStep, ChildHeld
<1>3. ASSUME NEW o \in Objs, New(o)
      PROVE  ChildHeld'
  <2>1. PICK p \in Pids :
          /\ pid' = [q \in Objs |-> IF q = o THEN p ELSE pid[q]]
          /\ own' = [q \in Objs |-> IF q = o THEN forks + 1 ELSE own[q]]
          /\ table' = [q \in Pids |-> IF q = p
                         THEN [st |-> "running", of |-> forks + 1] ELSE table[q]]
    BY <1>3, NewSteps
  <2>2. lost' = lost /\ pid[o] \notin Pids
    BY <1>3, NewSteps, PidAssumption DEF Gone
  <2> SUFFICES ASSUME NEW r \in Pids, IsChild(r)'
               PROVE  \/ \E q \in Objs : pid'[q] = r /\ own'[q] = table'[r].of
                      \/ table'[r].of \in lost
    BY <2>2 DEF ChildHeld
  <2>3. CASE r = p
    <3>1. pid'[o] = r /\ own'[o] = table'[r].of
      BY <2>1, <2>3
    <3>2. QED  BY <3>1
  <2>4. CASE r # p
    <3>1. table'[r] = table[r] /\ IsChild(r)
      BY <2>1, <2>4 DEF IsChild, Exists
    <3>2. QED  BY <2>1, <2>2, <3>1 DEF ChildHeld
  <2>5. QED  BY <2>3, <2>4
<1>4. ASSUME NEW o \in Objs, NEW s \in Objs, MoveConstruct(o, s) \/ MoveAssign(o, s)
      PROVE  ChildHeld'
  <2>1. /\ pid' = [q \in Objs |-> IF q = s THEN -1 ELSE IF q = o THEN pid[s] ELSE pid[q]]
        /\ own' = [q \in Objs |-> IF q = s THEN 0 ELSE IF q = o THEN own[s] ELSE own[q]]
        /\ table' = table /\ lost \subseteq lost'
    BY <1>4, MoveSteps
  <2> SUFFICES ASSUME NEW p \in Pids, IsChild(p), table[p].of \notin lost'
               PROVE  \E q \in Objs : pid'[q] = p /\ own'[q] = table[p].of
    BY <2>1 DEF ChildHeld, IsChild, Exists
  <2>2. PICK q \in Objs : pid[q] = p /\ own[q] = table[p].of
    BY <2>1 DEF ChildHeld
  <2>3. q # o
    BY <1>4, <2>2, MoveSteps
  <2>4. CASE q = s
    BY <2>1, <2>2, <2>3, <2>4
  <2>5. CASE q # s
    BY <2>1, <2>2, <2>3, <2>5
  <2>6. QED  BY <2>4, <2>5
<1>5. ASSUME NEW o \in Objs, ObjectStep(o)
      PROVE  ChildHeld'
  <2> SUFFICES ASSUME NEW p \in Pids, IsChild(p)'
               PROVE  \/ \E q \in Objs : pid'[q] = p /\ own'[q] = table'[p].of
                      \/ table'[p].of \in lost'
    BY DEF ChildHeld
  <2>1. IsChild(p) /\ table'[p] = table[p] /\ lost \subseteq lost'
    BY <1>5, ObjectStepFacts DEF ObjectStep
  <2>2. ASSUME NEW q \in Objs, pid[q] = p, own[q] = table[p].of
        PROVE  (pid'[q] = p /\ own'[q] = table[p].of) \/ table[p].of \in lost'
    <3>1. CASE q = o
      <4>1. Keeps(o) \/ own[o] \in lost'
        BY <1>5, <2>2, <3>1 DEF ObjectStep, LeavesNoChild
      <4>2. QED  BY <2>2, <3>1, <4>1 DEF Keeps
    <3>2. CASE q # o
      BY <1>5, <2>2, <3>2, ObjectStepFacts
    <3>3. QED  BY <3>1, <3>2
  <2>3. QED  BY <2>1, <2>2 DEF ChildHeld
<1>6. QED  BY <1>1, <1>2, <1>3, <1>4, <1>5, Steps

(* cclsys.cc:147-193: every child has exactly one object to wait for it,   *)
(* unless an object that was its own let go of it: this needs no           *)
(* assumption on what the identifiers in objects still mean.               *)
THEOREM PidNoOrphan == Spec => []NoOrphan
<1>1. Init => ChildHeld
  BY DEF Init, ChildHeld, IsChild, Exists
<1>2. ASSUME SerialsOnce, ChildHeld, NEW p \in Pids, IsChild(p), table[p].of \notin lost
      PROVE  Cardinality({o \in Objs : pid[o] = p /\ own[o] = table[p].of}) = 1
  <2>1. PICK o \in Objs : pid[o] = p /\ own[o] = table[p].of
    BY <1>2 DEF ChildHeld
  <2>2. own[o] # 0
    BY <1>2, <2>1 DEF IsChild, Serials
  <2>3. {q \in Objs : pid[q] = p /\ own[q] = table[p].of} = {o}
    BY <1>2, <2>1, <2>2 DEF SerialsOnce
  <2>4. QED  BY <2>3, FS_Singleton
<1>3. SerialsOnce /\ ChildHeld => NoOrphan
  BY <1>2 DEF NoOrphan
<1>4. TypeOK /\ SerialsOnce /\ ChildHeld /\ [Next]_vars => ChildHeld'
  BY ChildHeldNext
<1>5. QED  BY <1>1, <1>3, <1>4, SerialsInvariance, PTL DEF Spec
=============================================================================
