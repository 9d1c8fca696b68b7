------------------------------- MODULE CclPid -------------------------------
(***************************************************************************)
(* pid_c of lib/cclsys.h and lib/cclsys.cc: an object that owns a child    *)
(* process.  It keeps the process identifier only, and the kernel gives an *)
(* identifier out again once its process has been waited for; whether      *)
(* kill() and waitpid() still mean the child the object started depends on *)
(* everything that happened since.                                         *)
(*                                                                         *)
(* The kernel's process table, fork, waitpid and kill are modelled as far  *)
(* as pid_c relies on them.  A child whose execvp fails exits with status  *)
(* 0 (cclsys.cc:72-75): here it is one of the children that exit.  An      *)
(* object made by pid_c(int) from what execute() returned is one made by   *)
(* New.  Serial numbers, which the program does not have, tell a process   *)
(* from a later one with the same identifier.                              *)
(***************************************************************************)
EXTENDS Integers, FiniteSets

CONSTANTS Objs,       \* pid_c objects
          Pids,       \* process identifiers
          MaxForks,   \* children the program starts (a bound)
          Hasty,      \* is an identifier given out again while an object has it?
          Signals     \* do caught signals interrupt a waitpid that blocks?

ASSUME PidAssumption ==
  /\ \A p \in Pids : p \in Nat \ {0}
  /\ MaxForks \in Nat
  /\ Hasty \in BOOLEAN /\ Signals \in BOOLEAN

VARIABLES table,   \* the kernel's process table
          forks,   \* children started so far
          pid,     \* m_pid of each object, Gone when there is no object
          own,     \* serial number of the process m_pid was given for, 0 without one
          call,    \* the member function that is running
          status,  \* what the last wait() returned, and for which process
          slips,   \* history: children waited for while an object keeps their identifier
          lost     \* history: children whose object let go of them

vars == <<table, forks, pid, own, call, status, slips, lost>>
history == <<slips, lost>>

Gone == 0
Serials == 1 .. MaxForks
Stranger == MaxForks + 1   \* the serial of every process that is no child
Idle == [at |-> "idle", obj |-> "", by |-> ""]

CallType == {Idle} \cup [at : {"kill"}, obj : Objs, by : {"destroy", "terminate"}]
            \cup [at : {"reap"}, obj : Objs, by : {"destroy", "terminate", "wait"}]

(* The ranges of m_pid (-1 or an identifier) and of the kernel's state.    *)
TypeOK ==
  /\ table \in [Pids -> [st : {"free", "running", "zombie"},
                         of : 0 .. Stranger]]
  /\ forks \in 0 .. MaxForks
  /\ pid \in [Objs -> Pids \cup {-1, Gone}]
  /\ own \in [Objs -> 0 .. MaxForks]
  /\ call \in CallType
  /\ status \in [of : 0 .. MaxForks, stored : 0 .. MaxForks]
  /\ slips \subseteq Serials /\ lost \subseteq Serials

Init ==
  /\ table = [p \in Pids |-> [st |-> "free", of |-> 0]]
  /\ forks = 0
  /\ pid = [o \in Objs |-> Gone]
  /\ own = [o \in Objs |-> 0]
  /\ call = Idle
  /\ status = [of |-> 0, stored |-> 0]
  /\ slips = {} /\ lost = {}

-----------------------------------------------------------------------------
(* The kernel *)

Exists(p) == table[p].st \in {"running", "zombie"}
IsChild(p) == Exists(p) /\ table[p].of \in Serials

(* The children waitpid(n, ...) is about, and those of them that ended.    *)
Waited(n) == {p \in Pids : IsChild(p) /\ n \in {p, -1}}
Ended(n) == {p \in Waited(n) : table[p].st = "zombie"}

Reaped(p) == [table EXCEPT ![p] = [st |-> "free", of |-> 0]]

(* What fork() may choose. *)
Offered(p) == table[p].st = "free" /\ (Hasty \/ \A o \in Objs : pid[o] # p)

(* waitpid(n, &st, WNOHANG) <= 0 *)
ReapsNone(n) == Ended(n) = {} /\ UNCHANGED table

(* A child ends by itself or by a signal. *)
Exit(p) ==
  /\ IsChild(p) /\ table[p].st = "running"
  /\ table' = [table EXCEPT ![p].st = "zombie"]
  /\ UNCHANGED <<forks, pid, own, call, status, history>>

(* Another program's process is given a free identifier, or ends. *)
StrangerStarts(p) ==
  /\ Offered(p)
  /\ table' = [table EXCEPT ![p] = [st |-> "running", of |-> Stranger]]
  /\ UNCHANGED <<forks, pid, own, call, status, history>>

StrangerEnds(p) ==
  /\ Exists(p) /\ table[p].of = Stranger
  /\ table' = [table EXCEPT ![p] = [st |-> "free", of |-> 0]]
  /\ UNCHANGED <<forks, pid, own, call, status, history>>

-----------------------------------------------------------------------------
(* The object's members *)

Alive(o) == pid[o] # Gone
Ready(o) == call = Idle /\ Alive(o)

(* A waitpid of o returns p.  It may be a child o was not given: m_pid was *)
(* -1 or out of date; the object that has it keeps the identifier.         *)
Takes(o, p) ==
  /\ table' = Reaped(p)
  /\ slips' = slips \cup ({table[p].of} \ {own[o]})

(* o lets go of its process, which may still run or be a zombie. *)
LetsGo(o) ==
  lost' = lost \cup ({own[o]} \cap {table[p].of : p \in Waited(pid[o])})

(* pid_c(args): execute() forks. *)
New(o) ==
  /\ call = Idle /\ ~Alive(o) /\ forks < MaxForks
  /\ \E p \in Pids :
       /\ Offered(p)
       /\ table' = [table EXCEPT ![p] = [st |-> "running", of |-> forks + 1]]
       /\ pid' = [pid EXCEPT ![o] = p]
  /\ forks' = forks + 1
  /\ own' = [own EXCEPT ![o] = forks + 1]
  /\ UNCHANGED <<call, status, history>>

(* m_pid{a_pid.m_pid} and a_pid.m_pid = -1, in that order. *)
Move(o, s) ==
  /\ pid' = [[pid EXCEPT ![o] = pid[s]] EXCEPT ![s] = -1]
  /\ own' = [[own EXCEPT ![o] = own[s]] EXCEPT ![s] = 0]

MoveConstruct(o, s) ==
  /\ call = Idle /\ ~Alive(o) /\ Ready(s)
  /\ Move(o, s)
  /\ UNCHANGED <<table, forks, call, status, history>>

(* operator=(pid_c &&) drops the process the left side had; assigned to   *)
(* itself the object has none.                                             *)
MoveAssign(o, s) ==
  /\ Ready(o) /\ Ready(s)
  /\ Move(o, s) /\ LetsGo(o)
  /\ UNCHANGED <<table, forks, call, status, slips>>

Forget(o, n) == /\ pid' = [pid EXCEPT ![o] = n]
                /\ own' = [own EXCEPT ![o] = 0]

(* Mutant of Destroy: m_pid is not compared with -1. *)
DestroyAny(o) ==
  /\ Ready(o)
  /\ \/ /\ \E p \in Ended(pid[o]) : Takes(o, p)
        /\ Forget(o, Gone) /\ UNCHANGED call
     \/ /\ ReapsNone(pid[o])
        /\ call' = [at |-> "kill", obj |-> o, by |-> "destroy"]
        /\ UNCHANGED <<pid, own, slips>>
  /\ UNCHANGED <<forks, status, lost>>

(* ~pid_c(), up to the first waitpid. *)
Destroy(o) ==
  /\ Ready(o)
  /\ \/ /\ pid[o] = -1
        /\ Forget(o, Gone) /\ UNCHANGED <<table, call, slips>>
     \/ /\ pid[o] # -1
        /\ \E p \in Ended(pid[o]) : Takes(o, p)
        /\ Forget(o, Gone) /\ UNCHANGED call
     \/ /\ pid[o] # -1 /\ ReapsNone(pid[o])
        /\ call' = [at |-> "kill", obj |-> o, by |-> "destroy"]
        /\ UNCHANGED <<pid, own, slips>>
  /\ UNCHANGED <<forks, status, lost>>

(* terminate(), up to the first waitpid: m_pid is not compared with -1,    *)
(* and keeps the identifier of a child found ended and reaped.             *)
Terminate(o) ==
  /\ Ready(o)
  /\ \/ /\ \E p \in Ended(pid[o]) :
             table' = Reaped(p) /\ slips' = slips \cup {table[p].of}
        /\ UNCHANGED call
     \/ /\ ReapsNone(pid[o])
        /\ call' = [at |-> "kill", obj |-> o, by |-> "terminate"]
        /\ UNCHANGED slips
  /\ UNCHANGED <<forks, pid, own, status, lost>>

Return(o, by) ==
  /\ Forget(o, IF by = "destroy" THEN Gone ELSE -1)
  /\ call' = Idle

(* Mutant of Kill: returns without waiting for the process to end. *)
KillOnly ==
  /\ call.at = "kill"
  /\ Return(call.obj, call.by)
  /\ UNCHANGED <<table, forks, status, history>>

(* kill(m_pid, ...): it succeeds on whatever has the identifier, a zombie  *)
(* included, and on -1 reaches every process; it fails where there is no   *)
(* process, or none that the program may signal.                           *)
Kill ==
  /\ call.at = "kill"
  /\ LET n == pid[call.obj]
     IN  \/ /\ n # -1 => Exists(n)
            /\ call' = [call EXCEPT !.at = "reap"]
            /\ UNCHANGED <<pid, own>>
         \/ /\ Waited(n) = {}
            /\ IF call.by = "destroy" THEN Forget(call.obj, Gone)
                                      ELSE UNCHANGED <<pid, own>>
            /\ call' = Idle
  /\ UNCHANGED <<table, forks, status, history>>

Store(o, s) == status' = [of |-> own[o], stored |-> s]

(* Mutant of Wait: it waits for any child. *)
WaitAny(o) ==
  /\ Ready(o)
  /\ \E p \in Ended(-1) : Takes(o, p) /\ Store(o, table[p].of)
  /\ Return(o, "wait")
  /\ UNCHANGED <<forks, lost>>

(* wait(options): the child ended; it did not and the caller polls         *)
(* (WNOHANG), or there is none, where the status returned is an            *)
(* uninitialised local; or the call blocks.                                *)
Wait(o) ==
  /\ Ready(o)
  /\ \/ /\ \E p \in Ended(pid[o]) : Takes(o, p) /\ Store(o, table[p].of)
        /\ Return(o, "wait")
        /\ UNCHANGED lost
     \/ /\ ReapsNone(pid[o]) /\ Store(o, 0)
        /\ Return(o, "wait") /\ LetsGo(o)
        /\ UNCHANGED slips
     \/ /\ ReapsNone(pid[o]) /\ Waited(pid[o]) # {}
        /\ call' = [at |-> "reap", obj |-> o, by |-> "wait"]
        /\ UNCHANGED <<pid, own, status, history>>
  /\ UNCHANGED forks

(* waitpid(m_pid, &st, 0) returns: a child it waited for ended, there is   *)
(* none, or a handler installed without SA_RESTART ran.                    *)
Reap ==
  /\ call.at = "reap"
  /\ LET o == call.obj
     IN  /\ \/ \E p \in Ended(pid[o]) :
                 /\ Takes(o, p)
                 /\ IF call.by = "wait" THEN Store(o, table[p].of)
                                        ELSE UNCHANGED status
                 /\ UNCHANGED lost
            \/ /\ ReapsNone(pid[o]) /\ (Signals \/ Waited(pid[o]) = {})
               /\ IF call.by = "wait" THEN Store(o, 0) ELSE UNCHANGED status
               /\ LetsGo(o) /\ UNCHANGED slips
         /\ Return(o, call.by)
  /\ UNCHANGED forks

Next ==
  \/ \E p \in Pids : Exit(p) \/ StrangerStarts(p) \/ StrangerEnds(p)
  \/ \E o \in Objs : New(o) \/ Destroy(o) \/ Terminate(o) \/ Wait(o)
  \/ \E o, s \in Objs : MoveConstruct(o, s) \/ MoveAssign(o, s)
  \/ Kill \/ Reap

Spec == Init /\ [][Next]_vars

-----------------------------------------------------------------------------
(* cclsys.cc:155,170-172: kill() is about to signal the process this       *)
(* object was given, or nobody; never another child of the program or a    *)
(* process of someone else that has the identifier by now.  It may only    *)
(* miss where that process was waited for and the identifier stayed: by    *)
(* terminate(), or through an object that had no process of its own.  Only *)
(* terminate() of an object that is through means every process (-1).      *)
KillsOwn ==
  call.at = "kill" =>
    LET o == call.obj
    IN  /\ pid[o] = -1 => call.by = "terminate"
        /\ pid[o] # -1 /\ Exists(pid[o]) =>
             table[pid[o]].of = own[o] \/ own[o] \in slips

(* cclsys.h:88-94, cclsys.cc:147-193: no child is left behind: each one    *)
(* that runs, or ended and was not waited for, belongs to exactly one      *)
(* object, unless that object let go of it: another was moved over it, it  *)
(* was polled while the child ran, or a handler interrupted its waitpid.   *)
NoOrphan ==
  \A p \in Pids : IsChild(p) =>
    \/ Cardinality({o \in Objs : pid[o] = p /\ own[o] = table[p].of}) = 1
    \/ table[p].of \in lost

(* cclsys.cc:184-193: what wait() returned for the process of an object is *)
(* the exit status of that process, neither another's nor an uninitialised *)
(* local, unless the object let go of it (polled it, or was interrupted)   *)
(* or it had been waited for before.                                       *)
StatusOwn ==
  status.of \notin lost \cup slips \cup {0} => status.stored = status.of
=============================================================================
