-------------------------------- MODULE Proc --------------------------------
(***************************************************************************)
(* The process table (ptable in proc.c) and the life of a process: fork,   *)
(* exit, wait, kill, sleep, wakeup, yield and the switch to and from the   *)
(* scheduler, on several CPUs.                                             *)
(*                                                                         *)
(* The code between acquire(&ptable.lock) and its release is one step;     *)
(* what fork and exit do outside the lock are steps of their own.  Which   *)
(* RUNNABLE process a CPU takes is any here; module Scheduler says which   *)
(* one the code takes.  Address spaces, files and times are not in this    *)
(* module.  kill(1) is left out of the environment: it makes init call     *)
(* exit, which stops the machine with panic("init exiting").               *)
(***************************************************************************)
EXTENDS Integers

CONSTANTS NPROC,   \* slots of ptable
          CPUs,    \* the processors
          Chans,   \* sleep channels other than struct proc addresses
          MaxPid   \* bound: no fork once nextpid is above it

ASSUME NPROCAssumption == NPROC \in Nat \ {0}
ASSUME ChansAssumption == Chans \subseteq Nat \ (0 .. NPROC)
ASSUME MaxPidAssumption == MaxPid \in Nat \ {0}

Slots == 1 .. NPROC
None == 0          \* the null pointer, the null channel, pid 0
initproc == 1      \* userinit takes the first slot

VARIABLES state,    \* p->state
          pid,      \* p->pid
          parent,   \* p->parent
          chan,     \* p->chan
          killed,   \* p->killed
          pc,       \* where p's thread is
          child,    \* np, the slot p is filling in fork
          cpuProc,  \* c->proc
          nextpid

vars == <<state, pid, parent, chan, killed, pc, child, cpuProc, nextpid>>

States == {"UNUSED", "EMBRYO", "SLEEPING", "RUNNABLE", "RUNNING", "ZOMBIE"}

Pcs == {"user",    \* in user space
        "sys",     \* inside a system call that may sleep
        "wait",    \* in the loop of wait()
        "alloced", \* in fork(), allocproc() has returned a slot
        "copied",  \* in fork(), np->parent is set
        "exit"}    \* in exit(), files closed, before the ptable section

TypeOK ==
    /\ state \in [Slots -> States]
    /\ pid \in [Slots -> Nat]
    /\ parent \in [Slots -> Slots \cup {None}]
    /\ chan \in [Slots -> {None} \cup Slots \cup Chans]
    /\ killed \in [Slots -> {0, 1}]
    /\ pc \in [Slots -> Pcs]
    /\ child \in [Slots -> Slots \cup {None}]
    /\ cpuProc \in [CPUs -> Slots \cup {None}]
    /\ nextpid \in Nat

(* After userinit(): init is RUNNABLE with pid 1. *)
Init ==
    /\ state = [s \in Slots |-> IF s = initproc THEN "RUNNABLE" ELSE "UNUSED"]
    /\ pid = [s \in Slots |-> IF s = initproc THEN 1 ELSE None]
    /\ parent = [s \in Slots |-> None]
    /\ chan = [s \in Slots |-> None]
    /\ killed = [s \in Slots |-> 0]
    /\ pc = [s \in Slots |-> "user"]
    /\ child = [s \in Slots |-> None]
    /\ cpuProc = [c \in CPUs |-> None]
    /\ nextpid = 2

Goto(p, l) == pc' = [pc EXCEPT ![p] = l]

Set(p, st) == state' = [state EXCEPT ![p] = st]

(* sched() and the return of swtch in scheduler(): c->proc = 0. *)
LeaveCpu(p) ==
    cpuProc' = [c \in CPUs |-> IF cpuProc[c] = p THEN None ELSE cpuProc[c]]

Live == {"SLEEPING", "RUNNABLE", "RUNNING"}

-----------------------------------------------------------------------------
(* Fault: scheduler() does not set p->state = RUNNING. *)
DispatchStaysRunnable(c, p) ==
    /\ cpuProc[c] = None
    /\ state[p] = "RUNNABLE"
    /\ cpuProc' = [cpuProc EXCEPT ![c] = p]
    /\ chan' = [chan EXCEPT ![p] = None]
    /\ UNCHANGED <<state, pid, parent, killed, pc, child, nextpid>>

(* scheduler(): switch to p, which finishes the sleep() it was in. *)
Dispatch(c, p) ==
    /\ cpuProc[c] = None
    /\ state[p] = "RUNNABLE"
    /\ cpuProc' = [cpuProc EXCEPT ![c] = p]
    /\ Set(p, "RUNNING")
    /\ chan' = [chan EXCEPT ![p] = None]
    /\ UNCHANGED <<pid, parent, killed, pc, child, nextpid>>

(* The timer interrupt makes p yield.  A killed process that was interrupted
   in user space exits instead (TrapKilled).                               *)
Yield(p) ==
    /\ state[p] = "RUNNING"
    /\ ~(pc[p] = "user" /\ killed[p] = 1)
    /\ Set(p, "RUNNABLE")
    /\ LeaveCpu(p)
    /\ UNCHANGED <<pid, parent, chan, killed, pc, child, nextpid>>

(* p is in user space, or may go back to it: no system call starts once
   p->killed is seen (trap.c:40).                                          *)
CanCall(p) == state[p] = "RUNNING" /\ pc[p] = "user" /\ killed[p] = 0

-----------------------------------------------------------------------------
(* fork() *)

(* Fault: nextpid is read but not advanced. *)
AllocProcSamePid(p) ==
    /\ CanCall(p)
    /\ nextpid <= MaxPid
    /\ \E np \in Slots :
          /\ state[np] = "UNUSED"
          /\ \A s \in 1 .. np - 1 : state[s] # "UNUSED"
          /\ Set(np, "EMBRYO")
          /\ pid' = [pid EXCEPT ![np] = nextpid]
          /\ child' = [child EXCEPT ![p] = np]
    /\ Goto(p, "alloced")
    /\ UNCHANGED <<parent, chan, killed, cpuProc, nextpid>>

(* allocproc() takes the first UNUSED slot.  It does not touch np->killed. *)
AllocProc(p) ==
    /\ CanCall(p)
    /\ nextpid <= MaxPid
    /\ \E np \in Slots :
          /\ state[np] = "UNUSED"
          /\ \A s \in 1 .. np - 1 : state[s] # "UNUSED"
          /\ Set(np, "EMBRYO")
          /\ pid' = [pid EXCEPT ![np] = nextpid]
          /\ child' = [child EXCEPT ![p] = np]
    /\ nextpid' = nextpid + 1
    /\ Goto(p, "alloced")
    /\ UNCHANGED <<parent, chan, killed, cpuProc>>

ForkFail(p) ==
    /\ state[p] = "RUNNING"
    /\ pc[p] = "alloced"
    /\ Set(child[p], "UNUSED")
    /\ child' = [child EXCEPT ![p] = None]
    /\ Goto(p, "user")
    /\ UNCHANGED <<pid, parent, chan, killed, cpuProc, nextpid>>

(* np->parent = curproc, with no lock held. *)
ForkCopy(p) ==
    /\ state[p] = "RUNNING"
    /\ pc[p] = "alloced"
    /\ parent' = [parent EXCEPT ![child[p]] = p]
    /\ Goto(p, "copied")
    /\ UNCHANGED <<state, pid, chan, killed, child, cpuProc, nextpid>>

ForkDone(p) ==
    /\ state[p] = "RUNNING"
    /\ pc[p] = "copied"
    /\ Set(child[p], "RUNNABLE")
    /\ pc' = [pc EXCEPT ![p] = "user", ![child[p]] = "user"]
    /\ child' = [child EXCEPT ![p] = None]
    /\ UNCHANGED <<pid, parent, chan, killed, cpuProc, nextpid>>

-----------------------------------------------------------------------------
(* exit() *)

(* The exit system call, or a trap that finds p->killed set: init never. *)
ExitStart(p) ==
    /\ state[p] = "RUNNING"
    /\ pc[p] = "user"
    /\ p # initproc
    /\ Goto(p, "exit")
    /\ UNCHANGED <<state, pid, parent, chan, killed, child, cpuProc, nextpid>>

TrapKilled(p) == killed[p] = 1 /\ ExitStart(p)

(* Fault: only init is woken. *)
WokenByExitInitOnly(p) ==
    {initproc : s \in {t \in Slots : parent[t] = p /\ state[t] = "ZOMBIE"}}

(* wakeup1(curproc->parent), the children go to init, init is woken if one
   of them is a zombie, and p is switched out for good.                    *)
WokenByExit(p) ==
    {parent[p]} \cup {initproc : s \in {t \in Slots : parent[t] = p
                                                   /\ state[t] = "ZOMBIE"}}

(* Fault: the children of p are not handed over. *)
ExitFinishKeepsKids(p) ==
    /\ state[p] = "RUNNING"
    /\ pc[p] = "exit"
    /\ state' = [s \in Slots |->
                   IF s = p THEN "ZOMBIE"
                   ELSE IF state[s] = "SLEEPING" /\ chan[s] \in WokenByExit(p)
                        THEN "RUNNABLE" ELSE state[s]]
    /\ LeaveCpu(p)
    /\ UNCHANGED <<pid, parent, chan, killed, pc, child, nextpid>>

ExitFinish(p) ==
    /\ state[p] = "RUNNING"
    /\ pc[p] = "exit"
    /\ parent' = [s \in Slots |-> IF parent[s] = p THEN initproc ELSE parent[s]]
    /\ state' = [s \in Slots |->
                   IF s = p THEN "ZOMBIE"
                   ELSE IF state[s] = "SLEEPING" /\ chan[s] \in WokenByExit(p)
                        THEN "RUNNABLE" ELSE state[s]]
    /\ LeaveCpu(p)
    /\ UNCHANGED <<pid, chan, killed, pc, child, nextpid>>

-----------------------------------------------------------------------------
(* wait() *)

WaitCall(p) ==
    /\ CanCall(p)
    /\ Goto(p, "wait")
    /\ UNCHANGED <<state, pid, parent, chan, killed, child, cpuProc, nextpid>>

Kids(p) == {s \in Slots : parent[s] = p}

Zombies(p) == {s \in Kids(p) : state[s] = "ZOMBIE"}

(* Fault: the parent returns the pid but leaves the zombie in its slot. *)
WaitReapKeepsZombie(p) ==
    /\ state[p] = "RUNNING"
    /\ pc[p] = "wait"
    /\ Zombies(p) # {}
    /\ Goto(p, "user")
    /\ UNCHANGED <<state, pid, parent, chan, killed, child, cpuProc, nextpid>>

(* The scan frees the first exited child it meets. *)
WaitReap(p) ==
    /\ state[p] = "RUNNING"
    /\ pc[p] = "wait"
    /\ \E s \in Zombies(p) :
          /\ \A t \in Zombies(p) : s <= t
          /\ Set(s, "UNUSED")
          /\ pid' = [pid EXCEPT ![s] = None]
          /\ parent' = [parent EXCEPT ![s] = None]
          /\ killed' = [killed EXCEPT ![s] = 0]
    /\ Goto(p, "user")
    /\ UNCHANGED <<chan, child, cpuProc, nextpid>>

WaitFail(p) ==
    /\ state[p] = "RUNNING"
    /\ pc[p] = "wait"
    /\ Zombies(p) = {}
    /\ Kids(p) = {} \/ killed[p] = 1
    /\ Goto(p, "user")
    /\ UNCHANGED <<state, pid, parent, chan, killed, child, cpuProc, nextpid>>

(* sleep(curproc, &ptable.lock) *)
WaitSleep(p) ==
    /\ state[p] = "RUNNING"
    /\ pc[p] = "wait"
    /\ Zombies(p) = {}
    /\ Kids(p) # {} /\ killed[p] = 0
    /\ chan' = [chan EXCEPT ![p] = p]
    /\ Set(p, "SLEEPING")
    /\ LeaveCpu(p)
    /\ UNCHANGED <<pid, parent, killed, pc, child, nextpid>>

-----------------------------------------------------------------------------
(* The other system calls, as far as the process table sees them. *)

SysEnter(p) ==
    /\ CanCall(p)
    /\ Goto(p, "sys")
    /\ UNCHANGED <<state, pid, parent, chan, killed, child, cpuProc, nextpid>>

SysReturn(p) ==
    /\ state[p] = "RUNNING"
    /\ pc[p] = "sys"
    /\ Goto(p, "user")
    /\ UNCHANGED <<state, pid, parent, chan, killed, child, cpuProc, nextpid>>

(* sleep(c, lk); it does not look at p->killed. *)
Sleep(p, c) ==
    /\ state[p] = "RUNNING"
    /\ pc[p] = "sys"
    /\ chan' = [chan EXCEPT ![p] = c]
    /\ Set(p, "SLEEPING")
    /\ LeaveCpu(p)
    /\ UNCHANGED <<pid, parent, killed, pc, child, nextpid>>

(* wakeup(c), by a process or an interrupt handler. *)
Wakeup(c) ==
    /\ state' = [s \in Slots |->
                   IF state[s] = "SLEEPING" /\ chan[s] = c
                   THEN "RUNNABLE" ELSE state[s]]
    /\ UNCHANGED <<pid, parent, chan, killed, pc, child, cpuProc, nextpid>>

(* kill(n): the first slot whose pid field is n, whatever its state. *)
Kill(p, n) ==
    /\ CanCall(p)
    /\ \E s \in Slots :
          /\ pid[s] = n
          /\ \A t \in 1 .. s - 1 : pid[t] # n
          /\ killed' = [killed EXCEPT ![s] = 1]
          /\ state' = [state EXCEPT ![s] = IF @ = "SLEEPING" THEN "RUNNABLE"
                                           ELSE @]
    /\ UNCHANGED <<pid, parent, chan, pc, child, cpuProc, nextpid>>

(* A fault in user space: p->killed = 1 (trap.c:95). *)
Fault(p) ==
    /\ CanCall(p)
    /\ p # initproc
    /\ killed' = [killed EXCEPT ![p] = 1]
    /\ UNCHANGED <<state, pid, parent, chan, pc, child, cpuProc, nextpid>>

-----------------------------------------------------------------------------
KillPids == (0 .. MaxPid) \ {1}

Step(p) ==
    \/ AllocProc(p) \/ ForkFail(p) \/ ForkCopy(p) \/ ForkDone(p)
    \/ ExitStart(p) \/ ExitFinish(p)
    \/ WaitCall(p) \/ WaitReap(p) \/ WaitFail(p) \/ WaitSleep(p)
    \/ SysEnter(p) \/ SysReturn(p) \/ \E c \in Chans : Sleep(p, c)
    \/ \E n \in KillPids : Kill(p, n)
    \/ Fault(p) \/ Yield(p)

Next ==
    \/ \E p \in Slots : Step(p) \/ \E c \in CPUs : Dispatch(c, p)
    \/ \E c \in Chans : Wakeup(c)

SafeSpec == Init /\ [][Next]_vars

(* What a process inside the kernel, or killed, does next. *)
KernelStep(p) ==
    \/ ForkFail(p) \/ ForkCopy(p) \/ ForkDone(p)
    \/ ExitFinish(p) \/ TrapKilled(p)
    \/ WaitReap(p) \/ WaitFail(p) \/ WaitSleep(p)
    \/ SysReturn(p)

(* The timer preempts every process, a RUNNABLE process is run sooner or
   later (Scheduler), preemption does not stop a process inside the kernel
   for ever, every sleep channel is signalled again, and init keeps calling
   wait (init.c:35).                                                       *)
Fairness ==
    /\ \A p \in Slots :
          /\ WF_vars(Yield(p))
          /\ SF_vars(\E c \in CPUs : Dispatch(c, p))
          /\ SF_vars(KernelStep(p))
    /\ \A c \in Chans : WF_vars(Wakeup(c))
    /\ SF_vars(WaitCall(initproc))

Spec == SafeSpec /\ Fairness

-----------------------------------------------------------------------------
(* Properties *)

(* A process is RUNNING exactly while one CPU runs it: the state change and
   the switch are covered by ptable.lock, held across swtch (proc.c:588-597,
   proc.c:608-624).                                                        *)
OneCpuEach ==
    /\ \A p \in Slots : state[p] = "RUNNING" <=> \E c \in CPUs : cpuProc[c] = p
    /\ \A c, d \in CPUs : cpuProc[c] = cpuProc[d] /\ cpuProc[c] # None => c = d

(* No two slots carry the same pid, dead slots with a leftover pid included:
   find_proc and kill (proc.c:232, proc.c:754) may stop at the first match. *)
PidsUnique ==
    /\ \A p, q \in Slots : pid[p] = pid[q] /\ pid[p] # None => p = q
    /\ \A p \in Slots : pid[p] < nextpid

(* Every process but init has a parent that can still call wait(): exit()
   hands the children of a dying process to init (proc.c:434-443), also the
   ones that are still being forked or are zombies already.                *)
ParentAlive ==
    \A p \in Slots :
        /\ state[p] \in Live \cup {"ZOMBIE"} /\ p # initproc => parent[p] # None
        /\ parent[p] # None => state[parent[p]] \in Live /\ parent[p] # p

(* A parent asleep in wait() has a child, none that has exited, and is not
   killed: exit() wakes it in the critical section in which it becomes a
   zombie (proc.c:429-447), and so does the exit of a process whose zombie
   children init inherits.                                                 *)
WaiterNotForgotten ==
    \A p \in Slots :
        state[p] = "SLEEPING" /\ pc[p] = "wait"
            => Zombies(p) = {} /\ Kids(p) # {} /\ killed[p] = 0

(* A slot is being filled by exactly one forking process while it is EMBRYO,
   and nobody else's exit or wait frees it (proc.c:131, proc.c:372, proc.c:392). *)
EmbryoHasOneForker ==
    /\ \A s \in Slots : state[s] = "EMBRYO" <=> \E p \in Slots : child[p] = s
    /\ \A p, q \in Slots : child[p] = child[q] /\ child[p] # None => p = q

-----------------------------------------------------------------------------
(* The invariant that steps preserve: the safety properties above and what
   they need from each other.                                              *)

(* The slot a process is filling is free of relatives until it is linked. *)
ForkInProgress ==
    \A p \in Slots :
        /\ child[p] # None <=> pc[p] \in {"alloced", "copied"}
        /\ child[p] # None => state[p] \in {"RUNNABLE", "RUNNING"}
        /\ pc[p] = "alloced" => parent[child[p]] = None
        /\ pc[p] = "copied" => parent[child[p]] = p

(* Processes sleep on their own address in wait(), on a channel otherwise. *)
SleepChannels ==
    \A p \in Slots :
        state[p] = "SLEEPING" =>
            \/ pc[p] = "wait" /\ chan[p] = p
            \/ pc[p] = "sys" /\ chan[p] \in Chans

(* init never exits and is nobody's child; free slots have no parent. *)
InitIsRoot ==
    /\ state[initproc] \in Live
    /\ pc[initproc] # "exit"
    /\ parent[initproc] = None
    /\ \A p \in Slots : state[p] = "UNUSED" => parent[p] = None

IInv ==
    /\ TypeOK
    /\ OneCpuEach
    /\ PidsUnique
    /\ ParentAlive
    /\ WaiterNotForgotten
    /\ EmbryoHasOneForker
    /\ ForkInProgress
    /\ SleepChannels
    /\ InitIsRoot

-----------------------------------------------------------------------------
(* Init reaps every exited process that is its child, by birth or because
   the parent died: no zombie keeps its slot for ever (proc.c:434, 469).   *)
InitReapsZombies ==
    \A p \in Slots :
        (state[p] = "ZOMBIE" /\ parent[p] = initproc) ~> (state[p] = "UNUSED")

(* "Kill the process with the given pid" (proc.c:751): a process that has
   just been created has not been killed, since nobody could name it yet.  *)
BornUnkilled ==
    [][\A s \in Slots : state[s] = "UNUSED" /\ state'[s] = "EMBRYO"
                          => killed'[s] = 0]_vars
=============================================================================
