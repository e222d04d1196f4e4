------------------------------ MODULE SpinLock ------------------------------
(***************************************************************************)
(* Spin locks and interrupts: acquire(), release(), pushcli() and popcli() *)
(* (spinlock.c) on several CPUs, under interrupt handlers (trap.c) and     *)
(* across the context switches of sched() and scheduler() (proc.c), which  *)
(* hand ptable.lock from one thread to another.                            *)
(*                                                                         *)
(* A kernel path is the sequence of its lock operations.  Memory accesses  *)
(* that another CPU can see in between are steps of their own: the xchg    *)
(* and the store of lk->cpu in acquire().                                  *)
(***************************************************************************)
EXTENDS Integers, Sequences, FiniteSets

CONSTANTS CPUs, cpu0,
          Procs,    \* threads of processes; each CPU has a scheduler thread
          Paths,    \* the kernel paths that processes take
          MaxDepth  \* bound: frames on a stack

Threads == Procs \cup CPUs
Locks == {"ptable", "ticks", "cons", "user"}
Nobody == "nobody"

VARIABLES lk,     \* locked and cpu of each lock
          cpu,    \* eflags.IF, ncli, intena, and the thread that runs
          stack,  \* frames of each thread, innermost first
          phase,  \* how far its next lock operation has come
          saved,  \* intena, in sched() of a thread that is switched out
          panic

vars == <<lk, cpu, stack, phase, saved, panic>>

acq(l) == [op |-> "acquire", lock |-> l]
rel(l) == [op |-> "release", lock |-> l]
swtch == [op |-> "swtch", lock |-> "ptable"]

TypeOK ==
    /\ lk \in [Locks -> [locked : BOOLEAN, cpu : CPUs \cup {Nobody}]]
    /\ cpu \in [CPUs -> [IF_ : BOOLEAN, ncli : Nat, intena : BOOLEAN, thread : Threads]]
    /\ phase \in [Threads -> {"start", "xchg", "own"}]
    /\ \A t \in Threads : Len(stack[t]) <= MaxDepth

-----------------------------------------------------------------------------
(* Kernel paths *)

yield == <<acq("ptable"), swtch, rel("ptable")>>

(* Fault: the lock of the condition is kept. *)
sleepHolds(l) == <<acq("ptable"), swtch, rel("ptable")>>

(* sleep(chan, l), with l held. *)
sleep(l) == <<acq("ptable"), rel(l), swtch, rel("ptable"), acq(l)>>
wakeup == <<acq("ptable"), rel("ptable")>>

sys_sleep == <<acq("ticks")>> \o sleep("ticks") \o <<rel("ticks")>>
fork == <<acq("ptable"), rel("ptable"),
          acq("ptable"), acq("ticks"), rel("ticks"), rel("ptable")>>
print_bitches == <<acq("ptable"), acq("cons"), rel("cons"), rel("ptable")>>
sys_Aquire == <<acq("user")>>

(* Fault: a tick is counted after the sleepers are woken. *)
timerWakesFirst(c, t) ==
    (IF c = cpu0 THEN <<acq("ptable"), acq("ticks"), rel("ticks"), rel("ptable")>> ELSE <<>>)
    \o (IF t \in Procs THEN yield ELSE <<>>)

(* Handlers, for thread t on CPU c. *)
timer(c, t) == (IF c = cpu0 THEN <<acq("ticks")>> \o wakeup \o <<rel("ticks")>> ELSE <<>>)
               \o (IF t \in Procs THEN yield ELSE <<>>)
consoleintr == <<acq("cons")>> \o wakeup \o <<rel("cons")>>

scheduler == <<acq("ptable"), swtch, rel("ptable")>>
forkret == <<rel("ptable")>>

-----------------------------------------------------------------------------
(* The CPUs have started, and the first processes wait in forkret(). *)
Init ==
    /\ lk = [l \in Locks |-> [locked |-> FALSE, cpu |-> Nobody]]
    /\ cpu = [c \in CPUs |-> [IF_ |-> TRUE, ncli |-> 0, intena |-> TRUE, thread |-> c]]
    /\ stack = [t \in Threads |-> IF t \in CPUs THEN <<[ops |-> scheduler, gate |-> "loop"]>>
                                  ELSE <<[ops |-> forkret, gate |-> "trap"]>>]
    /\ phase = [t \in Threads |-> "start"]
    /\ saved = [t \in Threads |-> TRUE]
    /\ panic = ""

T(c) == cpu[c].thread
Frame(c) == Head(stack[T(c)])
At(c, op) ==
    /\ panic = "" /\ stack[T(c)] # <<>> /\ Frame(c).ops # <<>>
    /\ Head(Frame(c).ops).op = op
L(c) == Head(Frame(c).ops).lock
Advance(c) == stack' = [stack EXCEPT ![T(c)][1].ops = Tail(@)]
Phase(c, from, to) == phase[T(c)] = from /\ phase' = [phase EXCEPT ![T(c)] = to]

pushcli(k) == [k EXCEPT !.IF_ = FALSE, !.ncli = @ + 1,
                        !.intena = IF k.ncli = 0 THEN k.IF_ ELSE @]

popcli(k) == [k EXCEPT !.ncli = @ - 1, !.IF_ = k.ncli = 1 /\ k.intena]

holding(c, l) == lk[l].locked /\ lk[l].cpu = c

(* acquire(): pushcli() and the test, the xchg, the record of the CPU. *)
acquire(c) ==
    /\ At(c, "acquire") /\ Phase(c, "start", "xchg")
    /\ cpu' = [cpu EXCEPT ![c] = pushcli(@)]
    /\ panic' = IF holding(c, L(c)) THEN "acquire" ELSE ""
    /\ UNCHANGED <<lk, stack, saved>>

acquire_xchg(c) ==
    /\ At(c, "acquire") /\ Phase(c, "xchg", "own")
    /\ ~lk[L(c)].locked
    /\ lk' = [lk EXCEPT ![L(c)].locked = TRUE]
    /\ UNCHANGED <<cpu, stack, saved, panic>>

acquire_own(c) ==
    /\ At(c, "acquire") /\ Phase(c, "own", "start")
    /\ lk' = [lk EXCEPT ![L(c)].cpu = c]
    /\ Advance(c)
    /\ UNCHANGED <<cpu, saved, panic>>

Unlock(c, owner) ==
    /\ At(c, "release")
    /\ IF ~holding(c, L(c))
       THEN panic' = "release" /\ UNCHANGED <<lk, cpu, stack>>
       ELSE /\ lk' = [lk EXCEPT ![L(c)] = [locked |-> FALSE, cpu |-> owner]]
            /\ cpu' = [cpu EXCEPT ![c] = popcli(@)]
            /\ panic' = IF cpu[c].IF_ \/ cpu[c].ncli < 1 THEN "popcli" ELSE ""
            /\ Advance(c)
    /\ UNCHANGED <<phase, saved>>

(* Fault: lk->cpu is left. *)
releaseKeepsCpu(c) == At(c, "release") /\ Unlock(c, lk[L(c)].cpu)

(* release(): lk->cpu is reset while the lock is still held, which no other
   CPU can tell from the store of lk->locked that follows.                 *)
release(c) == Unlock(c, Nobody)

-----------------------------------------------------------------------------
(* Context switches *)

(* Fault: intena is not restored. *)
RunKeeps(c, t) == [cpu EXCEPT ![c].thread = t]

Run(c, t) == [cpu EXCEPT ![c].thread = t, ![c].intena = saved[t]]

sched(c) ==
    /\ At(c, "swtch") /\ T(c) \in Procs
    /\ IF ~holding(c, "ptable") \/ cpu[c].ncli # 1 \/ cpu[c].IF_
       THEN panic' = "sched" /\ UNCHANGED <<cpu, stack, saved>>
       ELSE /\ saved' = [saved EXCEPT ![T(c)] = cpu[c].intena]
            /\ cpu' = [cpu EXCEPT ![c].thread = c]
            /\ Advance(c)
            /\ panic' = ""
    /\ UNCHANGED <<lk, phase>>

(* scheduler() switches to some process, or finds none. *)
schedule(c) ==
    /\ At(c, "swtch") /\ T(c) = c
    /\ \/ cpu' = cpu
       \/ \E t \in Procs : /\ \A d \in CPUs : T(d) # t
                           /\ cpu' = Run(c, t)
    /\ Advance(c)
    /\ UNCHANGED <<lk, phase, saved, panic>>

-----------------------------------------------------------------------------
(* Entering and leaving the kernel *)

syscall(c, path) ==
    /\ panic = "" /\ stack[T(c)] = <<>>
    /\ stack' = [stack EXCEPT ![T(c)] = <<[ops |-> path, gate |-> "trap"]>>]
    /\ UNCHANGED <<lk, cpu, phase, saved, panic>>

interrupt(c, path) ==
    /\ panic = "" /\ cpu[c].IF_ /\ Len(stack[T(c)]) < MaxDepth
    /\ stack' = [stack EXCEPT ![T(c)] = <<[ops |-> path, gate |-> "intr"]>> \o @]
    /\ cpu' = [cpu EXCEPT ![c].IF_ = FALSE]
    /\ UNCHANGED <<lk, phase, saved, panic>>

(* iret restores IF, which was set; the loop of scheduler() starts with sti. *)
return(c) ==
    /\ panic = "" /\ stack[T(c)] # <<>> /\ Frame(c).ops = <<>>
    /\ cpu' = [cpu EXCEPT ![c].IF_ = TRUE]
    /\ stack' = [stack EXCEPT ![T(c)] =
                    IF Frame(c).gate = "loop" THEN <<[ops |-> scheduler, gate |-> "loop"]>>
                    ELSE Tail(@)]
    /\ UNCHANGED <<lk, phase, saved, panic>>

Next ==
    \E c \in CPUs :
       \/ acquire(c) \/ acquire_xchg(c) \/ acquire_own(c)
       \/ release(c) \/ sched(c) \/ schedule(c)
       \/ \E path \in Paths : syscall(c, path)
       \/ interrupt(c, timer(c, T(c))) \/ interrupt(c, consoleintr)
       \/ return(c)

Spec == Init /\ [][Next]_vars

-----------------------------------------------------------------------------
(* Properties *)

InHandler(c) == \E k \in DOMAIN stack[T(c)] : stack[T(c)][k].gate = "intr"

(* A process has taken user_lock, with which Aquire() returns to user mode. *)
UserHolds == lk["user"].locked

(* Interrupts are on exactly outside of critical sections and handlers:
   pushcli() and popcli() nest, and sched() keeps intena with its thread
   (spinlock.c:104-125, proc.c:601-606).  The scheduler's own thread may end
   a round with them off and turns them on at the next.                    *)
InterruptsMatch ==
    panic = "" /\ ~UserHolds => \A c \in CPUs :
       \/ cpu[c].ncli > 0 /\ ~cpu[c].IF_
       \/ cpu[c].ncli = 0 /\ cpu[c].IF_ = ~InHandler(c)
       \/ cpu[c].ncli = 0 /\ T(c) = c /\ Frame(c).ops = <<>>

(* Each CPU counts as many pushcli()s as it has locks, although ptable.lock is
   taken by one thread and released by another (spinlock.c:88-125).        *)
NcliCounts ==
    panic = "" => \A c \in CPUs :
       cpu[c].ncli = Cardinality({l \in Locks : holding(c, l)})
                     + (IF phase[T(c)] = "start" THEN 0 ELSE 1)

(* No kernel path takes a lock twice, releases one that it does not hold, or
   enters the scheduler with another lock (spinlock.c:28, 49, proc.c:613-620):
   only Aquire(), which keeps its lock when it returns, can lead there.    *)
NoLockPanic == panic # "" => UserHolds

Spins(c) == At(c, "acquire") /\ phase[T(c)] = "xchg"

(* Two CPUs spin for locks that they hold against each other only when one of
   them is in a system call that takes ptable.lock first, fork() for tickslock
   (proc.c:393) or print_bitches() for cons.lock (proc.c:287); no handler and
   no other path takes part against the order.                             *)
OnlyPtableFirstDeadlocks ==
    LET Spinning == {c \in CPUs : Spins(c)}
    IN  \A c, d \in Spinning :
           holding(d, L(c)) /\ holding(c, L(d))
              => \E k \in {c, d} : /\ holding(k, "ptable") /\ ~InHandler(k)
                                   /\ L(k) \in {"ticks", "cons"}
=============================================================================
