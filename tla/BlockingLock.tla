---------------------------- MODULE BlockingLock ----------------------------
(***************************************************************************)
(* The two blocking locks of the kernel, over the sleep/wakeup protocol of *)
(* proc.c.  acquiresleep (sleeplock.c) and acquir_priority                 *)
(* (priority_lock.c) are the same code; the release calls differ only in   *)
(* whom they wake: wakeup wakes every sleeper, wakeup_pl the one with the  *)
(* highest pid.  The variable kind, which no step changes, says which of   *)
(* the two this lock is.                                                   *)
(*                                                                         *)
(* Two spinlocks take part, lk->lk and ptable.lock.  A step of the model   *)
(* is the code between two points where one of them is taken or given up.  *)
(* Which RUNNABLE process gets a CPU is the subject of module Scheduler;   *)
(* here any of them may take its next step.                                *)
(***************************************************************************)
EXTENDS Integers

CONSTANTS MaxPid,           \* greatest value of p->pid, an int
          Pids,             \* pids of the processes that use the lock
          KillBound         \* how many times sys_kill is called

ASSUME PidsAssumption == MaxPid \in Nat /\ Pids \subseteq 1 .. MaxPid
ASSUME KillAssumption == KillBound \in Nat

NoPid == 0

VARIABLES locked,   \* lk->locked
          lkpid,    \* lk->pid
          lkSpin,   \* holder of the spinlock lk->lk, or NoPid
          ptSpin,   \* holder of ptable.lock, or NoPid
          state,    \* p->state: "RUNNABLE" covers RUNNING here
          chan,     \* p->chan: the lock or nothing
          pc,       \* where in the lock's code the process is
          kills,    \* calls of sys_kill so far
          kind      \* struct sleeplock or struct priority_lock

vars == <<locked, lkpid, lkSpin, ptSpin, state, chan, pc, kills, kind>>

Pcs == {"out",      \* not in the lock's code, does not hold the lock
        "acquire",  \* spinning on lk->lk, on entry or back from sleep
        "test",     \* holds lk->lk, at while(lk->locked)
        "sleep",    \* in sleep(), spinning on ptable.lock, holds lk->lk
        "drop",     \* holds both, about to release lk->lk
        "sched",    \* holds ptable.lock, about to become SLEEPING
        "asleep",   \* switched out in sched()
        "tidy",     \* scheduled again, holds ptable.lock
        "held",     \* owns the lock
        "wake",     \* lock cleared, in wakeup, spinning on ptable.lock
        "leave"}    \* about to release lk->lk in the release call

TypeOK ==
    /\ locked \in {0, 1}
    /\ lkpid \in Pids \cup {NoPid}
    /\ lkSpin \in Pids \cup {NoPid}
    /\ ptSpin \in Pids \cup {NoPid}
    /\ state \in [Pids -> {"RUNNABLE", "SLEEPING"}]
    /\ chan \in [Pids -> {"none", "lk"}]
    /\ pc \in [Pids -> Pcs]
    /\ kills \in 0 .. KillBound
    /\ kind \in {"sleep", "priority"}

Init ==
    /\ locked = 0
    /\ lkpid = NoPid
    /\ lkSpin = NoPid
    /\ ptSpin = NoPid
    /\ state = [p \in Pids |-> "RUNNABLE"]
    /\ chan = [p \in Pids |-> "none"]
    /\ pc = [p \in Pids |-> "out"]
    /\ kills = 0
    /\ kind \in {"sleep", "priority"}

Goto(p, l) == pc' = [pc EXCEPT ![p] = l]

-----------------------------------------------------------------------------
(* acquiresleep / acquir_priority *)

(* The call; acquire(&lk->lk) starts to spin. *)
CallAcquire(p) ==
    /\ pc[p] = "out"
    /\ Goto(p, "acquire")
    /\ UNCHANGED <<locked, lkpid, lkSpin, ptSpin, state, chan, kills, kind>>

SpinAcquire(p) ==
    /\ pc[p] = "acquire"
    /\ lkSpin = NoPid
    /\ lkSpin' = p
    /\ Goto(p, "test")
    /\ UNCHANGED <<locked, lkpid, ptSpin, state, chan, kills, kind>>

(* Fault: sleep() gives up lk->lk before it has ptable.lock. *)
TestLockedDropsFirst(p) ==
    /\ pc[p] = "test"
    /\ locked = 1
    /\ lkSpin' = NoPid
    /\ Goto(p, "sleep")
    /\ UNCHANGED <<locked, lkpid, ptSpin, state, chan, kills, kind>>

(* while(lk->locked) leads into sleep(lk, &lk->lk). *)
TestLocked(p) ==
    /\ pc[p] = "test"
    /\ locked = 1
    /\ Goto(p, "sleep")
    /\ UNCHANGED <<locked, lkpid, lkSpin, ptSpin, state, chan, kills, kind>>

(* Fault: a woken process does not test lk->locked again. *)
TakeLockUntested(p) ==
    /\ pc[p] = "test"
    /\ locked' = 1
    /\ lkpid' = p
    /\ lkSpin' = NoPid
    /\ Goto(p, "held")
    /\ UNCHANGED <<ptSpin, state, chan, kills, kind>>

TakeLock(p) ==
    /\ pc[p] = "test"
    /\ locked = 0
    /\ locked' = 1
    /\ lkpid' = p
    /\ lkSpin' = NoPid
    /\ Goto(p, "held")
    /\ UNCHANGED <<ptSpin, state, chan, kills, kind>>

-----------------------------------------------------------------------------
(* sleep(lk, &lk->lk) *)

SleepAcquirePtable(p) ==
    /\ pc[p] = "sleep"
    /\ ptSpin = NoPid
    /\ ptSpin' = p
    /\ Goto(p, "drop")
    /\ UNCHANGED <<locked, lkpid, lkSpin, state, chan, kills, kind>>

SleepReleaseLk(p) ==
    /\ pc[p] = "drop"
    /\ lkSpin' = NoPid
    /\ Goto(p, "sched")
    /\ UNCHANGED <<locked, lkpid, ptSpin, state, chan, kills, kind>>

(* chan and state are set and sched() hands ptable.lock to the scheduler,
   which releases it.                                                      *)
GoToSleep(p) ==
    /\ pc[p] = "sched"
    /\ chan' = [chan EXCEPT ![p] = "lk"]
    /\ state' = [state EXCEPT ![p] = "SLEEPING"]
    /\ ptSpin' = NoPid
    /\ Goto(p, "asleep")
    /\ UNCHANGED <<locked, lkpid, lkSpin, kills, kind>>

(* scheduler() takes ptable.lock and switches to p, which now holds it. *)
Resume(p) ==
    /\ pc[p] = "asleep"
    /\ state[p] = "RUNNABLE"
    /\ ptSpin = NoPid
    /\ ptSpin' = p
    /\ Goto(p, "tidy")
    /\ UNCHANGED <<locked, lkpid, lkSpin, state, chan, kills, kind>>

TidyUp(p) ==
    /\ pc[p] = "tidy"
    /\ chan' = [chan EXCEPT ![p] = "none"]
    /\ ptSpin' = NoPid
    /\ Goto(p, "acquire")
    /\ UNCHANGED <<locked, lkpid, lkSpin, state, kills, kind>>

-----------------------------------------------------------------------------
(* releasesleep / release_priority *)

(* acquire(&lk->lk) and the two assignments: nobody reads locked or pid
   without lk->lk.                                                         *)
ClearLock(p) ==
    /\ pc[p] = "held"
    /\ lkSpin = NoPid
    /\ lkSpin' = p
    /\ locked' = 0
    /\ lkpid' = NoPid
    /\ Goto(p, "wake")
    /\ UNCHANGED <<ptSpin, state, chan, kills, kind>>

Sleepers == {p \in Pids : state[p] = "SLEEPING" /\ chan[p] = "lk"}

Highest(S) == {p \in S : \A q \in S : q <= p}

Woken == IF kind = "priority" THEN Highest(Sleepers) ELSE Sleepers

(* wakeup(lk) or wakeup_pl(lk), one critical section of ptable.lock. *)
Wakeup(p) ==
    /\ pc[p] = "wake"
    /\ ptSpin = NoPid
    /\ state' = [q \in Pids |-> IF q \in Woken THEN "RUNNABLE" ELSE state[q]]
    /\ Goto(p, "leave")
    /\ UNCHANGED <<locked, lkpid, lkSpin, ptSpin, chan, kills, kind>>

ReleaseReturn(p) ==
    /\ pc[p] = "leave"
    /\ lkSpin' = NoPid
    /\ Goto(p, "out")
    /\ UNCHANGED <<locked, lkpid, ptSpin, state, chan, kills, kind>>

-----------------------------------------------------------------------------
(* kill(pid) from any other process: it wakes p out of any sleep.  The
   waiting loops do not look at p->killed, so the flag itself is left out. *)
Kill(p) ==
    /\ kills < KillBound
    /\ ptSpin = NoPid
    /\ kills' = kills + 1
    /\ state' = [state EXCEPT ![p] = "RUNNABLE"]
    /\ UNCHANGED <<locked, lkpid, lkSpin, ptSpin, chan, pc, kind>>

Step(p) ==
    \/ SpinAcquire(p)
    \/ TestLocked(p)
    \/ TakeLock(p)
    \/ SleepAcquirePtable(p)
    \/ SleepReleaseLk(p)
    \/ GoToSleep(p)
    \/ Resume(p)
    \/ TidyUp(p)
    \/ ClearLock(p)
    \/ Wakeup(p)
    \/ ReleaseReturn(p)

Next == \E p \in Pids : CallAcquire(p) \/ Step(p) \/ Kill(p)

(* A process inside the lock's code is scheduled again and again, and its
   critical section ends.  Nothing makes a process call acquire, or kill.  *)
Fairness == \A p \in Pids : WF_vars(Step(p))

Spec == Init /\ [][Next]_vars /\ Fairness

-----------------------------------------------------------------------------
(* The inductive invariant behind the properties. *)

(* A spinlock is held by the process whose program counter says so. *)
SpinOwners ==
    /\ \A p \in Pids : lkSpin = p
          <=> pc[p] \in {"test", "sleep", "drop", "wake", "leave"}
    /\ \A p \in Pids : ptSpin = p <=> pc[p] \in {"drop", "sched", "tidy"}

(* lk->locked and lk->pid name the process in the critical section. *)
LockOwner ==
    /\ locked = 1 <=> lkpid # NoPid
    /\ \A p \in Pids : pc[p] = "held" <=> lkpid = p

(* SLEEPING processes are switched out with chan set. *)
SleepersAreAsleep ==
    \A p \in Pids : /\ state[p] = "SLEEPING" => pc[p] = "asleep"
                    /\ pc[p] = "asleep" => chan[p] = "lk"

(* Between its test of lk->locked and becoming SLEEPING a process is covered
   first by lk->lk and then by ptable.lock: if the lock is freed meanwhile,
   the one who freed it has its wakeup still to come.                      *)
SleepWindow ==
    \A p \in Pids :
        /\ pc[p] \in {"sleep", "drop"} => locked = 1
        /\ pc[p] = "sched" /\ locked = 0 => \E q \in Pids : pc[q] = "wake"

-----------------------------------------------------------------------------
(* Properties *)

(* At most one process owns the lock, and lk->locked and lk->pid say who:
   a woken process tests lk->locked again before it takes the lock
   (sleeplock.c:26, priority_lock.c:23).                                   *)
MutualExclusion ==
    /\ \A p, q \in Pids : pc[p] = "held" /\ pc[q] = "held" => p = q
    /\ \A p \in Pids : pc[p] = "held" <=> locked = 1 /\ lkpid = p

(* A process that will test lk->locked again, or wake someone who will. *)
InTransit(p) ==
    \/ pc[p] \in {"acquire", "test", "tidy", "wake"}
    \/ pc[p] = "asleep" /\ state[p] = "RUNNABLE"

(* No lost wakeup: the lock is never free with a process asleep on it
   unless some other process is on its way to take it or to wake a sleeper.
   sleep() gives up lk->lk only under ptable.lock (proc.c:670-680); waking
   only one sleeper (proc.c:718) is enough because every waiter retests.   *)
NoLostWakeup ==
    locked = 0 /\ (\E p \in Pids : state[p] = "SLEEPING")
        => \E q \in Pids : InTransit(q)

(* The invariant that steps preserve; NoLostWakeup alone is not inductive:
   it needs the window between the test and the sleep to be covered.       *)
IInv ==
    /\ TypeOK
    /\ SpinOwners
    /\ LockOwner
    /\ SleepersAreAsleep
    /\ SleepWindow
    /\ NoLostWakeup

(* The lock implements AbstractLock: requests are served one at a time and
   the lock does not stay free while somebody wants it.                    *)
Wants == {p \in Pids : pc[p] \in {"acquire", "test", "sleep", "drop", "sched",
                                  "asleep", "tidy"}}

Abs == INSTANCE AbstractLock WITH wants <- Wants, holder <- lkpid

ImplementsLock == Abs!AbsSpec
=============================================================================
