-------------------------------- MODULE Pipe --------------------------------
(***************************************************************************)
(* One pipe (pipe.c) and the processes that hold its ends: readers and     *)
(* writers that block on each other through sleep and wakeup under p->lock,*)
(* are killed at any moment, and close their end when they leave.          *)
(*                                                                         *)
(* p->lock is a variable, since kill() does not take it: the test of       *)
(* myproc()->killed and the sleep after it are different steps.  nread and *)
(* nwrite are unsigned and wrap around at Wrap (2^32 in the code).         *)
(***************************************************************************)
EXTENDS Integers, FiniteSets

CONSTANTS Readers, Writers,  \* processes with the read or the write end open
          Bytes,
          PIPESIZE,
          Wrap,              \* number of values of a uint
          MaxCount           \* bound: largest n of a read or write

ASSUME SizeAssumption ==
    /\ PIPESIZE \in Nat \ {0}
    /\ Wrap \in Nat /\ Wrap > PIPESIZE /\ Wrap % PIPESIZE = 0
    /\ MaxCount \in Nat

Procs == Readers \cup Writers
Nobody == "nobody"

ASSUME RolesAssumption == Readers \cap Writers = {} /\ Nobody \notin Procs

VARIABLES data, nread, nwrite, readopen, writeopen,
          freed,   \* kfree(p) has been called
          lock,    \* who holds p->lock
          pc,      \* where each process is
          n,       \* bytes its call has yet to transfer
          open,    \* it still has its file open
          killed

vars == <<data, nread, nwrite, readopen, writeopen, freed, lock, pc, n, open,
          killed>>

pipeVars == <<data, nread, nwrite, readopen, writeopen, freed>>

Pcs == {"user",    \* not in a system call on this pipe
        "acquire", \* spinning for p->lock, at the start or after sleep()
        "test",    \* lock held, at the head of a loop
        "sleep",   \* lock held, about to call sleep()
        "asleep"}

TypeOK ==
    /\ data \in [0 .. PIPESIZE - 1 -> Bytes]
    /\ nread \in 0 .. Wrap - 1 /\ nwrite \in 0 .. Wrap - 1
    /\ readopen \in {0, 1} /\ writeopen \in {0, 1} /\ freed \in {0, 1}
    /\ lock \in Procs \cup {Nobody}
    /\ pc \in [Procs -> Pcs]
    /\ n \in [Procs -> 0 .. MaxCount]
    /\ open \in [Procs -> {0, 1}]
    /\ killed \in [Procs -> {0, 1}]

(* pipealloc(), and the ends handed out by fork and dup. *)
Init ==
    /\ \E v \in Bytes : data = [i \in 0 .. PIPESIZE - 1 |-> v]
    /\ nread = 0 /\ nwrite = 0
    /\ readopen = 1 /\ writeopen = 1
    /\ freed = 0
    /\ lock = Nobody
    /\ pc = [p \in Procs |-> "user"]
    /\ n = [p \in Procs |-> 0]
    /\ open = [p \in Procs |-> 1]
    /\ killed = [p \in Procs |-> 0]

Used == (nwrite - nread) % Wrap

Full == nwrite = (nread + PIPESIZE) % Wrap

Empty == nread = nwrite

(* wakeup(&p->nread) wakes the readers, wakeup(&p->nwrite) the writers. *)
Awake(s, S) == [p \in Procs |->
                  IF p \in S /\ s[p] = "asleep" THEN "acquire" ELSE s[p]]

-----------------------------------------------------------------------------
(* A call of read or write with count k, and acquire(&p->lock). *)
Call(p, k) ==
    /\ pc[p] = "user"
    /\ open[p] = 1 /\ killed[p] = 0
    /\ pc' = [pc EXCEPT ![p] = "acquire"]
    /\ n' = [n EXCEPT ![p] = k]
    /\ UNCHANGED <<pipeVars, lock, open, killed>>

Acquire(p) ==
    /\ pc[p] = "acquire"
    /\ lock = Nobody
    /\ lock' = p
    /\ pc' = [pc EXCEPT ![p] = "test"]
    /\ UNCHANGED <<pipeVars, n, open, killed>>

(* sleep(chan, &p->lock): gives the lock back once it sleeps. *)
Sleep(p) ==
    /\ pc[p] = "sleep"
    /\ pc' = [pc EXCEPT ![p] = "asleep"]
    /\ lock' = Nobody
    /\ UNCHANGED <<pipeVars, n, open, killed>>

(* release(&p->lock); return -1 *)
GiveUp(p) ==
    /\ pc' = [pc EXCEPT ![p] = "user"]
    /\ n' = [n EXCEPT ![p] = 0]
    /\ lock' = Nobody
    /\ UNCHANGED <<pipeVars, open, killed>>

-----------------------------------------------------------------------------
(* piperead() *)

ReadEmpty(p) ==
    /\ p \in Readers
    /\ pc[p] = "test"
    /\ Empty /\ writeopen = 1
    /\ IF killed[p] = 1
       THEN GiveUp(p)
       ELSE /\ pc' = [pc EXCEPT ![p] = "sleep"]
            /\ UNCHANGED <<pipeVars, lock, n, open, killed>>

(* Fault: the writers are not woken. *)
ReadCopySilent(p) ==
    LET k == IF n[p] < Used THEN n[p] ELSE Used
    IN  /\ p \in Readers
        /\ pc[p] = "test"
        /\ ~(Empty /\ writeopen = 1)
        /\ nread' = (nread + k) % Wrap
        /\ pc' = [pc EXCEPT ![p] = "user"]
        /\ n' = [n EXCEPT ![p] = 0]
        /\ lock' = Nobody
        /\ UNCHANGED <<data, nwrite, readopen, writeopen, freed, open, killed>>

(* The copy loop, which stops at n bytes or at the last one written. *)
ReadCopy(p) ==
    LET k == IF n[p] < Used THEN n[p] ELSE Used
    IN  /\ p \in Readers
        /\ pc[p] = "test"
        /\ ~(Empty /\ writeopen = 1)
        /\ nread' = (nread + k) % Wrap
        /\ pc' = Awake([pc EXCEPT ![p] = "user"], Writers)
        /\ n' = [n EXCEPT ![p] = 0]
        /\ lock' = Nobody
        /\ UNCHANGED <<data, nwrite, readopen, writeopen, freed, open, killed>>

-----------------------------------------------------------------------------
(* pipewrite() *)

WriteFull(p) ==
    /\ p \in Writers
    /\ pc[p] = "test"
    /\ n[p] > 0 /\ Full
    /\ IF readopen = 0 \/ killed[p] = 1
       THEN GiveUp(p)
       ELSE /\ pc' = Awake([pc EXCEPT ![p] = "sleep"], Readers)
            /\ UNCHANGED <<pipeVars, lock, n, open, killed>>

(* Fault: nwrite is incremented before it indexes the buffer. *)
WriteByteEarly(p, v) ==
    /\ p \in Writers
    /\ pc[p] = "test"
    /\ n[p] > 0 /\ ~Full
    /\ nwrite' = (nwrite + 1) % Wrap
    /\ data' = [data EXCEPT ![nwrite' % PIPESIZE] = v]
    /\ n' = [n EXCEPT ![p] = @ - 1]
    /\ UNCHANGED <<nread, readopen, writeopen, freed, lock, pc, open, killed>>

(* p->data[p->nwrite++ % PIPESIZE] = addr[i], addr[i] being any byte v. *)
WriteByte(p, v) ==
    /\ p \in Writers
    /\ pc[p] = "test"
    /\ n[p] > 0 /\ ~Full
    /\ data' = [data EXCEPT ![nwrite % PIPESIZE] = v]
    /\ nwrite' = (nwrite + 1) % Wrap
    /\ n' = [n EXCEPT ![p] = @ - 1]
    /\ UNCHANGED <<nread, readopen, writeopen, freed, lock, pc, open, killed>>

WriteDone(p) ==
    /\ p \in Writers
    /\ pc[p] = "test"
    /\ n[p] = 0
    /\ pc' = Awake([pc EXCEPT ![p] = "user"], Readers)
    /\ lock' = Nobody
    /\ UNCHANGED <<pipeVars, n, open, killed>>

-----------------------------------------------------------------------------
(* close(), also by exit().  fileclose() calls pipeclose() for the last
   process that has this end open.                                         *)

(* Those with the same end open. *)
Peers(p) == {r \in IF p \in Readers THEN Readers ELSE Writers : open[r] = 1}

(* Fault: the end that is closed last frees, the other is not looked at. *)
pipecloseFrees(p) ==
    /\ lock = Nobody
    /\ IF p \in Writers
       THEN writeopen' = 0 /\ pc' = Awake(pc, Readers) /\ UNCHANGED readopen
       ELSE readopen' = 0 /\ pc' = Awake(pc, Writers) /\ UNCHANGED writeopen
    /\ freed' = 1

pipeclose(p) ==
    /\ lock = Nobody
    /\ IF p \in Writers
       THEN writeopen' = 0 /\ pc' = Awake(pc, Readers) /\ UNCHANGED readopen
       ELSE readopen' = 0 /\ pc' = Awake(pc, Writers) /\ UNCHANGED writeopen
    /\ freed' = IF readopen' = 0 /\ writeopen' = 0 THEN 1 ELSE freed

Close(p) ==
    /\ pc[p] = "user"
    /\ open[p] = 1
    /\ open' = [open EXCEPT ![p] = 0]
    /\ IF Peers(p) = {p}
       THEN pipeclose(p)
       ELSE UNCHANGED <<readopen, writeopen, freed, pc>>
    /\ UNCHANGED <<data, nread, nwrite, lock, n, killed>>

(* kill() takes ptable.lock only. *)
Kill(p) ==
    /\ open[p] = 1 /\ killed[p] = 0
    /\ killed' = [killed EXCEPT ![p] = 1]
    /\ pc' = Awake(pc, {p})
    /\ UNCHANGED <<pipeVars, lock, n, open>>

-----------------------------------------------------------------------------
KernelStep(p) ==
    \/ Acquire(p) \/ Sleep(p)
    \/ ReadEmpty(p) \/ ReadCopy(p)
    \/ WriteFull(p) \/ WriteDone(p)
    \/ \E v \in Bytes : WriteByte(p, v)

Next ==
    \E p \in Procs :
        \/ \E k \in 0 .. MaxCount : Call(p, k)
        \/ KernelStep(p)
        \/ Close(p)
        \/ Kill(p)

SafeSpec == Init /\ [][Next]_vars

(* A process in the kernel goes on, gets the spin lock if it is free again
   and again, and exits, closing its end, when it has been killed.  Nobody
   has to call read, write or close.                                       *)
Fairness ==
    \A p \in Procs :
        /\ SF_vars(KernelStep(p))
        /\ SF_vars(killed[p] = 1 /\ Close(p))

Spec == SafeSpec /\ Fairness

-----------------------------------------------------------------------------
(* Properties *)

(* The bytes in the pipe, oldest first. *)
Contents == [i \in 1 .. Used |-> data[(nread + i - 1) % PIPESIZE]]

Abs == INSTANCE Fifo WITH q <- Contents, Capacity <- PIPESIZE

(* Bytes come out in the order in which they went in, none lost, doubled or
   overwritten, also when nread and nwrite wrap around (pipe.c:85-93, 112-116). *)
ImplementsFifo == Abs!FifoSpec

(* No lost wakeup: a writer sleeps only on a full pipe with a reader left, and
   a reader only on an empty pipe with a writer left, unless a writer with the
   lock is about to wake it or has been killed (pipe.c:65-68, 88-95, 118). *)
SleepersWait ==
    \A p \in Procs : pc[p] = "asleep" =>
        IF p \in Readers
        THEN /\ writeopen = 1
             /\ \/ Empty
                \/ lock \in Writers /\ pc[lock] = "test"
                \/ \E w \in Writers : killed[w] = 1
        ELSE readopen = 1 /\ Full

(* The pipe is freed once, after the last process has left it: nobody is in
   piperead or pipewrite with a pointer to it (pipe.c:70-72).              *)
FreedIsUnused == freed = 1 => \A p \in Procs : pc[p] = "user" /\ open[p] = 0

(* What SleepersWait and FreedIsUnused rest on.  Whoever is between acquire()
   and release() has the lock; an end is closed after its last user, who is then
   in no call, and the page is freed after both; the condition for sleep() still
   holds when the process goes to sleep; the counters are at most a full buffer
   apart.                                                                  *)
LockOwner == \A p \in Procs : pc[p] \in {"test", "sleep"} <=> lock = p

EndsMatch ==
    /\ \A p \in Procs : open[p] = 0 => pc[p] = "user"
    /\ readopen = 0 => \A p \in Readers : open[p] = 0
    /\ writeopen = 0 => \A p \in Writers : open[p] = 0
    /\ freed = 1 => readopen = 0 /\ writeopen = 0

AboutToSleep ==
    \A p \in Procs : pc[p] = "sleep" =>
        IF p \in Readers THEN writeopen = 1 /\ Empty ELSE readopen = 1 /\ Full

IInv ==
    /\ TypeOK /\ LockOwner /\ EndsMatch /\ AboutToSleep /\ SleepersWait
    /\ Used <= PIPESIZE

(* "Wake process from sleep if necessary" (proc.c:764): a process killed
   while it uses the pipe leaves it.                                       *)
KilledLeaves == \A p \in Procs : killed[p] = 1 ~> pc[p] = "user"

(* A reader waits for "pipe-empty" (pipe.c:106) to end: it does not sleep on
   while there is something to read.  This needs the writers to wake it, and
   one that is killed halfway returns without doing so (pipe.c:86-88); if it
   is the last writer, its exit closes the pipe and that wakes the reader.  *)
ReaderServed ==
    \A p \in Readers : pc[p] = "asleep" /\ ~Empty ~> pc[p] # "asleep"
=============================================================================
