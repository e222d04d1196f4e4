----------------------------- MODULE Scheduler ------------------------------
(***************************************************************************)
(* The multi-level scheduler of proc.c: three queues (round robin, last    *)
(* come first served, best job first), the timer interrupt of trap.c that  *)
(* preempts, and aging(), which moves a process that has waited too long   *)
(* to the round-robin queue.  The population of processes is fixed; their  *)
(* creation and exit are the subject of module Proc.                       *)
(*                                                                         *)
(* The clock is unbounded in the code (ticks) but only differences matter: *)
(* age[p] stands for ticks - p->preemption_time.  Ages above AGING_THRS+1  *)
(* are kept only in their order (Normal), which changes no comparison the  *)
(* code makes, now or later, since all of them grow together.              *)
(***************************************************************************)
EXTENDS Integers, FiniteSets

CONSTANTS NPROC,          \* number of processes, in slot order
          CPUs,           \* the processors
          cpu0,           \* the one whose timer interrupt advances ticks
          AGING_THRS,     \* proc.h:42
          MAX_RANK,       \* MAX_INT of defs.h: ranks from here on are not run
          creation_time,  \* p->creation_time
          first_rank,     \* p's rank under the default ratios
          Queues,         \* arguments of change_queue, valid or not
          ChangeBound,    \* bound: calls of change_queue, bjf_validation_*
          ExecCap         \* bound: executed_cycle is not counted beyond it

Slots == 1 .. NPROC

RR == 1
LCFS == 2
BJF == 3

ASSUME ConstantsAssumption ==
    /\ NPROC \in Nat \ {0} /\ cpu0 \in CPUs
    /\ AGING_THRS \in Nat /\ MAX_RANK \in Nat
    /\ ChangeBound \in Nat /\ ExecCap \in Nat
    /\ creation_time \in [Slots -> Nat] /\ first_rank \in [Slots -> 0 .. MAX_RANK]
    /\ {RR, LCFS, BJF} \subseteq Queues /\ Queues \subseteq Int

VARIABLES state,    \* p->state
          chan,     \* p->chan while SLEEPING: "ticks" or "other"
          que_id,   \* p->que_id
          age,      \* ticks - p->preemption_time
          exec,     \* p->executed_cycle, in tenths
          cpuProc,  \* c->proc
          scan,     \* slot that aging() is at on cpu0, 0 outside the handler
          hit,      \* aging() has found that slot overdue
          rank,     \* calculate_rank(p) without the executed_cycle term
          changes   \* calls of change_queue and bjf_validation_* so far

vars == <<state, chan, que_id, age, exec, cpuProc, scan, hit, rank, changes>>

None == 0

(* Ranks from MAX_RANK on are all alike: best_job_first takes none of them. *)
Ranks == 0 .. MAX_RANK

TypeOK ==
    /\ state \in [Slots -> {"SLEEPING", "RUNNABLE", "RUNNING"}]
    /\ chan \in [Slots -> {"none", "ticks", "other"}]
    /\ que_id \in [Slots -> Queues]
    /\ age \in [Slots -> 0 .. AGING_THRS + 1 + NPROC]
    /\ exec \in [Slots -> 0 .. ExecCap]
    /\ cpuProc \in [CPUs -> Slots \cup {None}]
    /\ scan \in 0 .. NPROC + 1
    /\ hit \in BOOLEAN
    /\ rank \in [Slots -> Ranks]
    /\ changes \in 0 .. ChangeBound

(* init and the shell (pids 1 and 2) start in RR, all others in LCFS. *)
Init ==
    /\ state = [p \in Slots |-> "RUNNABLE"]
    /\ chan = [p \in Slots |-> "none"]
    /\ que_id = [p \in Slots |-> IF p <= 2 THEN RR ELSE LCFS]
    /\ age = [p \in Slots |-> 0]
    /\ exec = [p \in Slots |-> 0]
    /\ cpuProc = [c \in CPUs |-> None]
    /\ scan = 0
    /\ hit = FALSE
    /\ rank = first_rank
    /\ changes = 0

-----------------------------------------------------------------------------
(* The choice of the next process *)

Ready(q) == {p \in Slots : state[p] = "RUNNABLE" /\ que_id[p] = q}

(* The scans keep the first of equals: they replace res only on a strict
   improvement.                                                            *)
First(S) == {p \in S : \A q \in S : p <= q}

(* Fault: the waiting times are not compared. *)
round_robin_first == First(Ready(RR))

round_robin ==
    First({p \in Ready(RR) : \A q \in Ready(RR) : age[q] <= age[p]})

last_come_first_serve ==
    First({p \in Ready(LCFS) :
             \A q \in Ready(LCFS) : creation_time[q] <= creation_time[p]})

calculate_rank(p) == rank[p] + exec[p]

Ranked == {p \in Ready(BJF) : calculate_rank(p) < MAX_RANK}

best_job_first ==
    First({p \in Ranked :
             \A q \in Ranked : calculate_rank(p) <= calculate_rank(q)})

(* The process scheduler() switches to, as a set of at most one element. *)
Choice ==
    IF round_robin # {} THEN round_robin
    ELSE IF last_come_first_serve # {} THEN last_come_first_serve
    ELSE best_job_first

-----------------------------------------------------------------------------
Normal(a) ==
    LET Old == {a[q] : q \in {r \in Slots : a[r] > AGING_THRS + 1}}
    IN  [p \in Slots |->
           IF a[p] <= AGING_THRS + 1 THEN a[p]
           ELSE AGING_THRS + 1 + Cardinality({t \in Old : t <= a[p]})]

(* preemption_time = ticks *)
Stamp(p) == age' = Normal([age EXCEPT ![p] = 0])

(* executed_cycle += 0.1 *)
Count(p) == exec' = [exec EXCEPT ![p] = IF @ < ExecCap THEN @ + 1 ELSE @]

(* cpu0 is inside the timer interrupt handler, with interrupts off. *)
InHandler(c) == c = cpu0 /\ scan # 0

(* One round of scheduler() that finds a process, up to the switch to it. *)
Schedule(c) ==
    /\ cpuProc[c] = None
    /\ ~InHandler(c)
    /\ \E p \in Choice :
          /\ cpuProc' = [cpuProc EXCEPT ![c] = p]
          /\ state' = [state EXCEPT ![p] = "RUNNING"]
          /\ Stamp(p)
          /\ Count(p)
    /\ UNCHANGED <<chan, que_id, scan, hit, rank, changes>>

(* yield() by the process on c, or nothing if c is idle. *)
YieldOn(c) ==
    IF cpuProc[c] = None
    THEN UNCHANGED <<state, age, exec, cpuProc>>
    ELSE /\ state' = [state EXCEPT ![cpuProc[c]] = "RUNNABLE"]
         /\ Stamp(cpuProc[c])
         /\ Count(cpuProc[c])
         /\ cpuProc' = [cpuProc EXCEPT ![c] = None]

(* The timer interrupt on cpu0: ticks++, wakeup(&ticks), then aging(). *)
TimerTick ==
    /\ scan = 0
    /\ age' = Normal([p \in Slots |-> age[p] + 1])
    /\ state' = [p \in Slots |->
                   IF chan[p] = "ticks" THEN "RUNNABLE" ELSE state[p]]
    /\ chan' = [p \in Slots |->
                  IF chan[p] = "ticks" THEN "none" ELSE chan[p]]
    /\ scan' = 1
    /\ UNCHANGED <<que_id, exec, cpuProc, hit, rank, changes>>

(* Fault: the queue test is inverted. *)
AgingTestOnlyRR ==
    /\ scan \in Slots
    /\ ~hit
    /\ IF /\ state[scan] = "RUNNABLE"
          /\ que_id[scan] = RR
          /\ age[scan] > AGING_THRS
       THEN hit' = TRUE /\ UNCHANGED scan
       ELSE scan' = scan + 1 /\ UNCHANGED hit
    /\ UNCHANGED <<state, chan, que_id, age, exec, cpuProc, rank, changes>>

(* aging() reads the slot without a lock ... *)
AgingTest ==
    /\ scan \in Slots
    /\ ~hit
    /\ IF /\ state[scan] = "RUNNABLE"
          /\ que_id[scan] # RR
          /\ age[scan] > AGING_THRS
       THEN hit' = TRUE /\ UNCHANGED scan
       ELSE scan' = scan + 1 /\ UNCHANGED hit
    /\ UNCHANGED <<state, chan, que_id, age, exec, cpuProc, rank, changes>>

(* ... and then writes it. *)
AgingSet ==
    /\ hit
    /\ que_id' = [que_id EXCEPT ![scan] = RR]
    /\ scan' = scan + 1
    /\ hit' = FALSE
    /\ UNCHANGED <<state, chan, age, exec, cpuProc, rank, changes>>

(* The end of trap() on c: the interrupted process, if there is one, yields.
   On a CPU other than cpu0 the handler does nothing else.                 *)
TimerReturn(c) ==
    /\ IF c = cpu0 THEN scan = NPROC + 1 ELSE cpuProc[c] # None
    /\ scan' = IF c = cpu0 THEN 0 ELSE scan
    /\ YieldOn(c)
    /\ UNCHANGED <<chan, que_id, hit, rank, changes>>

-----------------------------------------------------------------------------
(* The running process on c sleeps until the next tick or something else. *)
Sleep(c, ch) ==
    /\ cpuProc[c] # None
    /\ ~InHandler(c)
    /\ state' = [state EXCEPT ![cpuProc[c]] = "SLEEPING"]
    /\ chan' = [chan EXCEPT ![cpuProc[c]] = ch]
    /\ cpuProc' = [cpuProc EXCEPT ![c] = None]
    /\ UNCHANGED <<que_id, age, exec, scan, hit, rank, changes>>

Wakeup(p) ==
    /\ chan[p] = "other"
    /\ state' = [state EXCEPT ![p] = "RUNNABLE"]
    /\ chan' = [chan EXCEPT ![p] = "none"]
    /\ UNCHANGED <<que_id, age, exec, cpuProc, scan, hit, rank, changes>>

(* A system call of the process on c that changes how others are chosen. *)
Calls(c) ==
    /\ cpuProc[c] # None
    /\ ~InHandler(c)
    /\ changes < ChangeBound
    /\ changes' = changes + 1

(* sys_change_queue: the value is not checked. *)
ChangeQueue(c, p, q) ==
    /\ Calls(c)
    /\ que_id' = [que_id EXCEPT ![p] = q]
    /\ UNCHANGED <<state, chan, age, exec, cpuProc, scan, hit, rank>>

(* sys_bjf_validation_process: new ratios, hence another rank, for p. *)
BjfProcess(c, p, r) ==
    /\ Calls(c)
    /\ rank' = [rank EXCEPT ![p] = r]
    /\ UNCHANGED <<state, chan, que_id, age, exec, cpuProc, scan, hit>>

(* sys_bjf_validation_system: new ratios for every process. *)
reset_bjf_attributes(c) ==
    /\ Calls(c)
    /\ rank' \in [Slots -> Ranks]
    /\ UNCHANGED <<state, chan, que_id, age, exec, cpuProc, scan, hit>>

Next ==
    \/ \E c \in CPUs :
          \/ Schedule(c)
          \/ TimerReturn(c)
          \/ \E ch \in {"ticks", "other"} : Sleep(c, ch)
          \/ \E p \in Slots, q \in Queues : ChangeQueue(c, p, q)
          \/ \E p \in Slots, r \in Ranks : BjfProcess(c, p, r)
          \/ reset_bjf_attributes(c)
    \/ TimerTick \/ AgingTest \/ AgingSet
    \/ \E p \in Slots : Wakeup(p)

(* Timer interrupts keep coming on every CPU, the handler runs to its end,
   and an idle CPU goes round its scheduler loop between two of them: the
   loop holds ptable.lock, with interrupts off, while it chooses.          *)
Fairness ==
    /\ \A c \in CPUs : SF_vars(Schedule(c)) /\ WF_vars(TimerReturn(c))
    /\ WF_vars(TimerTick)
    /\ WF_vars(AgingTest \/ AgingSet)

SafeSpec == Init /\ [][Next]_vars

Spec == SafeSpec /\ Fairness

-----------------------------------------------------------------------------
(* Properties *)

(* No starvation: a RUNNABLE process is run in the end, whatever queue it
   sits in, valid or not, and whatever its rank.  The newest-first and the
   best-job-first queues do starve; aging() (proc.c:60) rescues what they
   leave behind, and round_robin (proc.c:508) serves the longest waiting.  *)
NoStarvation ==
    \A p \in Slots : state[p] = "RUNNABLE" ~> state[p] = "RUNNING"

(* Overtaking is bounded: a process that waits in the round-robin queue is
   not passed over for one that was preempted at a later tick (proc.c:508). *)
OldestFirst ==
    [][\A p, q \in Slots :
         (/\ state[p] = "RUNNABLE" /\ que_id[p] = RR /\ state'[p] = "RUNNABLE"
          /\ state[q] = "RUNNABLE" /\ state'[q] = "RUNNING")
            => que_id[q] = RR /\ age[q] >= age[p]]_vars

(* A process is RUNNING on exactly one CPU although aging() and change_queue
   write the table without ptable.lock (proc.c:74, sysproc.c:136).         *)
RunningOnce ==
    /\ \A p \in Slots : state[p] = "RUNNING" <=> \E c \in CPUs : cpuProc[c] = p
    /\ \A c, d \in CPUs : cpuProc[c] = cpuProc[d] /\ cpuProc[c] # None => c = d

(* What else steps preserve: a process has a channel exactly while it sleeps,
   so that wakeup() makes no running process RUNNABLE, and aging() writes the
   slot it has read.                                                       *)
IInv ==
    /\ TypeOK
    /\ RunningOnce
    /\ \A p \in Slots : chan[p] # "none" <=> state[p] = "SLEEPING"
    /\ hit => scan \in Slots
=============================================================================
