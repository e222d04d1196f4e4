--------------------------- MODULE SchedulerProofs ---------------------------
(***************************************************************************)
(* Proofs about the scheduler for any number of processes and CPUs: a      *)
(* process runs on one CPU at most, and the round-robin queue is served in *)
(* the order of waiting times.                                             *)
(***************************************************************************)
EXTENDS Scheduler, FiniteSetTheorems, WellFoundedInduction, TLAPS

-----------------------------------------------------------------------------
(* The scans of the process table *)

(* A set of natural numbers that is not empty has a least element. *)
LEMMA LeastNatural ==
    ASSUME NEW T \in SUBSET Nat, T # {}
    PROVE  \E x \in T : \A y \in T : x <= y
<1> DEFINE R == OpToRel(<, Nat)
<1>1. \E x \in T : \A y \in T : ~ (<<y, x>> \in R)
  <2>1. IsWellFoundedOn(R, Nat)
    BY ZenonT(30), NatLessThanWellFounded
  <2> HIDE DEF R
  <2> QED
    BY ZenonT(30), <2>1, WFMin
<1>2. \A x, y \in T : ~ (<<y, x>> \in R) => x <= y
  BY DEF OpToRel
<1> QED
  BY ZenonT(30), <1>1, <1>2

(* A scan that keeps the first of equals finds a process if there is one. *)
LEMMA FirstExists ==
    ASSUME NEW S \in SUBSET Slots, S # {}
    PROVE  First(S) # {}
<1>1. S \in SUBSET Nat
  BY DEF Slots
<1> QED
  BY <1>1, LeastNatural DEF First

LEMMA FirstIn ==
    ASSUME NEW S
    PROVE  First(S) \subseteq S
BY DEF First

(* The ages of the processes that are kept in order only. *)
LEMMA OldCount ==
    ASSUME NEW a \in [Slots -> Nat], NEW p \in Slots
    PROVE  LET Old == {a[q] : q \in {r \in Slots : a[r] > AGING_THRS + 1}}
           IN  Cardinality({t \in Old : t <= a[p]}) \in 0 .. NPROC
<1> DEFINE Old == {a[q] : q \in {r \in Slots : a[r] > AGING_THRS + 1}}
           T == {t \in Old : t <= a[p]}
           S == {q \in Slots : a[q] > AGING_THRS + 1 /\ a[q] <= a[p]}
           f == [q \in S |-> a[q]]
<1>1. IsFiniteSet(Slots) /\ Cardinality(Slots) = NPROC
  BY FS_Interval, ConstantsAssumption DEF Slots
<1>2. S \in SUBSET Slots
  OBVIOUS
<1>3. f \in Surjection(S, T)
  BY DEF Surjection
<1> HIDE DEF S, T, f
<1>4. IsFiniteSet(S) /\ Cardinality(S) <= NPROC /\ Cardinality(S) \in Nat
  <2>1. IsFiniteSet(S) /\ Cardinality(S) <= Cardinality(Slots)
    BY <1>1, <1>2, FS_Subset
  <2> QED
    BY <2>1, <1>1, FS_CardinalityType
<1>5. IsFiniteSet(T) /\ Cardinality(T) <= Cardinality(S)
  BY <1>3, <1>4, FS_Surjection
<1>6. Cardinality(T) \in Nat
  BY <1>5, FS_CardinalityType
<1>7. Cardinality(T) \in 0 .. NPROC
  BY <1>4, <1>5, <1>6, ConstantsAssumption
<1> QED
  BY <1>7 DEF T

Ages == 0 .. AGING_THRS + 1 + NPROC

(* Forgetting how old the oldest are keeps the ages within their bound. *)
LEMMA NormalType ==
    ASSUME NEW a \in [Slots -> Nat]
    PROVE  Normal(a) \in [Slots -> Ages]
<1> SUFFICES ASSUME NEW p \in Slots PROVE Normal(a)[p] \in Ages
  BY DEF Normal
<1> DEFINE Old == {a[q] : q \in {r \in Slots : a[r] > AGING_THRS + 1}}
           n == Cardinality({t \in Old : t <= a[p]})
<1>1. n \in 0 .. NPROC
  BY OldCount
<1>2. Normal(a)[p] = IF a[p] <= AGING_THRS + 1 THEN a[p] ELSE AGING_THRS + 1 + n
  BY DEF Normal
<1> HIDE DEF n
<1> QED
  BY <1>1, <1>2, ConstantsAssumption DEF Ages

-----------------------------------------------------------------------------
(* The invariant *)

(* scheduler() switches to a RUNNABLE process only. *)
LEMMA ChoiceReady ==
    \A p \in Choice : p \in Slots /\ state[p] = "RUNNABLE"
BY FirstIn DEF Choice, round_robin, last_come_first_serve, best_job_first,
               Ranked, Ready

LEMMA InitIInv == Init => IInv
<1> SUFFICES ASSUME Init PROVE IInv
  OBVIOUS
<1>1. TypeOK
  <2>1. que_id \in [Slots -> Queues]
    BY ConstantsAssumption DEF Init, RR, LCFS, BJF
  <2>2. scan \in 0 .. NPROC + 1 /\ changes \in 0 .. ChangeBound /\ 0 \in 0 .. ExecCap
        /\ 0 \in 0 .. AGING_THRS + 1 + NPROC
    BY ConstantsAssumption DEF Init
  <2> QED
    BY ZenonT(30), <2>1, <2>2, ConstantsAssumption DEF Init, TypeOK, Ranks
<1>2. RunningOnce
  BY DEF Init, RunningOnce, Slots, None
<1> QED
  BY <1>1, <1>2 DEF Init, IInv

(* preemption_time = ticks leaves the ages in range. *)
LEMMA StampType ==
    ASSUME TypeOK, NEW p \in Slots, Stamp(p)
    PROVE  age' \in [Slots -> Ages]
<1>1. [age EXCEPT ![p] = 0] \in [Slots -> Nat]
  BY ConstantsAssumption DEF TypeOK
<1> QED
  BY ZenonT(30), <1>1, NormalType DEF Stamp

LEMMA CountType ==
    ASSUME TypeOK, NEW p \in Slots, Count(p)
    PROVE  exec' \in [Slots -> 0 .. ExecCap]
BY ConstantsAssumption DEF TypeOK, Count

LEMMA NextIInv == IInv /\ [Next]_vars => IInv'
<1> SUFFICES ASSUME IInv, [Next]_vars PROVE IInv'
  OBVIOUS
<1> USE ConstantsAssumption
<1>0. None \notin Slots
  BY DEF Slots, None
<1>1. ASSUME NEW c \in CPUs, Schedule(c) PROVE IInv'
  <2> PICK p \in Choice : /\ cpuProc' = [cpuProc EXCEPT ![c] = p]
                          /\ state' = [state EXCEPT ![p] = "RUNNING"]
                          /\ Stamp(p) /\ Count(p)
    BY ZenonT(30), <1>1 DEF Schedule
  <2>1. p \in Slots /\ state[p] = "RUNNABLE"
    BY ChoiceReady
  <2>2. age' \in [Slots -> Ages] /\ exec' \in [Slots -> 0 .. ExecCap]
    BY <2>1, StampType, CountType DEF IInv
  <2>3. TypeOK'
    BY ZenonT(30), <1>1, <2>1, <2>2 DEF IInv, TypeOK, Schedule, Ages
  <2>4. RunningOnce'
    BY <1>0, <1>1, <2>1 DEF IInv, TypeOK, RunningOnce, Schedule
  <2> QED
    BY <1>1, <2>1, <2>3, <2>4 DEF IInv, TypeOK, Schedule
<1>2. ASSUME NEW c \in CPUs, TimerReturn(c) PROVE IInv'
  <2>1. CASE cpuProc[c] = None
    <3>1. UNCHANGED <<state, age, exec, cpuProc, chan, que_id, hit, rank, changes>>
      BY <1>2, <2>1 DEF TimerReturn, YieldOn
    <3>2. scan' \in 0 .. NPROC + 1 /\ (hit' => scan' \in Slots)
      BY <1>2, <3>1 DEF TimerReturn, IInv, TypeOK, Slots
    <3> QED
      BY <3>1, <3>2 DEF IInv, TypeOK, RunningOnce
  <2>2. CASE cpuProc[c] # None
    <3> DEFINE p == cpuProc[c]
    <3>1. p \in Slots
      BY <2>2 DEF IInv, TypeOK
    <3>2. /\ state' = [state EXCEPT ![p] = "RUNNABLE"]
          /\ Stamp(p) /\ Count(p)
          /\ cpuProc' = [cpuProc EXCEPT ![c] = None]
          /\ UNCHANGED <<chan, que_id, hit, rank, changes>>
      BY <1>2, <2>2 DEF TimerReturn, YieldOn
    <3>3. age' \in [Slots -> Ages] /\ exec' \in [Slots -> 0 .. ExecCap]
      BY <3>1, <3>2, StampType, CountType DEF IInv
    <3>4. scan' \in 0 .. NPROC + 1 /\ (hit' => scan' \in Slots)
      BY <1>2, <3>2 DEF TimerReturn, IInv, TypeOK, Slots
    <3>5. TypeOK'
      BY ZenonT(30), <3>1, <3>2, <3>3, <3>4 DEF IInv, TypeOK, Ages
    <3>6. RunningOnce'
      BY <1>0, <3>1, <3>2 DEF IInv, TypeOK, RunningOnce
    <3>7. state[p] = "RUNNING"
      BY <3>1 DEF IInv, RunningOnce
    <3> QED
      BY <3>1, <3>2, <3>4, <3>5, <3>6, <3>7 DEF IInv, TypeOK
  <2> QED
    BY <2>1, <2>2
<1>3. ASSUME NEW c \in CPUs, NEW ch \in {"ticks", "other"}, Sleep(c, ch) PROVE IInv'
  <2>1. cpuProc[c] \in Slots
    BY <1>3 DEF Sleep, IInv, TypeOK
  <2>2. TypeOK'
    BY <1>3, <2>1 DEF Sleep, IInv, TypeOK
  <2>3. RunningOnce'
    BY <1>0, <1>3, <2>1 DEF Sleep, IInv, TypeOK, RunningOnce
  <2> QED
    BY <1>3, <2>1, <2>2, <2>3 DEF Sleep, IInv, TypeOK
<1>4. ASSUME NEW c \in CPUs, NEW p \in Slots, NEW q \in Queues, ChangeQueue(c, p, q)
      PROVE  IInv'
  BY <1>4 DEF ChangeQueue, Calls, IInv, TypeOK, RunningOnce
<1>5. ASSUME NEW c \in CPUs, NEW p \in Slots, NEW r \in Ranks, BjfProcess(c, p, r)
      PROVE  IInv'
  BY <1>5 DEF BjfProcess, Calls, IInv, TypeOK, RunningOnce
<1>6. ASSUME NEW c \in CPUs, reset_bjf_attributes(c) PROVE IInv'
  BY <1>6 DEF reset_bjf_attributes, Calls, IInv, TypeOK, RunningOnce
<1>7. ASSUME TimerTick PROVE IInv'
  <2>1. [p \in Slots |-> age[p] + 1] \in [Slots -> Nat]
    BY DEF IInv, TypeOK
  <2>2. age' \in [Slots -> Ages]
    BY <1>7, <2>1, NormalType DEF TimerTick
  <2>3. TypeOK'
    BY <1>7, <2>2 DEF TimerTick, IInv, TypeOK, Ages
  <2>4. RunningOnce'
    BY <1>7 DEF TimerTick, IInv, TypeOK, RunningOnce
  <2>5. \A p \in Slots : chan'[p] # "none" <=> state'[p] = "SLEEPING"
    BY <1>7 DEF TimerTick, IInv, TypeOK
  <2>6. scan' \in Slots
    BY <1>7 DEF TimerTick, Slots
  <2> QED
    BY <2>3, <2>4, <2>5, <2>6 DEF IInv
<1>8. ASSUME AgingTest PROVE IInv'
  <2>1. UNCHANGED <<state, chan, que_id, age, exec, cpuProc, rank, changes>>
    BY <1>8 DEF AgingTest
  <2>2. scan \in Slots
    BY <1>8 DEF AgingTest
  <2>3. \/ hit' = TRUE /\ scan' = scan
        \/ hit' = hit /\ ~hit /\ scan' = scan + 1
    BY <1>8 DEF AgingTest
  <2>4. scan \in 0 .. NPROC + 1 /\ scan + 1 \in 0 .. NPROC + 1
    BY <2>2 DEF Slots
  <2>5. TypeOK'
    BY ZenonT(30), <2>1, <2>3, <2>4 DEF IInv, TypeOK
  <2>6. hit' => scan' \in Slots
    BY ZenonT(30), <2>2, <2>3
  <2>7. RunningOnce'
    BY <2>1 DEF IInv, RunningOnce
  <2> QED
    BY <2>1, <2>5, <2>6, <2>7 DEF IInv
<1>9. ASSUME AgingSet PROVE IInv'
  <2>1. UNCHANGED <<state, chan, age, exec, cpuProc, rank, changes>> /\ hit' = FALSE
    BY <1>9 DEF AgingSet
  <2>2. scan' \in 0 .. NPROC + 1
    BY <1>9 DEF AgingSet, IInv, Slots
  <2>3. que_id' \in [Slots -> Queues]
    BY <1>9 DEF AgingSet, IInv, TypeOK
  <2> QED
    BY ZenonT(30), <2>1, <2>2, <2>3 DEF IInv, TypeOK, RunningOnce
<1>10. ASSUME NEW p \in Slots, Wakeup(p) PROVE IInv'
  <2>1. TypeOK'
    BY <1>10 DEF Wakeup, IInv, TypeOK
  <2>2. RunningOnce'
    BY <1>10 DEF Wakeup, IInv, TypeOK, RunningOnce
  <2> QED
    BY <1>10, <2>1, <2>2 DEF Wakeup, IInv, TypeOK
<1>11. CASE UNCHANGED vars
  BY <1>11 DEF vars, IInv, TypeOK, RunningOnce
<1> QED
  BY <1>1, <1>2, <1>3, <1>4, <1>5, <1>6, <1>7, <1>8, <1>9, <1>10, <1>11 DEF Next

(* The inductive invariant holds in every reachable state. *)
THEOREM Invariance == SafeSpec => []IInv
BY InitIInv, NextIInv, PTL DEF SafeSpec

(* No process is ever on two CPUs, and none is RUNNING without one, although
   aging() and change_queue write the table without ptable.lock.           *)
THEOREM RunningTheorem == SafeSpec => []RunningOnce
<1>1. IInv => RunningOnce
  BY DEF IInv
<1> QED
  BY <1>1, Invariance, PTL

-----------------------------------------------------------------------------
(* The order of the round-robin queue *)

(* A process that waits in the queue is not missed by the scan. *)
LEMMA RoundRobinFinds ==
    ASSUME TypeOK, Ready(RR) # {}
    PROVE  round_robin # {}
<1> DEFINE B == AGING_THRS + 1 + NPROC
           T == {B - age[p] : p \in Ready(RR)}
           Oldest == {p \in Ready(RR) : \A q \in Ready(RR) : age[q] <= age[p]}
<1>1. /\ B \in Nat
      /\ \A p \in Ready(RR) : p \in Slots /\ age[p] \in 0 .. B
  BY ConstantsAssumption DEF TypeOK, Ready
<1> HIDE DEF B
<1>2. T \in SUBSET Nat /\ T # {}
  BY <1>1
<1>3. PICK x \in T : \A y \in T : x <= y
  BY ZenonT(30), <1>2, LeastNatural
<1>4. PICK p \in Ready(RR) : x = B - age[p]
  OBVIOUS
<1>5. \A q \in Ready(RR) : age[q] <= age[p]
  <2> TAKE q \in Ready(RR)
  <2>1. B - age[q] \in T
    OBVIOUS
  <2>2. B - age[p] <= B - age[q]
    BY <1>3, <1>4, <2>1
  <2> QED
    BY <1>1, <2>2
<1>6. Oldest \in SUBSET Slots /\ Oldest # {}
  BY <1>1, <1>5
<1> QED
  BY ZenonT(30), <1>6, FirstExists DEF round_robin

(* A process starts to run only when scheduler() chooses it. *)
LEMMA StartsByChoice ==
    ASSUME IInv, Next, NEW q \in Slots, state[q] = "RUNNABLE", state'[q] = "RUNNING"
    PROVE  q \in Choice
<1>1. ASSUME NEW c \in CPUs, Schedule(c) PROVE q \in Choice
  <2> PICK p \in Choice : state' = [state EXCEPT ![p] = "RUNNING"]
    BY ZenonT(30), <1>1 DEF Schedule
  <2> QED
    BY DEF IInv, TypeOK
<1>2. ASSUME NEW c \in CPUs, TimerReturn(c) PROVE FALSE
  <2>1. state' = state \/ state' = [state EXCEPT ![cpuProc[c]] = "RUNNABLE"]
    BY <1>2 DEF TimerReturn, YieldOn
  <2> QED
    BY <2>1 DEF IInv, TypeOK
<1>3. ASSUME NEW c \in CPUs, NEW ch \in {"ticks", "other"}, Sleep(c, ch) PROVE FALSE
  BY <1>3 DEF Sleep, IInv, TypeOK
<1>4. ASSUME TimerTick PROVE FALSE
  BY <1>4 DEF TimerTick, IInv, TypeOK
<1>5. ASSUME NEW p \in Slots, Wakeup(p) PROVE FALSE
  BY <1>5 DEF Wakeup, IInv, TypeOK
<1>6. state' # state
  OBVIOUS
<1> QED
  BY <1>1, <1>2, <1>3, <1>4, <1>5, <1>6
     DEF Next, ChangeQueue, BjfProcess, reset_bjf_attributes, AgingTest, AgingSet

(* While somebody waits in the round-robin queue only the longest waiting of
   that queue is started: neither the other queues nor a process preempted
   later overtake it.                                                      *)
THEOREM OldestTheorem == SafeSpec => OldestFirst
<1> DEFINE A == \A p, q \in Slots :
         (/\ state[p] = "RUNNABLE" /\ que_id[p] = RR /\ state'[p] = "RUNNABLE"
          /\ state[q] = "RUNNABLE" /\ state'[q] = "RUNNING")
            => que_id[q] = RR /\ age[q] >= age[p]
<1>1. IInv /\ [Next]_vars => [A]_vars
  <2> SUFFICES ASSUME IInv, Next,
                      NEW p \in Slots, NEW q \in Slots,
                      state[p] = "RUNNABLE", que_id[p] = RR,
                      state[q] = "RUNNABLE", state'[q] = "RUNNING"
               PROVE  que_id[q] = RR /\ age[q] >= age[p]
    OBVIOUS
  <2>1. p \in Ready(RR)
    BY DEF Ready
  <2>2. round_robin # {}
    BY <2>1, RoundRobinFinds DEF IInv
  <2>3. q \in round_robin
    BY <2>2, StartsByChoice DEF Choice
  <2>4. q \in Ready(RR) /\ age[p] <= age[q]
    BY <2>1, <2>3 DEF round_robin, First
  <2> QED
    BY <2>4 DEF Ready, IInv, TypeOK
<1> QED
  BY <1>1, Invariance, PTL DEF SafeSpec, OldestFirst

(* The variables keep their types; the ages stay bounded although ticks does
   not.                                                                    *)
THEOREM TypeTheorem == SafeSpec => []TypeOK
<1>1. IInv => TypeOK
  BY DEF IInv
<1> QED
  BY <1>1, Invariance, PTL
=============================================================================
