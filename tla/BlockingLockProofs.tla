------------------------- MODULE BlockingLockProofs -------------------------
(***************************************************************************)
(* Proofs about BlockingLock for every set of processes, every number of   *)
(* kills and both wakeup disciplines.                                      *)
(***************************************************************************)
EXTENDS BlockingLock, WellFoundedInduction, TLAPS

(* A non-empty set of naturals with an upper bound has a greatest element:
   the scan of wakeup_pl (proc.c:724-731) finds somebody if anybody sleeps. *)
LEMMA BoundedSetHasMax ==
    ASSUME NEW S, NEW b \in Nat, S \subseteq 0 .. b, S # {}
    PROVE  \E x \in S : \A y \in S : y <= x
<1> DEFINE T == {n \in Nat : b - n \in S}
           R == OpToRel(<, Nat)
<1>0. \A x \in S : x \in Nat /\ x <= b /\ b - x \in Nat /\ b - (b - x) = x
  OBVIOUS
<1>1. T \subseteq Nat /\ T # {}
  BY ZenonT(30), <1>0
<1>2. IsWellFoundedOn(R, Nat)
  BY ZenonT(30), NatLessThanWellFounded
<1>3. \E m \in T : \A n \in T : ~(<<n, m>> \in R)
  <2> HIDE DEF T, R
  <2> QED
    BY ZenonT(30), <1>1, <1>2, WFMin
<1>4. PICK m \in T : \A n \in T : ~(n < m)
  BY ZenonT(30), <1>1, <1>3 DEF OpToRel
<1>5. ASSUME NEW y \in S PROVE y <= b - m
  <2>1. b - y \in T
    BY <1>0
  <2>2. ~(b - y < m)
    BY <2>1, <1>4
  <2> QED
    BY <2>2, <1>0
<1> QED
  BY <1>4, <1>5

(* If somebody sleeps on the lock, wakeup and wakeup_pl both pick one of the
   sleepers.                                                               *)
LEMMA SomebodyIsWoken ==
    ASSUME Sleepers # {}
    PROVE  Woken # {} /\ Woken \subseteq Sleepers
<1>1. CASE kind = "priority"
  <2>0. Sleepers \subseteq Pids
    BY DEF Sleepers
  <2>1. Sleepers \subseteq 0 .. MaxPid /\ MaxPid \in Nat
    BY <2>0, PidsAssumption
  <2>2. \E x \in Sleepers : \A y \in Sleepers : y <= x
    BY ZenonT(30), <2>1, BoundedSetHasMax
  <2> QED
    BY <1>1, <2>2 DEF Woken, Highest
<1>2. CASE kind # "priority"
  BY <1>2 DEF Woken
<1> QED
  BY <1>1, <1>2

NotAPid == NoPid \notin Pids

(* pid 0 means "no process" in lk->pid. *)
LEMMA NoPidIsNotAPid == NotAPid
BY PidsAssumption DEF NotAPid, NoPid

LEMMA InitIInv == Init => IInv
BY NoPidIsNotAPid, KillAssumption
   DEF Init, IInv, TypeOK, SpinOwners, LockOwner, SleepersAreAsleep,
       SleepWindow, NoLostWakeup, NotAPid, NoPid, Pcs

(* Every step of every process preserves the invariant. *)
LEMMA NextIInv == IInv /\ [Next]_vars => IInv'
<1> SUFFICES ASSUME IInv, [Next]_vars PROVE IInv'
  OBVIOUS
<1> USE NoPidIsNotAPid, KillAssumption
    DEF IInv, TypeOK, SpinOwners, LockOwner, SleepersAreAsleep, SleepWindow,
        NoLostWakeup, InTransit, NotAPid, Pcs, Goto
<1>1. ASSUME NEW p \in Pids, SpinAcquire(p) PROVE IInv'
  BY <1>1 DEF SpinAcquire
<1>2. ASSUME NEW p \in Pids, TestLocked(p) PROVE IInv'
  BY <1>2 DEF TestLocked
<1>3. ASSUME NEW p \in Pids, TakeLock(p) PROVE IInv'
  BY <1>3 DEF TakeLock
<1>4. ASSUME NEW p \in Pids, SleepAcquirePtable(p) PROVE IInv'
  BY <1>4 DEF SleepAcquirePtable
<1>5. ASSUME NEW p \in Pids, SleepReleaseLk(p) PROVE IInv'
  BY <1>5 DEF SleepReleaseLk
<1>6. ASSUME NEW p \in Pids, GoToSleep(p) PROVE IInv'
  BY <1>6 DEF GoToSleep
<1>7. ASSUME NEW p \in Pids, Resume(p) PROVE IInv'
  BY <1>7 DEF Resume
<1>8. ASSUME NEW p \in Pids, TidyUp(p) PROVE IInv'
  BY <1>8 DEF TidyUp
<1>9. ASSUME NEW p \in Pids, ClearLock(p) PROVE IInv'
  BY <1>9 DEF ClearLock
<1>10. ASSUME NEW p \in Pids, ReleaseReturn(p) PROVE IInv'
  BY <1>10 DEF ReleaseReturn
<1>11. ASSUME NEW p \in Pids, Kill(p) PROVE IInv'
  BY <1>11 DEF Kill
<1>12. ASSUME NEW p \in Pids, CallAcquire(p) PROVE IInv'
  BY <1>12 DEF CallAcquire
<1>13. ASSUME NEW p \in Pids, Wakeup(p) PROVE IInv'
  <2>1. Woken \subseteq Sleepers /\ (Sleepers # {} => Woken # {})
    BY SomebodyIsWoken DEF Woken, Highest
  <2> QED
    BY <1>13, <2>1 DEF Wakeup, Sleepers
<1>14. CASE UNCHANGED vars
  BY <1>14 DEF vars
<1> QED
  BY ZenonT(30), <1>1, <1>2, <1>3, <1>4, <1>5, <1>6, <1>7, <1>8,
     <1>9, <1>10, <1>11, <1>12, <1>13, <1>14 DEF Next, Step

(* The inductive invariant holds in every reachable state. *)
THEOREM Invariance == Spec => []IInv
BY InitIInv, NextIInv, PTL DEF Spec

(* The variables keep their types: lk->pid and the spinlocks name a process
   of the model or nobody.                                                 *)
THEOREM TypeTheorem == Spec => []TypeOK
<1>1. IInv => TypeOK
  BY DEF IInv
<1> QED
  BY <1>1, Invariance, PTL

(* acquiresleep and acquir_priority give the lock to one process at a time,
   and lk->locked and lk->pid name it.                                     *)
THEOREM MutexTheorem == Spec => []MutualExclusion
<1>1. IInv => MutualExclusion
  BY NoPidIsNotAPid DEF IInv, TypeOK, LockOwner, MutualExclusion, NotAPid
<1> QED
  BY <1>1, Invariance, PTL

(* Neither wakeup discipline loses a wakeup: waking only the sleeper with
   the highest pid, as release_priority does, is enough.                   *)
THEOREM NoLostWakeupTheorem == Spec => []NoLostWakeup
<1>1. IInv => NoLostWakeup
  BY DEF IInv
<1> QED
  BY <1>1, Invariance, PTL

(* The safety part of the refinement: every step of the lock's code is a
   step of AbstractLock or changes nothing there.                          *)
THEOREM RefinementTheorem == Spec => Abs!AbsSafety
<1>1. Init => Abs!AbsInit
  BY DEF Init, Abs!AbsInit, Wants
<1>2. IInv /\ [Next]_vars => [Abs!AbsNext]_(Abs!absVars)
  <2> SUFFICES ASSUME IInv, [Next]_vars
               PROVE  [Abs!AbsNext]_(Abs!absVars)
    OBVIOUS
  <2> USE NoPidIsNotAPid DEF IInv, TypeOK, LockOwner, NotAPid, Goto
  <2>1. ASSUME NEW p \in Pids, CallAcquire(p) PROVE Abs!Ask(p)
    BY <2>1 DEF CallAcquire, Abs!Ask, Wants
  <2>2. ASSUME NEW p \in Pids, TakeLock(p) PROVE Abs!Grant(p)
    BY <2>2 DEF TakeLock, Abs!Grant, Wants
  <2>3. ASSUME NEW p \in Pids, ClearLock(p) PROVE Abs!GiveBack(p)
    BY <2>3 DEF ClearLock, Abs!GiveBack, Wants
  <2>4. ASSUME NEW p \in Pids,
               \/ SpinAcquire(p) \/ TestLocked(p) \/ SleepAcquirePtable(p)
               \/ SleepReleaseLk(p) \/ GoToSleep(p) \/ Resume(p)
               \/ TidyUp(p) \/ Wakeup(p) \/ ReleaseReturn(p) \/ Kill(p)
        PROVE  UNCHANGED Abs!absVars
    BY <2>4 DEF SpinAcquire, TestLocked, SleepAcquirePtable, SleepReleaseLk,
         GoToSleep, Resume, TidyUp, Wakeup, ReleaseReturn, Kill,
         Abs!absVars, Wants
  <2>5. CASE UNCHANGED vars
    BY <2>5 DEF vars, Abs!absVars, Wants
  <2> QED
    BY <2>1, <2>2, <2>3, <2>4, <2>5 DEF Next, Step, Abs!AbsNext
<1> QED
  BY <1>1, <1>2, Invariance, PTL DEF Spec, Abs!AbsSafety
=============================================================================
