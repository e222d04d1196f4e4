----------------------------- MODULE ProcProofs -----------------------------
(***************************************************************************)
(* Proofs about the process table for every NPROC, every set of CPUs and   *)
(* sleep channels.                                                         *)
(***************************************************************************)
EXTENDS Proc, TLAPS

LEMMA SlotFacts ==
    /\ initproc \in Slots
    /\ None \notin Slots
    /\ None \notin Chans
    /\ \A c \in Chans : c \notin Slots
BY NPROCAssumption, ChansAssumption DEF Slots, initproc, None

LEMMA InitIInv == Init => IInv
BY SlotFacts DEF Init, IInv, TypeOK, OneCpuEach, PidsUnique, ParentAlive,
   WaiterNotForgotten, EmbryoHasOneForker, ForkInProgress, SleepChannels,
   InitIsRoot, States, Pcs, Live, None, initproc

(* Every step preserves every conjunct of the invariant. *)
LEMMA NextIInv == IInv /\ [Next]_vars => IInv'
<1> SUFFICES ASSUME IInv, [Next]_vars PROVE IInv'
  OBVIOUS
<1> USE SlotFacts DEF Goto, Set, LeaveCpu, None, States, Pcs, Live
<1>1. ASSUME NEW p \in Slots, AllocProc(p) PROVE IInv'
  <2> USE <1>1 DEF AllocProc, CanCall
  <2>1. TypeOK'
    BY DEF IInv, TypeOK, ForkInProgress
  <2>2. OneCpuEach'
    BY DEF IInv, TypeOK, OneCpuEach, ForkInProgress, EmbryoHasOneForker
  <2>3. PidsUnique'
    BY DEF IInv, TypeOK, PidsUnique
  <2>4. ParentAlive'
    BY DEF IInv, TypeOK, ParentAlive, ForkInProgress, EmbryoHasOneForker,
       InitIsRoot
  <2>5. WaiterNotForgotten'
    BY DEF IInv, TypeOK, WaiterNotForgotten, ParentAlive, ForkInProgress,
       EmbryoHasOneForker, SleepChannels, InitIsRoot, Kids, Zombies
  <2>6. EmbryoHasOneForker'
    BY DEF IInv, TypeOK, EmbryoHasOneForker, ForkInProgress
  <2>7. ForkInProgress'
    BY DEF IInv, TypeOK, ForkInProgress, ParentAlive, EmbryoHasOneForker,
       InitIsRoot
  <2>8. SleepChannels'
    BY DEF IInv, TypeOK, SleepChannels, ForkInProgress, EmbryoHasOneForker
  <2>9. InitIsRoot'
    BY DEF IInv, TypeOK, InitIsRoot, ParentAlive, ForkInProgress,
       EmbryoHasOneForker
  <2> QED
    BY <2>1, <2>2, <2>3, <2>4, <2>5, <2>6, <2>7, <2>8, <2>9 DEF IInv
<1>2. ASSUME NEW p \in Slots, ForkFail(p) PROVE IInv'
  <2> USE <1>2 DEF ForkFail
  <2>1. TypeOK'
    BY DEF IInv, TypeOK, ForkInProgress
  <2>2. OneCpuEach'
    BY DEF IInv, TypeOK, OneCpuEach, ForkInProgress, EmbryoHasOneForker
  <2>3. PidsUnique'
    BY DEF IInv, TypeOK, PidsUnique
  <2>4. ParentAlive'
    BY DEF IInv, TypeOK, ParentAlive, ForkInProgress, EmbryoHasOneForker,
       InitIsRoot
  <2>5. WaiterNotForgotten'
    BY DEF IInv, TypeOK, WaiterNotForgotten, ParentAlive, ForkInProgress,
       EmbryoHasOneForker, SleepChannels, InitIsRoot, Kids, Zombies
  <2>6. EmbryoHasOneForker'
    BY DEF IInv, TypeOK, EmbryoHasOneForker, ForkInProgress
  <2>7. ForkInProgress'
    BY DEF IInv, TypeOK, ForkInProgress, ParentAlive, EmbryoHasOneForker,
       InitIsRoot
  <2>8. SleepChannels'
    BY DEF IInv, TypeOK, SleepChannels, ForkInProgress, EmbryoHasOneForker
  <2>9. InitIsRoot'
    BY DEF IInv, TypeOK, InitIsRoot, ParentAlive, ForkInProgress,
       EmbryoHasOneForker
  <2> QED
    BY <2>1, <2>2, <2>3, <2>4, <2>5, <2>6, <2>7, <2>8, <2>9 DEF IInv
<1>3. ASSUME NEW p \in Slots, ForkCopy(p) PROVE IInv'
  <2> USE <1>3 DEF ForkCopy
  <2>1. TypeOK'
    BY DEF IInv, TypeOK, ForkInProgress
  <2>2. OneCpuEach'
    BY DEF IInv, TypeOK, OneCpuEach, ForkInProgress, EmbryoHasOneForker
  <2>3. PidsUnique'
    BY DEF IInv, TypeOK, PidsUnique
  <2>4. ParentAlive'
    BY DEF IInv, TypeOK, ParentAlive, ForkInProgress, EmbryoHasOneForker,
       InitIsRoot
  <2>5. WaiterNotForgotten'
    BY DEF IInv, TypeOK, WaiterNotForgotten, ParentAlive, ForkInProgress,
       EmbryoHasOneForker, SleepChannels, InitIsRoot, Kids, Zombies
  <2>6. EmbryoHasOneForker'
    BY DEF IInv, TypeOK, EmbryoHasOneForker, ForkInProgress
  <2>7. ForkInProgress'
    BY DEF IInv, TypeOK, ForkInProgress, ParentAlive, EmbryoHasOneForker,
       InitIsRoot
  <2>8. SleepChannels'
    BY DEF IInv, TypeOK, SleepChannels, ForkInProgress, EmbryoHasOneForker
  <2>9. InitIsRoot'
    BY DEF IInv, TypeOK, InitIsRoot, ParentAlive, ForkInProgress,
       EmbryoHasOneForker
  <2> QED
    BY <2>1, <2>2, <2>3, <2>4, <2>5, <2>6, <2>7, <2>8, <2>9 DEF IInv
<1>4. ASSUME NEW p \in Slots, ForkDone(p) PROVE IInv'
  <2> USE <1>4 DEF ForkDone
  <2>1. TypeOK'
    BY DEF IInv, TypeOK, ForkInProgress
  <2>2. OneCpuEach'
    BY DEF IInv, TypeOK, OneCpuEach, ForkInProgress, EmbryoHasOneForker
  <2>3. PidsUnique'
    BY DEF IInv, TypeOK, PidsUnique
  <2>4. ParentAlive'
    BY DEF IInv, TypeOK, ParentAlive, ForkInProgress, EmbryoHasOneForker,
       InitIsRoot
  <2>5. WaiterNotForgotten'
    BY DEF IInv, TypeOK, WaiterNotForgotten, ParentAlive, ForkInProgress,
       EmbryoHasOneForker, SleepChannels, InitIsRoot, Kids, Zombies
  <2>6. EmbryoHasOneForker'
    BY DEF IInv, TypeOK, EmbryoHasOneForker, ForkInProgress
  <2>7. ForkInProgress'
    BY DEF IInv, TypeOK, ForkInProgress, ParentAlive, EmbryoHasOneForker,
       InitIsRoot
  <2>8. SleepChannels'
    BY DEF IInv, TypeOK, SleepChannels, ForkInProgress, EmbryoHasOneForker
  <2>9. InitIsRoot'
    BY DEF IInv, TypeOK, InitIsRoot, ParentAlive, ForkInProgress,
       EmbryoHasOneForker
  <2> QED
    BY <2>1, <2>2, <2>3, <2>4, <2>5, <2>6, <2>7, <2>8, <2>9 DEF IInv
<1>5. ASSUME NEW p \in Slots, ExitStart(p) PROVE IInv'
  BY <1>5 DEF ExitStart, IInv, TypeOK, OneCpuEach, PidsUnique,
     ParentAlive, WaiterNotForgotten, EmbryoHasOneForker, ForkInProgress,
     SleepChannels, InitIsRoot, Kids, Zombies
<1>6. ASSUME NEW p \in Slots, ExitFinish(p) PROVE IInv'
  <2> USE <1>6 DEF ExitFinish, WokenByExit
  <2>1. TypeOK'
    BY DEF IInv, TypeOK, ForkInProgress
  <2>2. OneCpuEach'
    BY DEF IInv, TypeOK, OneCpuEach, ForkInProgress, EmbryoHasOneForker
  <2>3. PidsUnique'
    BY DEF IInv, TypeOK, PidsUnique
  <2>4. ParentAlive'
    BY DEF IInv, TypeOK, ParentAlive, ForkInProgress, EmbryoHasOneForker,
       InitIsRoot
  <2>5. WaiterNotForgotten'
    BY DEF IInv, TypeOK, WaiterNotForgotten, ParentAlive, ForkInProgress,
       EmbryoHasOneForker, SleepChannels, InitIsRoot, Kids, Zombies
  <2>6. EmbryoHasOneForker'
    BY DEF IInv, TypeOK, EmbryoHasOneForker, ForkInProgress
  <2>7. ForkInProgress'
    BY DEF IInv, TypeOK, ForkInProgress, ParentAlive, EmbryoHasOneForker,
       InitIsRoot
  <2>8. SleepChannels'
    BY DEF IInv, TypeOK, SleepChannels, ForkInProgress, EmbryoHasOneForker
  <2>9. InitIsRoot'
    BY DEF IInv, TypeOK, InitIsRoot, ParentAlive, ForkInProgress,
       EmbryoHasOneForker
  <2> QED
    BY <2>1, <2>2, <2>3, <2>4, <2>5, <2>6, <2>7, <2>8, <2>9 DEF IInv
<1>7. ASSUME NEW p \in Slots, WaitCall(p) PROVE IInv'
  BY <1>7 DEF WaitCall, CanCall, IInv, TypeOK, OneCpuEach, PidsUnique,
     ParentAlive, WaiterNotForgotten, EmbryoHasOneForker, ForkInProgress,
     SleepChannels, InitIsRoot, Kids, Zombies
<1>8. ASSUME NEW p \in Slots, WaitReap(p) PROVE IInv'
  <2> USE <1>8 DEF WaitReap, Kids, Zombies
  <2>1. TypeOK'
    BY DEF IInv, TypeOK, ForkInProgress
  <2>2. OneCpuEach'
    BY DEF IInv, TypeOK, OneCpuEach, ForkInProgress, EmbryoHasOneForker
  <2>3. PidsUnique'
    BY DEF IInv, TypeOK, PidsUnique
  <2>4. ParentAlive'
    BY DEF IInv, TypeOK, ParentAlive, ForkInProgress, EmbryoHasOneForker,
       InitIsRoot
  <2>5. WaiterNotForgotten'
    BY DEF IInv, TypeOK, WaiterNotForgotten, ParentAlive, ForkInProgress,
       EmbryoHasOneForker, SleepChannels, InitIsRoot, Kids, Zombies
  <2>6. EmbryoHasOneForker'
    BY DEF IInv, TypeOK, EmbryoHasOneForker, ForkInProgress
  <2>7. ForkInProgress'
    BY DEF IInv, TypeOK, ForkInProgress, ParentAlive, EmbryoHasOneForker,
       InitIsRoot
  <2>8. SleepChannels'
    BY DEF IInv, TypeOK, SleepChannels, ForkInProgress, EmbryoHasOneForker
  <2>9. InitIsRoot'
    BY DEF IInv, TypeOK, InitIsRoot, ParentAlive, ForkInProgress,
       EmbryoHasOneForker
  <2> QED
    BY <2>1, <2>2, <2>3, <2>4, <2>5, <2>6, <2>7, <2>8, <2>9 DEF IInv
<1>9. ASSUME NEW p \in Slots, WaitFail(p) PROVE IInv'
  BY <1>9 DEF WaitFail, IInv, TypeOK, OneCpuEach, PidsUnique,
     ParentAlive, WaiterNotForgotten, EmbryoHasOneForker, ForkInProgress,
     SleepChannels, InitIsRoot, Kids, Zombies
<1>10. ASSUME NEW p \in Slots, WaitSleep(p) PROVE IInv'
  <2> USE <1>10 DEF WaitSleep
  <2>1. TypeOK'
    BY DEF IInv, TypeOK, ForkInProgress
  <2>2. OneCpuEach'
    BY DEF IInv, TypeOK, OneCpuEach, ForkInProgress, EmbryoHasOneForker
  <2>3. PidsUnique'
    BY DEF IInv, TypeOK, PidsUnique
  <2>4. ParentAlive'
    BY DEF IInv, TypeOK, ParentAlive, ForkInProgress, EmbryoHasOneForker,
       InitIsRoot
  <2>5. WaiterNotForgotten'
    BY DEF IInv, TypeOK, WaiterNotForgotten, ParentAlive, ForkInProgress,
       EmbryoHasOneForker, SleepChannels, InitIsRoot, Kids, Zombies
  <2>6. EmbryoHasOneForker'
    BY DEF IInv, TypeOK, EmbryoHasOneForker, ForkInProgress
  <2>7. ForkInProgress'
    BY DEF IInv, TypeOK, ForkInProgress, ParentAlive, EmbryoHasOneForker,
       InitIsRoot
  <2>8. SleepChannels'
    BY DEF IInv, TypeOK, SleepChannels, ForkInProgress, EmbryoHasOneForker
  <2>9. InitIsRoot'
    BY DEF IInv, TypeOK, InitIsRoot, ParentAlive, ForkInProgress,
       EmbryoHasOneForker
  <2> QED
    BY <2>1, <2>2, <2>3, <2>4, <2>5, <2>6, <2>7, <2>8, <2>9 DEF IInv
<1>11. ASSUME NEW p \in Slots, SysEnter(p) PROVE IInv'
  BY <1>11 DEF SysEnter, CanCall, IInv, TypeOK, OneCpuEach, PidsUnique,
     ParentAlive, WaiterNotForgotten, EmbryoHasOneForker, ForkInProgress,
     SleepChannels, InitIsRoot, Kids, Zombies
<1>12. ASSUME NEW p \in Slots, SysReturn(p) PROVE IInv'
  BY <1>12 DEF SysReturn, IInv, TypeOK, OneCpuEach, PidsUnique,
     ParentAlive, WaiterNotForgotten, EmbryoHasOneForker, ForkInProgress,
     SleepChannels, InitIsRoot, Kids, Zombies
<1>13. ASSUME NEW p \in Slots, Fault(p) PROVE IInv'
  BY SMTT(30), <1>13 DEF Fault, CanCall, IInv, TypeOK, OneCpuEach, PidsUnique,
     ParentAlive, WaiterNotForgotten, EmbryoHasOneForker, ForkInProgress,
     SleepChannels, InitIsRoot, Kids, Zombies
<1>14. ASSUME NEW p \in Slots, Yield(p) PROVE IInv'
  BY <1>14 DEF Yield, IInv, TypeOK, OneCpuEach, PidsUnique,
     ParentAlive, WaiterNotForgotten, EmbryoHasOneForker, ForkInProgress,
     SleepChannels, InitIsRoot, Kids, Zombies
<1>15. ASSUME NEW p \in Slots, NEW c \in Chans, Sleep(p, c) PROVE IInv'
  <2> USE <1>15 DEF Sleep
  <2>1. TypeOK'
    BY DEF IInv, TypeOK, ForkInProgress
  <2>2. OneCpuEach'
    BY DEF IInv, TypeOK, OneCpuEach, ForkInProgress, EmbryoHasOneForker
  <2>3. PidsUnique'
    BY DEF IInv, TypeOK, PidsUnique
  <2>4. ParentAlive'
    BY DEF IInv, TypeOK, ParentAlive, ForkInProgress, EmbryoHasOneForker,
       InitIsRoot
  <2>5. WaiterNotForgotten'
    BY DEF IInv, TypeOK, WaiterNotForgotten, ParentAlive, ForkInProgress,
       EmbryoHasOneForker, SleepChannels, InitIsRoot, Kids, Zombies
  <2>6. EmbryoHasOneForker'
    BY DEF IInv, TypeOK, EmbryoHasOneForker, ForkInProgress
  <2>7. ForkInProgress'
    BY DEF IInv, TypeOK, ForkInProgress, ParentAlive, EmbryoHasOneForker,
       InitIsRoot
  <2>8. SleepChannels'
    BY DEF IInv, TypeOK, SleepChannels, ForkInProgress, EmbryoHasOneForker
  <2>9. InitIsRoot'
    BY DEF IInv, TypeOK, InitIsRoot, ParentAlive, ForkInProgress,
       EmbryoHasOneForker
  <2> QED
    BY <2>1, <2>2, <2>3, <2>4, <2>5, <2>6, <2>7, <2>8, <2>9 DEF IInv
<1>16. ASSUME NEW p \in Slots, NEW k \in KillPids, Kill(p, k) PROVE IInv'
  <2> USE <1>16 DEF Kill, CanCall
  <2>1. TypeOK'
    BY DEF IInv, TypeOK, ForkInProgress
  <2>2. OneCpuEach'
    BY DEF IInv, TypeOK, OneCpuEach, ForkInProgress, EmbryoHasOneForker
  <2>3. PidsUnique'
    BY DEF IInv, TypeOK, PidsUnique
  <2>4. ParentAlive'
    BY DEF IInv, TypeOK, ParentAlive, ForkInProgress, EmbryoHasOneForker,
       InitIsRoot
  <2>5. WaiterNotForgotten'
    BY DEF IInv, TypeOK, WaiterNotForgotten, ParentAlive, ForkInProgress,
       EmbryoHasOneForker, SleepChannels, InitIsRoot, Kids, Zombies
  <2>6. EmbryoHasOneForker'
    BY DEF IInv, TypeOK, EmbryoHasOneForker, ForkInProgress
  <2>7. ForkInProgress'
    BY DEF IInv, TypeOK, ForkInProgress, ParentAlive, EmbryoHasOneForker,
       InitIsRoot
  <2>8. SleepChannels'
    BY DEF IInv, TypeOK, SleepChannels, ForkInProgress, EmbryoHasOneForker
  <2>9. InitIsRoot'
    BY DEF IInv, TypeOK, InitIsRoot, ParentAlive, ForkInProgress,
       EmbryoHasOneForker
  <2> QED
    BY <2>1, <2>2, <2>3, <2>4, <2>5, <2>6, <2>7, <2>8, <2>9 DEF IInv
<1>17. ASSUME NEW p \in Slots, NEW c \in CPUs, Dispatch(c, p) PROVE IInv'
  <2> USE <1>17 DEF Dispatch
  <2>1. TypeOK'
    BY DEF IInv, TypeOK, ForkInProgress
  <2>2. OneCpuEach'
    BY DEF IInv, TypeOK, OneCpuEach, ForkInProgress, EmbryoHasOneForker
  <2>3. PidsUnique'
    BY DEF IInv, TypeOK, PidsUnique
  <2>4. ParentAlive'
    BY DEF IInv, TypeOK, ParentAlive, ForkInProgress, EmbryoHasOneForker,
       InitIsRoot
  <2>5. WaiterNotForgotten'
    BY DEF IInv, TypeOK, WaiterNotForgotten, ParentAlive, ForkInProgress,
       EmbryoHasOneForker, SleepChannels, InitIsRoot, Kids, Zombies
  <2>6. EmbryoHasOneForker'
    BY DEF IInv, TypeOK, EmbryoHasOneForker, ForkInProgress
  <2>7. ForkInProgress'
    BY DEF IInv, TypeOK, ForkInProgress, ParentAlive, EmbryoHasOneForker,
       InitIsRoot
  <2>8. SleepChannels'
    BY DEF IInv, TypeOK, SleepChannels, ForkInProgress, EmbryoHasOneForker
  <2>9. InitIsRoot'
    BY DEF IInv, TypeOK, InitIsRoot, ParentAlive, ForkInProgress,
       EmbryoHasOneForker
  <2> QED
    BY <2>1, <2>2, <2>3, <2>4, <2>5, <2>6, <2>7, <2>8, <2>9 DEF IInv
<1>18. ASSUME NEW c \in Chans, Wakeup(c) PROVE IInv'
  <2> USE <1>18 DEF Wakeup
  <2>1. TypeOK'
    BY DEF IInv, TypeOK, ForkInProgress
  <2>2. OneCpuEach'
    BY DEF IInv, TypeOK, OneCpuEach, ForkInProgress, EmbryoHasOneForker
  <2>3. PidsUnique'
    BY DEF IInv, TypeOK, PidsUnique
  <2>4. ParentAlive'
    BY DEF IInv, TypeOK, ParentAlive, ForkInProgress, EmbryoHasOneForker,
       InitIsRoot
  <2>5. WaiterNotForgotten'
    BY DEF IInv, TypeOK, WaiterNotForgotten, ParentAlive, ForkInProgress,
       EmbryoHasOneForker, SleepChannels, InitIsRoot, Kids, Zombies
  <2>6. EmbryoHasOneForker'
    BY DEF IInv, TypeOK, EmbryoHasOneForker, ForkInProgress
  <2>7. ForkInProgress'
    BY DEF IInv, TypeOK, ForkInProgress, ParentAlive, EmbryoHasOneForker,
       InitIsRoot
  <2>8. SleepChannels'
    BY DEF IInv, TypeOK, SleepChannels, ForkInProgress, EmbryoHasOneForker
  <2>9. InitIsRoot'
    BY DEF IInv, TypeOK, InitIsRoot, ParentAlive, ForkInProgress,
       EmbryoHasOneForker
  <2> QED
    BY <2>1, <2>2, <2>3, <2>4, <2>5, <2>6, <2>7, <2>8, <2>9 DEF IInv
<1>19. CASE UNCHANGED vars
  <2> USE <1>19 DEF vars
  <2>1. TypeOK'
    BY DEF IInv, TypeOK
  <2>2. OneCpuEach' /\ PidsUnique'
    BY DEF IInv, OneCpuEach, PidsUnique
  <2>3. ParentAlive' /\ WaiterNotForgotten'
    BY DEF IInv, ParentAlive, WaiterNotForgotten, Kids, Zombies
  <2>4. EmbryoHasOneForker' /\ ForkInProgress'
    BY DEF IInv, EmbryoHasOneForker, ForkInProgress
  <2>5. SleepChannels' /\ InitIsRoot'
    BY DEF IInv, SleepChannels, InitIsRoot
  <2> QED
    BY <2>1, <2>2, <2>3, <2>4, <2>5 DEF IInv
<1> QED
  BY <1>1, <1>2, <1>3, <1>4, <1>5, <1>6, <1>7, <1>8, <1>9, <1>10, <1>11, <1>12, <1>13, <1>14, <1>15, <1>16, <1>17, <1>18, <1>19 DEF Next, Step

(* The inductive invariant holds in every reachable state. *)
THEOREM Invariance == SafeSpec => []IInv
BY InitIInv, NextIInv, PTL DEF SafeSpec

(* No process ever runs on two CPUs, and none is marked RUNNING without one. *)
THEOREM OneCpuTheorem == SafeSpec => []OneCpuEach
<1>1. IInv => OneCpuEach
  BY DEF IInv
<1> QED
  BY <1>1, Invariance, PTL

(* A pid names at most one slot, whatever forks failed before. *)
THEOREM PidsTheorem == SafeSpec => []PidsUnique
<1>1. IInv => PidsUnique
  BY DEF IInv
<1> QED
  BY <1>1, Invariance, PTL

(* Every process other than init has a living parent at all times. *)
THEOREM ParentTheorem == SafeSpec => []ParentAlive
<1>1. IInv => ParentAlive
  BY DEF IInv
<1> QED
  BY <1>1, Invariance, PTL

(* exit() never leaves a parent asleep in wait() with an exited child. *)
THEOREM WaiterTheorem == SafeSpec => []WaiterNotForgotten
<1>1. IInv => WaiterNotForgotten
  BY DEF IInv
<1> QED
  BY <1>1, Invariance, PTL

(* A slot that is being filled has one fork() at work on it: no exit(), wait()
   or failed fork() of another process frees it.                           *)
THEOREM EmbryoTheorem == SafeSpec => []EmbryoHasOneForker
<1>1. IInv => EmbryoHasOneForker
  BY DEF IInv
<1> QED
  BY <1>1, Invariance, PTL

(* The variables keep their types: each pointer is null or names a slot. *)
THEOREM TypeTheorem == SafeSpec => []TypeOK
<1>1. IInv => TypeOK
  BY DEF IInv
<1> QED
  BY <1>1, Invariance, PTL
=============================================================================
