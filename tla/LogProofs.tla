----------------------------- MODULE LogProofs ------------------------------
(***************************************************************************)
(* Proofs about the log for all finite sets of processes and blocks and    *)
(* all sizes: the invariant, that the log implements an atomic disk across *)
(* crashes, and that a log area of LOGSIZE + 1 blocks never overflows.     *)
(***************************************************************************)
EXTENDS Log, FiniteSetTheorems, TLAPS

-----------------------------------------------------------------------------
(* Cardinality of the reservations *)

LEMMA ReservedFinite ==
    ASSUME NEW A \in SUBSET Procs
    PROVE  /\ IsFiniteSet(A \X (1 .. MAXOPBLOCKS))
           /\ Cardinality(A \X (1 .. MAXOPBLOCKS)) = Cardinality(A) * MAXOPBLOCKS
           /\ IsFiniteSet(A)
           /\ Cardinality(A) \in Nat
<1>1. IsFiniteSet(A)
  BY FS_Subset, SetsAssumption
<1>2. IsFiniteSet(1 .. MAXOPBLOCKS) /\ Cardinality(1 .. MAXOPBLOCKS) = MAXOPBLOCKS
  BY FS_Interval, SizesAssumption
<1>3. Cardinality(A) \in Nat
  BY <1>1, FS_CardinalityType
<1> QED
  BY ZenonT(30), <1>1, <1>2, <1>3, FS_Product

LEMMA ReservedIsFinite ==
    /\ IsFiniteSet(Reserved)
    /\ Cardinality(Reserved) \in Nat
    /\ IsFiniteSet(active)
<1>1. active \in SUBSET Procs
  BY DEF active
<1>2. Reserved \in SUBSET (active \X (1 .. MAXOPBLOCKS))
  BY DEF Reserved
<1>3. IsFiniteSet(Reserved)
  BY ZenonT(30), <1>1, <1>2, ReservedFinite, FS_Subset
<1> QED
  BY ZenonT(30), <1>1, <1>3, ReservedFinite, FS_CardinalityType

(* begin_op() admits an operation only if all of its blocks fit too. *)
LEMMA BeginReserves ==
    ASSUME TypeOK, NEW p \in Procs, BeginOp(p)
    PROVE  Reservation'
<1> DEFINE A == active \cup {p}
<1>1. A \in SUBSET Procs /\ active \in SUBSET Procs /\ p \notin active
  BY DEF BeginOp, active
<1>2. active' = A
  BY DEF BeginOp, active, TypeOK
<1>3. Reserved' \in SUBSET (A \X (1 .. MAXOPBLOCKS))
  BY <1>2 DEF Reserved
<1>4. Cardinality(A) = outstanding + 1 /\ outstanding \in Nat
  BY ZenonT(30), <1>1, ReservedFinite, FS_AddElement DEF outstanding
<1>5. Cardinality(Reserved') <= (outstanding + 1) * MAXOPBLOCKS
  <2> HIDE DEF A
  <2>1. /\ IsFiniteSet(A \X (1 .. MAXOPBLOCKS))
        /\ Cardinality(A \X (1 .. MAXOPBLOCKS)) = (outstanding + 1) * MAXOPBLOCKS
    BY <1>1, <1>4, ReservedFinite
  <2>2. Cardinality(Reserved') <= Cardinality(A \X (1 .. MAXOPBLOCKS))
    BY <2>1, <1>3, FS_Subset
  <2> QED
    BY <2>1, <2>2
<1>6. Cardinality(Reserved') \in Nat
  <2> HIDE DEF A
  <2> QED
    BY ZenonT(30), <1>1, <1>3, ReservedFinite, FS_Subset, FS_CardinalityType
<1>7. (outstanding + 1) * MAXOPBLOCKS \in Nat
  BY <1>4, SizesAssumption
<1>8. Len(lh') = Len(lh) /\ Len(lh) \in Nat
  BY DEF BeginOp, TypeOK
<1>9. Len(lh) + (outstanding + 1) * MAXOPBLOCKS <= LOGSIZE
  BY DEF BeginOp, HasRoom
<1>10. Len(lh') + Cardinality(Reserved') <= LOGSIZE
  <2> DEFINE m == (outstanding + 1) * MAXOPBLOCKS
  <2> HIDE DEF m
  <2>1. m \in Nat /\ Cardinality(Reserved') <= m /\ Len(lh) + m <= LOGSIZE
    BY <1>5, <1>7, <1>9 DEF m
  <2> QED
    BY <2>1, <1>6, <1>8, SizesAssumption
<1> QED
  BY <1>10 DEF Reservation

(* log_write() spends one reserved block for at most one more in the log. *)
LEMMA WriteSpends ==
    ASSUME TypeOK, OperationsInRun, Reservation, NEW p \in Procs, log_write(p)
    PROVE  Reservation'
<1> DEFINE t == <<p, used[p] + 1>>
<1>1. active' = active
  BY DEF log_write, active
<1>2. t \in Reserved
  BY SizesAssumption DEF log_write, Reserved, OperationsInRun, TypeOK, active
<1>3. Reserved' \in SUBSET (Reserved \ {t})
  BY <1>1 DEF log_write, Reserved, TypeOK, active
<1>4. Cardinality(Reserved \ {t}) = Cardinality(Reserved) - 1
      /\ IsFiniteSet(Reserved \ {t})
  BY ZenonT(30), <1>2, ReservedIsFinite, FS_RemoveElement
<1>5. Cardinality(Reserved') <= Cardinality(Reserved) - 1
      /\ Cardinality(Reserved') \in Nat
  <2> HIDE DEF t
  <2> QED
    BY <1>3, <1>4, FS_Subset, FS_CardinalityType
<1>6. Len(lh) \in Nat /\ Len(lh') \in Nat /\ Len(lh') <= Len(lh) + 1
  BY DEF log_write, TypeOK, OperationsInRun
<1>7. Len(lh) + Cardinality(Reserved) <= LOGSIZE
  BY DEF Reservation, log_write
<1> QED
  BY <1>5, <1>6, <1>7, ReservedIsFinite, SizesAssumption DEF Reservation

(* end_op() gives back what its operation did not use. *)
LEMMA EndReturns ==
    ASSUME TypeOK, Reservation, NEW p \in Procs, EndOp(p)
    PROVE  Reservation'
<1>1. active' = active \ {p}
  BY DEF EndOp, Awake, active, TypeOK
<1>2. Reserved' \in SUBSET Reserved
  BY <1>1 DEF EndOp, Reserved, TypeOK, active
<1>3. Cardinality(Reserved') <= Cardinality(Reserved)
      /\ Cardinality(Reserved') \in Nat
  BY <1>2, ReservedIsFinite, FS_Subset, FS_CardinalityType
<1>4. Len(lh') = Len(lh) /\ Len(lh) \in Nat
      /\ Len(lh) + Cardinality(Reserved) <= LOGSIZE
  BY DEF EndOp, TypeOK, Reservation
<1> QED
  BY <1>3, <1>4, ReservedIsFinite, SizesAssumption DEF Reservation

(* Steps that neither begin, write nor end change no reservation. *)
LEMMA ReservedSame ==
    ASSUME active' = active, used' = used
    PROVE  Reserved' = Reserved
BY DEF Reserved

-----------------------------------------------------------------------------
(* The invariant *)

LEMMA InitIInv == Init => IInv
<1> SUFFICES ASSUME Init PROVE IInv
  OBVIOUS
<1> USE SizesAssumption, NamesAssumption DEF Init
<1>1. TypeOK
  BY DEF TypeOK, Phases
<1>2. Absorbed /\ CacheMatchesDisk /\ HeaderMatchesPhase /\ LoopProgress
  BY DEF Absorbed, Distinct, CacheMatchesDisk, HeaderMatchesPhase, LoopProgress
<1>3. OperationsInRun /\ SleeperHasWaker /\ Reservation
  BY DEF OperationsInRun, SleeperHasWaker, Reservation, active
<1> QED
  BY <1>1, <1>2, <1>3 DEF IInv

(* Every step preserves every conjunct of the invariant. *)
LEMMA NextIInv == IInv /\ [Next]_vars => IInv'
<1> SUFFICES ASSUME IInv, [Next]_vars PROVE IInv'
  OBVIOUS
<1> USE SizesAssumption, NamesAssumption
      DEF Phases, Distinct, Committing, LogSlots, diskVars, opVars, active
<1>1. ASSUME NEW p \in Procs, BeginOp(p) PROVE IInv'
  <2> USE <1>1 DEF BeginOp, HasRoom
  <2>1. TypeOK'
    BY DEF IInv, TypeOK, LoopProgress, OperationsInRun
  <2>2. Absorbed'
    BY DEF IInv, TypeOK, Absorbed, HeaderMatchesPhase
  <2>3. CacheMatchesDisk'
    BY DEF IInv, TypeOK, CacheMatchesDisk, HeaderMatchesPhase, LoopProgress,
       OperationsInRun, Absorbed
  <2>4. HeaderMatchesPhase'
    BY DEF IInv, TypeOK, HeaderMatchesPhase, OperationsInRun
  <2>5. LoopProgress'
    BY DEF IInv, TypeOK, LoopProgress, HeaderMatchesPhase, OperationsInRun,
       Absorbed
  <2>6. OperationsInRun'
    BY DEF IInv, TypeOK, OperationsInRun, HeaderMatchesPhase
  <2>7. SleeperHasWaker'
    BY DEF IInv, TypeOK, SleeperHasWaker, OperationsInRun
  <2>8. Reservation'
    BY ZenonT(30), <1>1, BeginReserves DEF IInv
  <2> QED
    BY SMTT(30), <2>1, <2>2, <2>3, <2>4, <2>5, <2>6, <2>7, <2>8 DEF IInv
<1>2. ASSUME NEW p \in Procs, BeginOpSleep(p) PROVE IInv'
  <2> USE <1>2 DEF BeginOpSleep
  <2>1. TypeOK'
    BY DEF IInv, TypeOK, LoopProgress, OperationsInRun
  <2>2. Absorbed'
    BY DEF IInv, TypeOK, Absorbed, HeaderMatchesPhase
  <2>3. CacheMatchesDisk'
    BY DEF IInv, TypeOK, CacheMatchesDisk, HeaderMatchesPhase, LoopProgress,
       OperationsInRun, Absorbed
  <2>4. HeaderMatchesPhase'
    BY DEF IInv, TypeOK, HeaderMatchesPhase, OperationsInRun
  <2>5. LoopProgress'
    BY DEF IInv, TypeOK, LoopProgress, HeaderMatchesPhase, OperationsInRun,
       Absorbed
  <2>6. OperationsInRun'
    BY DEF IInv, TypeOK, OperationsInRun, HeaderMatchesPhase
  <2>7. SleeperHasWaker'
    <3>1. active = {} /\ phase = "run" => HasRoom
      <4> SUFFICES ASSUME active = {}, phase = "run" PROVE HasRoom
        OBVIOUS
      <4>1. outstanding = 0
        BY FS_EmptySet DEF outstanding
      <4>2. Len(lh) = 0
        BY DEF IInv, OperationsInRun
      <4> QED
        BY <4>1, <4>2 DEF HasRoom
    <3> QED
      BY <3>1 DEF IInv, TypeOK, SleeperHasWaker
  <2>8. Reservation'
    BY ReservedSame DEF IInv, TypeOK, Reservation, active
  <2> QED
    BY SMTT(30), <2>1, <2>2, <2>3, <2>4, <2>5, <2>6, <2>7, <2>8 DEF IInv
<1>3. ASSUME NEW p \in Procs, NEW b \in Blocks, NEW v \in Values, Modify(p, b, v) PROVE IInv'
  <2> USE <1>3 DEF Modify
  <2>1. TypeOK'
    BY DEF IInv, TypeOK, LoopProgress, OperationsInRun
  <2>2. Absorbed'
    BY DEF IInv, TypeOK, Absorbed, HeaderMatchesPhase
  <2>3. CacheMatchesDisk'
    BY DEF IInv, TypeOK, CacheMatchesDisk, HeaderMatchesPhase, LoopProgress,
       OperationsInRun, Absorbed
  <2>4. HeaderMatchesPhase'
    BY DEF IInv, TypeOK, HeaderMatchesPhase, OperationsInRun
  <2>5. LoopProgress'
    BY DEF IInv, TypeOK, LoopProgress, HeaderMatchesPhase, OperationsInRun,
       Absorbed
  <2>6. OperationsInRun'
    BY DEF IInv, TypeOK, OperationsInRun, HeaderMatchesPhase
  <2>7. SleeperHasWaker'
    BY DEF IInv, TypeOK, SleeperHasWaker, OperationsInRun
  <2>8. Reservation'
    BY ReservedSame DEF IInv, TypeOK, Reservation, active
  <2> QED
    BY SMTT(30), <2>1, <2>2, <2>3, <2>4, <2>5, <2>6, <2>7, <2>8 DEF IInv
<1>4. ASSUME NEW p \in Procs, log_write(p) PROVE IInv'
  <2> USE <1>4 DEF log_write, TooBig, Logged
  <2>1. TypeOK'
    <3>1. hold[p] \in Blocks /\ used[p] + 1 \in 0 .. MAXOPBLOCKS
      BY SMTT(30), SizesAssumption DEF IInv, TypeOK, OperationsInRun
    <3>2. lh' \in Seq(Blocks) /\ Len(lh') < nlog
      BY <3>1, SizesAssumption DEF IInv, TypeOK
    <3>3. used' \in [Procs -> 0 .. MAXOPBLOCKS]
      BY <3>1 DEF IInv, TypeOK
    <3>4. dirty' \in SUBSET Blocks /\ hold' \in [Procs -> Blocks \cup {NoBlock}]
      BY SMTT(30), <3>1 DEF IInv, TypeOK
    <3> QED
      BY SMTT(30), <3>2, <3>3, <3>4 DEF IInv, TypeOK
  <2>2. Absorbed'
    <3>1. lh \in Seq(Blocks) /\ hold[p] \in Blocks /\ Distinct(lh) /\ Distinct(head)
      BY DEF IInv, TypeOK, Absorbed
    <3>2. CASE hold[p] \in {lh[i] : i \in 1 .. Len(lh)}
      BY <3>1, <3>2 DEF Absorbed
    <3>3. CASE hold[p] \notin {lh[i] : i \in 1 .. Len(lh)}
      <4>1. lh' = Append(lh, hold[p])
        BY <3>3
      <4>2. Distinct(lh')
        BY <3>1, <3>3, <4>1 DEF Distinct
      <4> QED
        BY <4>2, <3>1 DEF Absorbed
    <3> QED
      BY <3>2, <3>3
  <2>3. CacheMatchesDisk'
    <3>1. hold[p] \in Blocks
      BY DEF IInv, TypeOK
    <3>2. \A i \in 1 .. Len(lh) : i \in 1 .. Len(lh') /\ lh'[i] = lh[i]
      BY <3>1 DEF IInv, TypeOK
    <3>3. \E i \in 1 .. Len(lh') : lh'[i] = hold[p]
      <4>1. CASE hold[p] \in Logged(lh)
        BY <4>1, <3>2
      <4>2. CASE hold[p] \notin Logged(lh)
        <5>1. lh' = Append(lh, hold[p]) /\ lh \in Seq(Blocks)
          BY SMTT(30), <4>2 DEF IInv, TypeOK
        <5>2. Len(lh') = Len(lh) + 1 /\ lh'[Len(lh) + 1] = hold[p]
          BY <5>1, <3>1
        <5> QED
          BY <5>1, <5>2
      <4> QED
        BY <4>1, <4>2
    <3>4. \A b \in dirty' : \E i \in 1 .. Len(lh') : lh'[i] = b
      BY <3>2, <3>3 DEF IInv, CacheMatchesDisk
    <3>5. \A b \in Blocks \ dirty' :
             (\A q \in Procs : hold'[q] # b) => cache'[b] = disk'[b]
      BY <3>1 DEF IInv, TypeOK, CacheMatchesDisk
    <3> QED
      BY <3>4, <3>5 DEF CacheMatchesDisk
  <2>4. HeaderMatchesPhase'
    BY DEF IInv, TypeOK, HeaderMatchesPhase, OperationsInRun
  <2>5. LoopProgress'
    BY DEF IInv, TypeOK, LoopProgress, HeaderMatchesPhase, OperationsInRun,
       Absorbed
  <2>6. OperationsInRun'
    BY DEF IInv, TypeOK, OperationsInRun, HeaderMatchesPhase
  <2>7. SleeperHasWaker'
    BY DEF IInv, TypeOK, SleeperHasWaker, OperationsInRun
  <2>8. Reservation'
    BY ZenonT(30), <1>4, WriteSpends DEF IInv
  <2> QED
    BY SMTT(30), <2>1, <2>2, <2>3, <2>4, <2>5, <2>6, <2>7, <2>8 DEF IInv
<1>5. ASSUME NEW p \in Procs, log_write_panic(p) PROVE IInv'
  <2> USE <1>5 DEF log_write_panic
  <2>1. TypeOK'
    BY DEF IInv, TypeOK, LoopProgress, OperationsInRun
  <2>2. Absorbed'
    BY DEF IInv, TypeOK, Absorbed, HeaderMatchesPhase
  <2>3. CacheMatchesDisk'
    BY DEF IInv, TypeOK, CacheMatchesDisk, HeaderMatchesPhase, LoopProgress,
       OperationsInRun, Absorbed
  <2>4. HeaderMatchesPhase'
    BY DEF IInv, TypeOK, HeaderMatchesPhase, OperationsInRun
  <2>5. LoopProgress'
    BY DEF IInv, TypeOK, LoopProgress, HeaderMatchesPhase, OperationsInRun,
       Absorbed
  <2>6. OperationsInRun'
    BY DEF IInv, TypeOK, OperationsInRun, HeaderMatchesPhase
  <2>7. SleeperHasWaker'
    BY DEF IInv, TypeOK, SleeperHasWaker, OperationsInRun
  <2>8. Reservation'
    BY SMTT(30) DEF Reservation
  <2> QED
    BY SMTT(30), <2>1, <2>2, <2>3, <2>4, <2>5, <2>6, <2>7, <2>8 DEF IInv
<1>6. ASSUME NEW b \in Blocks, Evict(b) PROVE IInv'
  <2> USE <1>6 DEF Evict
  <2>1. TypeOK'
    BY DEF IInv, TypeOK, LoopProgress, OperationsInRun
  <2>2. Absorbed'
    BY SMTT(30) DEF IInv, TypeOK, Absorbed, HeaderMatchesPhase
  <2>3. CacheMatchesDisk'
    BY DEF IInv, TypeOK, CacheMatchesDisk, HeaderMatchesPhase, LoopProgress,
       OperationsInRun, Absorbed
  <2>4. HeaderMatchesPhase'
    BY SMTT(30) DEF IInv, TypeOK, HeaderMatchesPhase, OperationsInRun
  <2>5. LoopProgress'
    <3>1. cache' = cache
      BY DEF IInv, TypeOK, CacheMatchesDisk
    <3> QED
      BY SMTT(30), <3>1 DEF IInv, LoopProgress
  <2>6. OperationsInRun'
    BY DEF IInv, TypeOK, OperationsInRun, HeaderMatchesPhase
  <2>7. SleeperHasWaker'
    BY DEF IInv, TypeOK, SleeperHasWaker, OperationsInRun
  <2>8. Reservation'
    BY ReservedSame DEF IInv, TypeOK, Reservation, active
  <2> QED
    BY SMTT(30), <2>1, <2>2, <2>3, <2>4, <2>5, <2>6, <2>7, <2>8 DEF IInv
<1>7. ASSUME NEW p \in Procs, EndOp(p) PROVE IInv'
  <2> USE <1>7 DEF EndOp, Awake
  <2>1. TypeOK'
    <3>1. pc' \in [Procs -> {"out", "asleep", "in"}]
      BY ZenonT(30) DEF IInv, TypeOK
    <3>2. tail' \in 1 .. nlog /\ phase' \in Phases
      BY DEF IInv, TypeOK
    <3>3. used' \in [Procs -> 0 .. MAXOPBLOCKS]
      BY DEF IInv, TypeOK
    <3> QED
      BY <3>1, <3>2, <3>3 DEF IInv, TypeOK
  <2>2. Absorbed'
    BY DEF IInv, TypeOK, Absorbed, HeaderMatchesPhase
  <2>3. CacheMatchesDisk'
    BY SMTT(30) DEF IInv, TypeOK, CacheMatchesDisk, HeaderMatchesPhase, LoopProgress,
       OperationsInRun, Absorbed
  <2>4. HeaderMatchesPhase'
    BY SMTT(30) DEF IInv, TypeOK, HeaderMatchesPhase, OperationsInRun
  <2>5. LoopProgress'
    BY SMTT(30) DEF IInv, TypeOK, LoopProgress, HeaderMatchesPhase, OperationsInRun,
       Absorbed
  <2>6. OperationsInRun'
    <3>1. \A q \in Procs : pc'[q] = "in" <=> pc[q] = "in" /\ q # p
      BY SMTT(30) DEF IInv, TypeOK
    <3>2. phase' = "run" => \E q \in Procs : pc[q] = "in" /\ q # p
      BY DEF IInv, TypeOK
    <3>3. phase' = "log" => \A q \in Procs : pc[q] = "in" => q = p
      BY DEF IInv, TypeOK
    <3>4. phase' \in {"run", "log"}
      BY SMTT(30)
    <3> QED
      BY SMTT(30), <3>1, <3>2, <3>3, <3>4 DEF IInv, TypeOK, OperationsInRun
  <2>7. SleeperHasWaker'
    BY SMTT(30) DEF IInv, TypeOK, SleeperHasWaker, OperationsInRun
  <2>8. Reservation'
    BY ZenonT(30), <1>7, EndReturns DEF IInv
  <2> QED
    BY SMTT(30), <2>1, <2>2, <2>3, <2>4, <2>5, <2>6, <2>7, <2>8 DEF IInv
<1>8. CASE write_log
  <2> USE <1>8 DEF write_log
  <2>1. TypeOK'
    BY SMTT(30) DEF IInv, TypeOK, LoopProgress, OperationsInRun
  <2>2. Absorbed'
    BY SMTT(30) DEF IInv, TypeOK, Absorbed, HeaderMatchesPhase
  <2>3. CacheMatchesDisk'
    BY SMTT(30) DEF IInv, TypeOK, CacheMatchesDisk, HeaderMatchesPhase, LoopProgress,
       OperationsInRun, Absorbed
  <2>4. HeaderMatchesPhase'
    BY SMTT(30) DEF IInv, TypeOK, HeaderMatchesPhase, OperationsInRun
  <2>5. LoopProgress'
    BY DEF IInv, TypeOK, LoopProgress, HeaderMatchesPhase, OperationsInRun,
       Absorbed
  <2>6. OperationsInRun'
    BY DEF IInv, TypeOK, OperationsInRun, HeaderMatchesPhase
  <2>7. SleeperHasWaker'
    BY DEF IInv, TypeOK, SleeperHasWaker, OperationsInRun
  <2>8. Reservation'
    BY DEF Reservation
  <2> QED
    BY SMTT(30), <2>1, <2>2, <2>3, <2>4, <2>5, <2>6, <2>7, <2>8 DEF IInv
<1>9. CASE write_head
  <2> USE <1>9 DEF write_head
  <2>1. TypeOK'
    BY DEF IInv, TypeOK, LoopProgress, OperationsInRun
  <2>2. Absorbed'
    BY SMTT(30) DEF IInv, TypeOK, Absorbed, HeaderMatchesPhase
  <2>3. CacheMatchesDisk'
    BY DEF IInv, TypeOK, CacheMatchesDisk, HeaderMatchesPhase, LoopProgress,
       OperationsInRun, Absorbed
  <2>4. HeaderMatchesPhase'
    BY SMTT(30) DEF IInv, TypeOK, HeaderMatchesPhase, OperationsInRun
  <2>5. LoopProgress'
    BY DEF IInv, TypeOK, LoopProgress, HeaderMatchesPhase, OperationsInRun,
       Absorbed
  <2>6. OperationsInRun'
    BY DEF IInv, TypeOK, OperationsInRun, HeaderMatchesPhase
  <2>7. SleeperHasWaker'
    BY DEF IInv, TypeOK, SleeperHasWaker, OperationsInRun
  <2>8. Reservation'
    BY DEF Reservation
  <2> QED
    BY SMTT(30), <2>1, <2>2, <2>3, <2>4, <2>5, <2>6, <2>7, <2>8 DEF IInv
<1>10. CASE install_trans
  <2> USE <1>10 DEF install_trans
  <2>1. TypeOK'
    BY DEF IInv, TypeOK, LoopProgress, OperationsInRun
  <2>2. Absorbed'
    BY SMTT(30) DEF IInv, TypeOK, Absorbed, HeaderMatchesPhase
  <2>3. CacheMatchesDisk'
    BY SMTT(30) DEF IInv, TypeOK, CacheMatchesDisk, HeaderMatchesPhase, LoopProgress,
       OperationsInRun, Absorbed
  <2>4. HeaderMatchesPhase'
    BY SMTT(30) DEF IInv, TypeOK, HeaderMatchesPhase, OperationsInRun
  <2>5. LoopProgress'
    BY SMTT(30) DEF IInv, TypeOK, LoopProgress, HeaderMatchesPhase, OperationsInRun,
       Absorbed
  <2>6. OperationsInRun'
    BY SMTT(30) DEF IInv, TypeOK, OperationsInRun, HeaderMatchesPhase
  <2>7. SleeperHasWaker'
    BY DEF IInv, TypeOK, SleeperHasWaker, OperationsInRun
  <2>8. Reservation'
    BY DEF Reservation
  <2> QED
    BY SMTT(30), <2>1, <2>2, <2>3, <2>4, <2>5, <2>6, <2>7, <2>8 DEF IInv
<1>11. CASE erase_head
  <2> USE <1>11 DEF erase_head
  <2>1. TypeOK'
    BY DEF IInv, TypeOK, LoopProgress, OperationsInRun
  <2>2. Absorbed'
    BY SMTT(30) DEF IInv, TypeOK, Absorbed, HeaderMatchesPhase
  <2>3. CacheMatchesDisk'
    BY DEF IInv, TypeOK, CacheMatchesDisk, HeaderMatchesPhase, LoopProgress,
       OperationsInRun, Absorbed
  <2>4. HeaderMatchesPhase'
    BY SMTT(30) DEF IInv, TypeOK, HeaderMatchesPhase, OperationsInRun
  <2>5. LoopProgress'
    BY SMTT(30) DEF IInv, TypeOK, LoopProgress, HeaderMatchesPhase, OperationsInRun,
       Absorbed
  <2>6. OperationsInRun'
    BY DEF IInv, TypeOK, OperationsInRun, HeaderMatchesPhase
  <2>7. SleeperHasWaker'
    BY DEF IInv, TypeOK, SleeperHasWaker, OperationsInRun
  <2>8. Reservation'
    <3>1. Reserved' = {} /\ Len(lh') = 0
      BY DEF IInv, TypeOK, Reserved, OperationsInRun, HeaderMatchesPhase
    <3> QED
      BY SMTT(30), <3>1, FS_EmptySet DEF Reservation
  <2> QED
    BY SMTT(30), <2>1, <2>2, <2>3, <2>4, <2>5, <2>6, <2>7, <2>8 DEF IInv
<1>12. CASE commit_done
  <2> USE <1>12 DEF commit_done, Awake
  <2>1. TypeOK'
    BY DEF IInv, TypeOK, LoopProgress, OperationsInRun
  <2>2. Absorbed'
    BY SMTT(30) DEF IInv, TypeOK, Absorbed, HeaderMatchesPhase
  <2>3. CacheMatchesDisk'
    BY SMTT(30) DEF IInv, TypeOK, CacheMatchesDisk, HeaderMatchesPhase, LoopProgress,
       OperationsInRun, Absorbed
  <2>4. HeaderMatchesPhase'
    BY SMTT(30) DEF IInv, TypeOK, HeaderMatchesPhase, OperationsInRun
  <2>5. LoopProgress'
    BY SMTT(30) DEF IInv, TypeOK, LoopProgress, HeaderMatchesPhase, OperationsInRun,
       Absorbed
  <2>6. OperationsInRun'
    BY SMTT(30) DEF IInv, TypeOK, OperationsInRun, HeaderMatchesPhase
  <2>7. SleeperHasWaker'
    BY DEF IInv, TypeOK, SleeperHasWaker, OperationsInRun
  <2>8. Reservation'
    <3>1. Reserved' = {} /\ Len(lh') = 0
      BY DEF IInv, TypeOK, Reserved, OperationsInRun, HeaderMatchesPhase
    <3> QED
      BY SMTT(30), <3>1, FS_EmptySet DEF Reservation
  <2> QED
    BY SMTT(30), <2>1, <2>2, <2>3, <2>4, <2>5, <2>6, <2>7, <2>8 DEF IInv
<1>13. CASE Crash
  <2> USE <1>13 DEF Crash
  <2>1. TypeOK'
    BY DEF IInv, TypeOK, LoopProgress, OperationsInRun
  <2>2. Absorbed'
    BY SMTT(30) DEF IInv, TypeOK, Absorbed, HeaderMatchesPhase
  <2>3. CacheMatchesDisk'
    BY SMTT(30) DEF IInv, TypeOK, CacheMatchesDisk, HeaderMatchesPhase, LoopProgress,
       OperationsInRun, Absorbed
  <2>4. HeaderMatchesPhase'
    BY SMTT(30) DEF IInv, TypeOK, HeaderMatchesPhase, OperationsInRun
  <2>5. LoopProgress'
    BY SMTT(30) DEF IInv, TypeOK, LoopProgress, HeaderMatchesPhase, OperationsInRun,
       Absorbed
  <2>6. OperationsInRun'
    BY SMTT(30) DEF IInv, TypeOK, OperationsInRun, HeaderMatchesPhase
  <2>7. SleeperHasWaker'
    BY DEF IInv, TypeOK, SleeperHasWaker, OperationsInRun
  <2>8. Reservation'
    BY DEF Reservation
  <2> QED
    BY SMTT(30), <2>1, <2>2, <2>3, <2>4, <2>5, <2>6, <2>7, <2>8 DEF IInv
<1>14. CASE read_head
  <2> USE <1>14 DEF read_head
  <2>1. TypeOK'
    BY SMTT(30) DEF IInv, TypeOK, LoopProgress, OperationsInRun
  <2>2. Absorbed'
    BY SMTT(30) DEF IInv, TypeOK, Absorbed, HeaderMatchesPhase
  <2>3. CacheMatchesDisk'
    BY DEF IInv, TypeOK, CacheMatchesDisk, HeaderMatchesPhase, LoopProgress,
       OperationsInRun, Absorbed
  <2>4. HeaderMatchesPhase'
    BY SMTT(30) DEF IInv, TypeOK, HeaderMatchesPhase, OperationsInRun
  <2>5. LoopProgress'
    BY SMTT(30) DEF IInv, TypeOK, LoopProgress, HeaderMatchesPhase, OperationsInRun,
       Absorbed
  <2>6. OperationsInRun'
    BY SMTT(30) DEF IInv, TypeOK, OperationsInRun, HeaderMatchesPhase
  <2>7. SleeperHasWaker'
    BY DEF IInv, TypeOK, SleeperHasWaker, OperationsInRun
  <2>8. Reservation'
    BY DEF Reservation
  <2> QED
    BY SMTT(30), <2>1, <2>2, <2>3, <2>4, <2>5, <2>6, <2>7, <2>8 DEF IInv
<1>15. CASE UNCHANGED vars
  <2> USE <1>15 DEF vars
  <2>1. TypeOK'
    BY DEF IInv, TypeOK
  <2>2. Absorbed'
    BY SMTT(30) DEF IInv, Absorbed, Distinct
  <2>3. CacheMatchesDisk'
    BY DEF IInv, CacheMatchesDisk
  <2>4. HeaderMatchesPhase'
    BY SMTT(30) DEF IInv, HeaderMatchesPhase
  <2>5. LoopProgress'
    BY SMTT(30) DEF IInv, LoopProgress
  <2>6. OperationsInRun'
    BY DEF IInv, OperationsInRun, active
  <2>7. SleeperHasWaker'
    BY DEF IInv, SleeperHasWaker, Committing, active
  <2>8. Reservation'
    BY DEF IInv, Reservation, Reserved, active
  <2> QED
    BY SMTT(30), <2>1, <2>2, <2>3, <2>4, <2>5, <2>6, <2>7, <2>8 DEF IInv
<1> QED
  BY SMTT(30), <1>1, <1>2, <1>3, <1>4, <1>5, <1>6, <1>7, <1>8, <1>9, <1>10, <1>11,
     <1>12, <1>13, <1>14, <1>15 DEF Next, OpStep, CommitStep

(* The inductive invariant holds in every reachable state. *)
THEOREM Invariance == SafeSpec => []IInv
BY InitIInv, NextIInv, PTL DEF SafeSpec

(* No process is left asleep in begin_op() with nobody to wake it. *)
THEOREM SleeperTheorem == SafeSpec => []SleeperHasWaker
<1>1. IInv => SleeperHasWaker
  BY DEF IInv
<1> QED
  BY <1>1, Invariance, PTL

(* The variables keep their types: the log never outgrows its area on the disk,
   and the loops of commit() and recovery stay within it.                  *)
THEOREM TypeTheorem == SafeSpec => []TypeOK
<1>1. IInv => TypeOK
  BY DEF IInv
<1> QED
  BY <1>1, Invariance, PTL

(* What begin_op() admits never exceeds LOGSIZE blocks, for any number of
   processes and any size of the log area.                                 *)
THEOREM ReservationTheorem == SafeSpec => []Reservation
<1>1. IInv => Reservation
  BY DEF IInv
<1> QED
  BY <1>1, Invariance, PTL

(* A log area with room for LOGSIZE blocks besides the header never overflows:
   the reservation of begin_op() covers every log_write() to come.  (The area
   that mkfs lays out is one block smaller.)                               *)
THEOREM RoomTheorem ==
    ASSUME nlog > LOGSIZE
    PROVE  SafeSpec => []TransactionFits
<1>1. Init => TransactionFits
  BY SMTT(30) DEF Init, TransactionFits
<1>2. IInv /\ TransactionFits /\ [Next]_vars => TransactionFits'
  <2> SUFFICES ASSUME IInv, TransactionFits, [Next]_vars PROVE TransactionFits'
    OBVIOUS
  <2>1. ASSUME NEW p \in Procs PROVE ~log_write_panic(p)
    <3> SUFFICES ASSUME log_write_panic(p) PROVE FALSE
      OBVIOUS
    <3>1. <<p, used[p] + 1>> \in Reserved
      BY SizesAssumption
         DEF log_write_panic, IInv, TypeOK, OperationsInRun, Reserved, active
    <3>2. Cardinality(Reserved) # 0 /\ Cardinality(Reserved) \in Nat
      BY <3>1, ReservedIsFinite, FS_EmptySet
    <3>3. Len(lh) < LOGSIZE
      BY <3>2, SizesAssumption DEF log_write_panic, IInv, TypeOK, Reservation
    <3> QED
      BY <3>3, SizesAssumption DEF log_write_panic, TooBig, IInv, TypeOK
  <2> QED
    BY ZenonT(30), <2>1 DEF TransactionFits, Next, OpStep, CommitStep, BeginOp,
       BeginOpSleep, Modify, log_write, Evict, EndOp, write_log, write_head,
       install_trans, erase_head, commit_done, Crash, read_head, vars
<1> QED
  BY <1>1, <1>2, Invariance, PTL DEF SafeSpec

-----------------------------------------------------------------------------
(* Recovery *)

LEMMA ReplayLogged ==
    ASSUME NEW d, NEW l, NEW h \in Seq(Blocks), Distinct(h),
           NEW i \in 1 .. Len(h)
    PROVE  Replay(d, l, h)[h[i]] = l[i]
<1>1. h[i] \in Blocks /\ h[i] \in Logged(h)
  BY DEF Logged
<1>2. (CHOOSE j \in 1 .. Len(h) : h[j] = h[i]) = i
  BY DEF Distinct
<1> QED
  BY ZenonT(30), <1>1, <1>2 DEF Replay

LEMMA ReplayOther ==
    ASSUME NEW d, NEW l, NEW h, NEW b \in Blocks, b \notin Logged(h)
    PROVE  Replay(d, l, h)[b] = d[b]
BY DEF Replay

LEMMA ReplayIsFunction ==
    ASSUME NEW d, NEW l, NEW h
    PROVE  Replay(d, l, h) = [b \in Blocks |-> Replay(d, l, h)[b]]
BY DEF Replay

(* Two functions on the blocks that agree everywhere are equal. *)
LEMMA ReplayEquals ==
    ASSUME NEW d, NEW l, NEW h \in Seq(Blocks), Distinct(h),
           NEW f \in [Blocks -> Values],
           \A i \in 1 .. Len(h) : f[h[i]] = l[i],
           \A b \in Blocks : b \notin Logged(h) => f[b] = d[b]
    PROVE  Replay(d, l, h) = f
<1>1. ASSUME NEW b \in Blocks PROVE Replay(d, l, h)[b] = f[b]
  <2>1. CASE b \in Logged(h)
    <3>1. PICK i \in 1 .. Len(h) : h[i] = b
      BY SMTT(30), <2>1 DEF Logged
    <3> QED
      BY <3>1, ReplayLogged
  <2>2. CASE b \notin Logged(h)
    BY SMTT(30), <2>2, ReplayOther
  <2> QED
    BY SMTT(30), <2>1, <2>2
<1>2. f = [b \in Blocks |-> f[b]]
  OBVIOUS
<1> QED
  BY SMTT(30), <1>1, <1>2, ReplayIsFunction

LEMMA ReplayEmpty ==
    ASSUME NEW l, NEW d \in [Blocks -> Values]
    PROVE  Replay(d, l, <<>>) = d
<1>1. <<>> \in Seq(Blocks) /\ Len(<<>>) = 0 /\ Distinct(<<>>) /\ Logged(<<>>) = {}
  BY DEF Distinct, Logged
<1>2. \A b \in Blocks : Replay(d, l, <<>>)[b] = d[b]
  BY SMTT(30), <1>1, ReplayOther
<1> QED
  BY <1>2, ReplayIsFunction

(* A crash after the last end_op() loses nothing. *)
THEOREM DurableTheorem == SafeSpec => []QuiescentDurable
<1>1. IInv => QuiescentDurable
  <2> SUFFICES ASSUME IInv, phase = "run", active = {} PROVE stable = cache
    BY SMTT(30) DEF QuiescentDurable
  <2>1. lh = <<>> /\ head = <<>>
    BY DEF IInv, OperationsInRun, HeaderMatchesPhase
  <2>2. dirty = {}
    BY SMTT(30), <2>1 DEF IInv, CacheMatchesDisk, TypeOK
  <2>3. \A p \in Procs : hold[p] = NoBlock
    BY SMTT(30) DEF IInv, OperationsInRun, active
  <2>4. cache = disk
    BY <2>2, <2>3, NamesAssumption DEF IInv, CacheMatchesDisk, TypeOK
  <2> QED
    BY <2>1, <2>4, ReplayEmpty DEF stable, IInv, TypeOK
<1> QED
  BY <1>1, Invariance, PTL
-----------------------------------------------------------------------------
(* The log implements the atomic disk. *)

(* What a step that leaves the disk, the log and the header alone does. *)
LEMMA StableSame ==
    ASSUME UNCHANGED diskVars
    PROVE  stable' = stable
BY SMTT(30) DEF diskVars, stable

(* Outside recovery mem is the cache, and clean caches equal the disk. *)
LEMMA IdleCache ==
    ASSUME IInv, dirty = {}, active = {}
    PROVE  cache = disk
<1>1. \A p \in Procs : hold[p] = NoBlock
  BY DEF IInv, OperationsInRun, active
<1> QED
  BY <1>1, NamesAssumption DEF IInv, CacheMatchesDisk, TypeOK

LEMMA InitRefines == Init => Abs!AbsInit
<1> SUFFICES ASSUME Init PROVE Abs!AbsInit
  OBVIOUS
<1>1. stable = disk
  BY SMTT(30), ReplayEmpty DEF Init, stable
<1> QED
  BY <1>1 DEF Init, Abs!AbsInit, active, mem

LEMMA StepRefines == IInv /\ [Next]_vars => [Abs!AbsNext]_(Abs!absVars)
<1> SUFFICES ASSUME IInv, [Next]_vars
             PROVE  Abs!AbsNext \/ UNCHANGED <<active, mem, stable>>
  BY DEF Abs!absVars
<1>1. ASSUME NEW p \in Procs, BeginOp(p) PROVE Abs!AbsBegin(p)
  BY SMTT(30), <1>1, StableSame DEF BeginOp, Abs!AbsBegin, active, mem, IInv, TypeOK
<1>2. ASSUME NEW p \in Procs, BeginOpSleep(p)
      PROVE  UNCHANGED <<active, mem, stable>>
  BY SMTT(30), <1>2, StableSame DEF BeginOpSleep, active, mem, IInv, TypeOK
<1>3. ASSUME NEW p \in Procs, NEW b \in Blocks, NEW v \in Values,
             Modify(p, b, v)
      PROVE  Abs!AbsWrite(p, b, v)
  BY SMTT(30), <1>3, StableSame DEF Modify, Abs!AbsWrite, active, mem
<1>4. ASSUME NEW p \in Procs, log_write(p) \/ log_write_panic(p)
      PROVE  UNCHANGED <<active, mem, stable>>
  BY SMTT(30), <1>4, StableSame DEF log_write, log_write_panic, opVars, active, mem
<1>5. ASSUME NEW b \in Blocks, Evict(b)
      PROVE  UNCHANGED <<active, mem, stable>>
  <2>1. cache' = cache
    BY <1>5 DEF Evict, IInv, TypeOK, CacheMatchesDisk
  <2> QED
    BY SMTT(30), <2>1, <1>5, StableSame DEF Evict, opVars, active, mem
<1>6. ASSUME NEW p \in Procs, EndOp(p) PROVE Abs!AbsEnd(p)
  <2>1. active' = active \ {p} /\ p \in active
    BY SMTT(30), <1>6 DEF EndOp, Awake, active, IInv, TypeOK
  <2>2. mem' = mem
    BY <1>6, StableSame DEF EndOp, mem
  <2> QED
    BY SMTT(30), <2>1, <2>2, <1>6, StableSame DEF EndOp, Abs!AbsEnd
<1>7. CASE write_log
  <2>1. stable' = disk /\ stable = disk
    BY <1>7, ReplayEmpty DEF write_log, stable, IInv, TypeOK, HeaderMatchesPhase
  <2> QED
    BY SMTT(30), <2>1, <1>7 DEF write_log, opVars, active, mem
<1>8. CASE write_head
  <2>1. active = {}
    BY SMTT(30), <1>8 DEF write_head, IInv, OperationsInRun
  <2>2. \A p \in Procs : hold[p] = NoBlock
    BY SMTT(30), <2>1 DEF IInv, OperationsInRun, active
  <2>3. \A i \in 1 .. Len(lh) : cache[lh[i]] = logblk[i]
    BY <1>8 DEF write_head, IInv, TypeOK, LoopProgress
  <2>4. \A b \in Blocks : b \notin Logged(lh) => cache[b] = disk[b]
    <3>1. \A b \in dirty : b \in Logged(lh)
      BY DEF IInv, CacheMatchesDisk, Logged
    <3>2. \A b \in Blocks, p \in Procs : hold[p] # b
      BY SMTT(30), <2>2, NamesAssumption
    <3> QED
      BY SMTT(30), <3>1, <3>2 DEF IInv, CacheMatchesDisk
  <2>5. Replay(disk, logblk, lh) = cache
    <3>1. lh \in Seq(Blocks) /\ Distinct(lh) /\ cache \in [Blocks -> Values]
      BY DEF IInv, TypeOK, Absorbed
    <3> QED
      BY SMTT(30), <2>3, <2>4, <3>1, ReplayEquals
  <2>6. stable' = Replay(disk, logblk, lh) /\ mem = cache /\ mem' = cache
    BY <1>8 DEF write_head, stable, mem
  <2>7. active' = active
    BY <1>8 DEF write_head, opVars, active
  <2> QED
    BY ZenonT(30), <2>1, <2>5, <2>6, <2>7 DEF Abs!AbsCommit, Abs!AbsNext
<1>9. CASE install_trans
  <2>1. head = lh /\ lh \in Seq(Blocks) /\ Distinct(lh) /\ tail \in 1 .. Len(lh)
    BY <1>9 DEF install_trans, IInv, TypeOK, HeaderMatchesPhase, Absorbed
  <2>2. stable = Replay(disk, logblk, lh)
    BY <2>1 DEF stable
  <2>3. ASSUME NEW i \in 1 .. Len(lh)
        PROVE  Replay(disk, logblk, lh)[lh[i]] = logblk[i]
    <3>1. lh \in Seq(Blocks) /\ Distinct(lh)
      BY <2>1
    <3> QED
      BY SMT, <3>1, ReplayLogged
  <2>4. stable \in [Blocks -> Values]
    <3>1. \A i \in 1 .. Len(lh) : logblk[i] \in Values
      BY <2>1, SizesAssumption DEF IInv, TypeOK, LogSlots
    <3>2. ASSUME NEW b \in Blocks PROVE stable[b] \in Values
      <4>1. CASE b \in Logged(lh)
        <5>1. PICK i \in 1 .. Len(lh) : lh[i] = b
          BY SMTT(30), <4>1 DEF Logged
        <5> QED
          BY ZenonT(30), <2>2, <2>3, <3>1, <5>1
      <4>2. CASE b \notin Logged(lh)
        <5>1. stable[b] = disk[b]
          BY <4>2, <2>2, ReplayOther
        <5>2. disk[b] \in Values
          BY SMTT(30) DEF IInv, TypeOK
        <5> QED
          BY SMTT(30), <5>1, <5>2
      <4> QED
        BY SMTT(30), <4>1, <4>2
    <3> QED
      BY ZenonT(30), <3>2 DEF stable, Replay
  <2>5. \A i \in 1 .. Len(lh) : stable[lh[i]] = logblk[i]
    BY ZenonT(30), <2>2, <2>3
  <2>6. \A b \in Blocks : b \notin Logged(lh) => stable[b] = disk'[b]
    <3>1. lh[tail] \in Logged(lh)
      BY SMTT(30), <2>1 DEF Logged
    <3>2. \A b \in Blocks : b # lh[tail] => disk'[b] = disk[b]
      BY SMTT(30), <1>9 DEF install_trans, IInv, TypeOK
    <3> SUFFICES ASSUME NEW b \in Blocks, b \notin Logged(lh)
                 PROVE  stable[b] = disk'[b]
      BY ZenonT(30)
    <3>3. stable[b] = disk[b]
      BY <2>2, ReplayOther
    <3>4. disk'[b] = disk[b]
      BY <3>1, <3>2
    <3> QED
      BY ZenonT(30), <3>3, <3>4
  <2>7. Replay(disk', logblk, lh) = stable
    <3> HIDE DEF stable
    <3> DEFINE d == disk'
    <3>1. \A b \in Blocks : b \notin Logged(lh) => stable[b] = d[b]
      BY ZenonT(30), <2>6
    <3> HIDE DEF d
    <3>2. Replay(d, logblk, lh) = stable
      BY SMTT(30), <2>1, <2>4, <2>5, <3>1, ReplayEquals
    <3> QED
      BY <3>2 DEF d
  <2>8. stable' = stable
    BY SMTT(30), <2>1, <2>7, <1>9 DEF install_trans, stable
  <2>9. phase = "install" => cache' = cache
    BY <2>1, <1>9 DEF install_trans, IInv, TypeOK, LoopProgress
  <2> QED
    BY ZenonT(30), <2>8, <2>9, <1>9 DEF install_trans, opVars, active, mem
<1>10. CASE erase_head
  <2>1. head = lh /\ lh \in Seq(Blocks) /\ Distinct(lh)
    BY SMTT(30), <1>10 DEF erase_head, IInv, TypeOK, HeaderMatchesPhase, Absorbed
  <2>2. \A i \in 1 .. Len(lh) : disk[lh[i]] = logblk[i]
    BY SMTT(30), <1>10 DEF erase_head, IInv, TypeOK, LoopProgress
  <2>3. stable = disk
    BY ZenonT(30), <2>1, <2>2, ReplayEquals DEF stable, IInv, TypeOK
  <2>4. stable' = disk
    BY <1>10, ReplayEmpty DEF erase_head, stable, IInv, TypeOK
  <2>5. phase = "reinstall" => cache = disk
    BY SMTT(30), IdleCache DEF IInv, CacheMatchesDisk, OperationsInRun
  <2> QED
    BY SMTT(30), <2>3, <2>4, <2>5, <1>10 DEF erase_head, opVars, active, mem
<1>11. CASE commit_done
  BY <1>11, StableSame DEF commit_done, Awake, active, mem, IInv, TypeOK
<1>12. CASE Crash
  <2>1. active' = {} /\ mem' = stable'
    BY <1>12 DEF Crash, active, mem
  <2> QED
    BY <2>1, <1>12, StableSame DEF Crash, Abs!AbsCrash, Abs!AbsNext
<1>13. CASE read_head
  BY <1>13, StableSame DEF read_head, opVars, active, mem
<1>14. CASE UNCHANGED vars
  BY <1>14, StableSame DEF vars, diskVars, active, mem
<1> QED
  BY SMTT(30), <1>1, <1>2, <1>3, <1>4, <1>5, <1>6, <1>7, <1>8, <1>9, <1>10, <1>11,
     <1>12, <1>13, <1>14
     DEF Next, OpStep, CommitStep, Abs!AbsNext

(* Whatever the moment of a crash, the disk that recovery produces is the one
   of a moment at which no file system call was active.                    *)
THEOREM RefinementTheorem == SafeSpec => ImplementsAtomicDisk
BY InitRefines, StepRefines, Invariance, PTL
   DEF SafeSpec, ImplementsAtomicDisk, Abs!AbsSpec
=============================================================================
