----------------------------- MODULE PipeProofs -----------------------------
(***************************************************************************)
(* Proofs about the pipe: nobody sleeps past the wakeup meant for them, the*)
(* pipe is not freed under a user, and it is a first-in first-out queue,   *)
(* whatever its size, the width of its counters, and the number of readers *)
(* and writers.                                                            *)
(***************************************************************************)
EXTENDS Pipe, Sequences, RingLemmas, TLAPS

(* The distance between the two counters, on either side of the wrap. *)
LEMMA Distance ==
    ASSUME NEW r \in 0 .. Wrap - 1, NEW w \in 0 .. Wrap - 1
    PROVE  /\ (w - r) % Wrap \in 0 .. Wrap - 1
           /\ w >= r => (w - r) % Wrap = w - r
           /\ w < r => (w - r) % Wrap = w - r + Wrap
<1>1. Wrap \in Nat \ {0} /\ w - r \in -Wrap .. 2 * Wrap - 1
  BY SizeAssumption
<1>2. /\ w - r \in 0 .. Wrap - 1 => (w - r) % Wrap = w - r
      /\ w - r < 0 => (w - r) % Wrap = w - r + Wrap
  BY <1>1, ModCases, ZenonT(30)
<1> QED
  BY <1>1, <1>2

LEMMA Forward ==
    ASSUME NEW r \in 0 .. Wrap - 1, NEW k \in 0 .. Wrap
    PROVE  /\ (r + k) % Wrap \in 0 .. Wrap - 1
           /\ r + k < Wrap => (r + k) % Wrap = r + k
           /\ r + k >= Wrap => (r + k) % Wrap = (r + k) - Wrap
<1>1. Wrap \in Nat \ {0} /\ r + k \in -Wrap .. 2 * Wrap - 1
  BY SizeAssumption
<1> DEFINE a == r + k
<1> HIDE DEF a
<1>2. /\ a \in 0 .. Wrap - 1 => a % Wrap = a
      /\ a >= Wrap => a % Wrap = a - Wrap
  <2>1. a \in -Wrap .. 2 * Wrap - 1
    BY <1>1 DEF a
  <2> QED
    BY <1>1, <2>1, ModCases, ZenonT(30)
<1> QED
  BY <1>1, <1>2 DEF a

(* Full and Empty say how many bytes there are. *)
LEMMA Levels ==
    ASSUME TypeOK
    PROVE  /\ Used \in 0 .. Wrap - 1
           /\ Full <=> Used = PIPESIZE
           /\ Empty <=> Used = 0
<1>1. nread \in 0 .. Wrap - 1 /\ nwrite \in 0 .. Wrap - 1 /\ PIPESIZE \in 0 .. Wrap
  BY SizeAssumption DEF TypeOK
<1> DEFINE u == (nwrite - nread) % Wrap
           f == (nread + PIPESIZE) % Wrap
<1>2. /\ u \in 0 .. Wrap - 1
      /\ nwrite >= nread => u = nwrite - nread
      /\ nwrite < nread => u = nwrite - nread + Wrap
  BY <1>1, Distance
<1>3. /\ nread + PIPESIZE < Wrap => f = nread + PIPESIZE
      /\ nread + PIPESIZE >= Wrap => f = (nread + PIPESIZE) - Wrap
  BY <1>1, Forward
<1> HIDE DEF u, f
<1>4. /\ nwrite = f <=> u = PIPESIZE
      /\ nread = nwrite <=> u = 0
  BY <1>1, <1>2, <1>3, SizeAssumption
<1> QED
  BY <1>2, <1>4 DEF u, f, Used, Full, Empty

LEMMA ZeroDistance ==
    ASSUME NEW r \in 0 .. Wrap - 1, NEW w \in 0 .. Wrap - 1, (w - r) % Wrap = 0
    PROVE  r = w
<1> DEFINE u == (w - r) % Wrap
<1>1. u = 0 /\ (w >= r => u = w - r) /\ (w < r => u = w - r + Wrap)
  BY Distance, Zenon
<1> HIDE DEF u
<1> QED
  BY <1>1, SizeAssumption

(* nwrite++ adds one byte. *)
LEMMA OneMore ==
    ASSUME TypeOK, Used < PIPESIZE
    PROVE  /\ (nwrite + 1) % Wrap \in 0 .. Wrap - 1
           /\ (((nwrite + 1) % Wrap) - nread) % Wrap = Used + 1
<1> DEFINE u == (nwrite - nread) % Wrap
           w == (nwrite + 1) % Wrap
           v == (w - nread) % Wrap
<1>1. nread \in 0 .. Wrap - 1 /\ nwrite \in 0 .. Wrap - 1 /\ 1 \in 0 .. Wrap
  BY SizeAssumption DEF TypeOK
<1>2. /\ nwrite >= nread => u = nwrite - nread
      /\ nwrite < nread => u = nwrite - nread + Wrap
  BY <1>1, Distance
<1>3. /\ w \in 0 .. Wrap - 1
      /\ nwrite + 1 < Wrap => w = nwrite + 1
      /\ nwrite + 1 >= Wrap => w = (nwrite + 1) - Wrap
  BY <1>1, Forward
<1> HIDE DEF w
<1>4. /\ w >= nread => v = w - nread
      /\ w < nread => v = w - nread + Wrap
  BY <1>1, <1>3, Distance
<1>5. u < PIPESIZE
  BY DEF Used
<1> HIDE DEF u, v
<1>6. v = u + 1
  BY <1>1, <1>2, <1>3, <1>4, <1>5, SizeAssumption
<1> QED
  BY <1>3, <1>6 DEF u, v, w, Used

(* nread += k removes k bytes. *)
LEMMA SomeLess ==
    ASSUME TypeOK, NEW k \in 0 .. Used
    PROVE  /\ (nread + k) % Wrap \in 0 .. Wrap - 1
           /\ (nwrite - ((nread + k) % Wrap)) % Wrap = Used - k
<1> DEFINE u == (nwrite - nread) % Wrap
           r == (nread + k) % Wrap
           v == (nwrite - r) % Wrap
<1>1. nread \in 0 .. Wrap - 1 /\ nwrite \in 0 .. Wrap - 1
  BY DEF TypeOK
<1>2. /\ u \in 0 .. Wrap - 1
      /\ nwrite >= nread => u = nwrite - nread
      /\ nwrite < nread => u = nwrite - nread + Wrap
  BY <1>1, Distance
<1>3. k \in 0 .. u
  BY DEF Used
<1> HIDE DEF u
<1>4. k \in 0 .. u /\ k \in 0 .. Wrap
  BY <1>2, <1>3, SizeAssumption
<1>5. /\ r \in 0 .. Wrap - 1
      /\ nread + k < Wrap => r = nread + k
      /\ nread + k >= Wrap => r = (nread + k) - Wrap
  BY <1>1, <1>4, Forward
<1> HIDE DEF r
<1>6. /\ nwrite >= r => v = nwrite - r
      /\ nwrite < r => v = nwrite - r + Wrap
  BY <1>1, <1>5, Distance
<1> HIDE DEF v
<1>7. v = u - k
  <2>1. Wrap \in Nat /\ u \in Int /\ k \in Int /\ r \in Int /\ 0 <= k /\ k <= u
    BY <1>2, <1>4, <1>5, SizeAssumption
  <2>2. CASE nwrite >= nread
    BY <1>1, <1>2, <1>5, <1>6, <2>1, <2>2
  <2>3. CASE nwrite < nread
    BY SMTT(30), <1>1, <1>2, <1>5, <1>6, <2>1, <2>3
  <2> QED
    BY <1>1, <2>2, <2>3
<1>8. (nwrite - r) % Wrap = Used - k
  BY <1>7, Zenon DEF u, v, Used
<1> QED
  BY <1>5, <1>8, ZenonT(30) DEF r

-----------------------------------------------------------------------------
(* Steps that leave the counters alone leave the levels alone. *)
LEMMA SameLevels ==
    ASSUME UNCHANGED <<nread, nwrite>>
    PROVE  Used' = Used /\ (Full' <=> Full) /\ (Empty' <=> Empty)
BY DEF Used, Full, Empty

LEMMA InitIInv == Init => IInv
<1> SUFFICES ASSUME Init PROVE IInv
  OBVIOUS
<1>1. TypeOK
  BY SizeAssumption, RolesAssumption DEF Init, TypeOK, Pcs
<1>2. Empty
  BY DEF Init, Empty
<1>3. Used <= PIPESIZE
  BY <1>1, <1>2, Levels, SizeAssumption
<1>4. LockOwner /\ EndsMatch /\ AboutToSleep /\ SleepersWait
  BY RolesAssumption DEF Init, LockOwner, EndsMatch, AboutToSleep, SleepersWait, Procs
<1> QED
  BY <1>1, <1>3, <1>4 DEF IInv

LEMMA ZeroCount == 0 \in 0 .. MaxCount
BY SizeAssumption

LEMMA CallIInv ==
    ASSUME IInv, NEW p \in Procs, NEW k \in 0 .. MaxCount, Call(p, k)
    PROVE  IInv'
<1> USE DEF IInv, Call, pipeVars
<1>1. TypeOK'
  BY DEF TypeOK, Pcs
<1>2. Used' = Used /\ (Full' <=> Full) /\ (Empty' <=> Empty)
  BY SameLevels
<1>3. LockOwner'
  BY DEF LockOwner, TypeOK
<1>4. EndsMatch'
  BY DEF EndsMatch, TypeOK
<1>5. AboutToSleep'
  BY <1>2 DEF AboutToSleep, TypeOK
<1>6. SleepersWait'
  BY <1>2, RolesAssumption DEF SleepersWait, TypeOK, LockOwner, Procs
<1> QED
  BY <1>1, <1>2, <1>3, <1>4, <1>5, <1>6

LEMMA AcquireIInv ==
    ASSUME IInv, NEW p \in Procs, Acquire(p)
    PROVE  IInv'
<1> USE DEF IInv, Acquire, pipeVars
<1>1. TypeOK'
  BY DEF TypeOK, Pcs
<1>2. Used' = Used /\ (Full' <=> Full) /\ (Empty' <=> Empty)
  BY SameLevels
<1>3. LockOwner'
  BY RolesAssumption DEF LockOwner, TypeOK
<1>4. EndsMatch'
  BY DEF EndsMatch, TypeOK
<1>5. AboutToSleep'
  BY <1>2 DEF AboutToSleep, TypeOK
<1>6. SleepersWait'
  BY <1>2, RolesAssumption DEF SleepersWait, TypeOK, LockOwner, Procs
<1> QED
  BY <1>1, <1>2, <1>3, <1>4, <1>5, <1>6

LEMMA SleepIInv ==
    ASSUME IInv, NEW p \in Procs, Sleep(p)
    PROVE  IInv'
<1> USE DEF IInv, Sleep, pipeVars
<1>1. TypeOK'
  BY DEF TypeOK, Pcs
<1>2. Used' = Used /\ (Full' <=> Full) /\ (Empty' <=> Empty)
  BY SameLevels
<1>3. LockOwner'
  BY RolesAssumption DEF LockOwner, TypeOK
<1>4. EndsMatch'
  BY DEF EndsMatch, TypeOK
<1>5. AboutToSleep'
  BY <1>2 DEF AboutToSleep, TypeOK
<1>6. SleepersWait'
  BY <1>2, RolesAssumption DEF SleepersWait, AboutToSleep, TypeOK, LockOwner, Procs
<1> QED
  BY <1>1, <1>2, <1>3, <1>4, <1>5, <1>6

LEMMA ReadEmptyIInv ==
    ASSUME IInv, NEW p \in Procs, ReadEmpty(p)
    PROVE  IInv'
<1> USE DEF IInv, ReadEmpty, GiveUp, pipeVars
<1>1. TypeOK'
  BY ZeroCount, ZenonT(30) DEF TypeOK, Pcs
<1>2. Used' = Used /\ (Full' <=> Full) /\ (Empty' <=> Empty)
  BY SameLevels
<1>3. LockOwner'
  BY RolesAssumption, ZenonT(30) DEF LockOwner, TypeOK
<1>4. EndsMatch'
  BY DEF EndsMatch, TypeOK
<1>5. AboutToSleep'
  BY <1>2 DEF AboutToSleep, TypeOK
<1>6. SleepersWait'
  BY <1>2, RolesAssumption DEF SleepersWait, TypeOK, LockOwner, Procs
<1> QED
  BY <1>1, <1>2, <1>3, <1>4, <1>5, <1>6

LEMMA ReadCopyIInv ==
    ASSUME IInv, NEW p \in Procs, ReadCopy(p)
    PROVE  IInv'
<1> DEFINE k == IF n[p] < Used THEN n[p] ELSE Used
<1> USE DEF IInv
<1>1. Used \in 0 .. Wrap - 1 /\ (Empty <=> Used = 0)
  BY Levels
<1>2. k \in 0 .. Used
  BY <1>1 DEF TypeOK
<1>3. nread' = (nread + k) % Wrap /\ nwrite' = nwrite
  BY DEF ReadCopy
<1> HIDE DEF k
<1>4. nread' \in 0 .. Wrap - 1 /\ Used' = Used - k
  <2>1. Used' = (nwrite' - nread') % Wrap
    BY DEF Used
  <2>2. /\ (nread + k) % Wrap \in 0 .. Wrap - 1
        /\ (nwrite - ((nread + k) % Wrap)) % Wrap = Used - k
    BY <1>2, SomeLess, ZenonT(30)
  <2> QED
    BY <1>3, <2>1, <2>2, SMT
<1>5. Used' <= PIPESIZE
  BY <1>1, <1>2, <1>4, SizeAssumption
<1>6. TypeOK'
  BY <1>4, ZeroCount DEF ReadCopy, Awake, TypeOK, Pcs
<1>7. LockOwner'
  BY RolesAssumption DEF ReadCopy, Awake, LockOwner, TypeOK
<1>8. EndsMatch'
  BY DEF ReadCopy, Awake, EndsMatch, TypeOK
<1>9. AboutToSleep'
  BY <1>7, RolesAssumption, Zenon DEF ReadCopy, LockOwner, AboutToSleep
<1>10. Empty => Empty'
  <2>1. Empty => Used' = 0
    BY <1>1, <1>2, <1>4
  <2>2. nread' \in 0 .. Wrap - 1 /\ nwrite' \in 0 .. Wrap - 1
    BY <1>6 DEF TypeOK
  <2>3. Used' = (nwrite' - nread') % Wrap
    BY DEF Used
  <2> QED
    BY <2>1, <2>2, <2>3, ZeroDistance DEF Empty
<1>11. SleepersWait'
  BY <1>10, RolesAssumption DEF ReadCopy, Awake, SleepersWait, TypeOK, LockOwner, Procs
<1> QED
  BY <1>5, <1>6, <1>7, <1>8, <1>9, <1>11

LEMMA WriteFullIInv ==
    ASSUME IInv, NEW p \in Procs, WriteFull(p)
    PROVE  IInv'
<1> USE DEF IInv, WriteFull, GiveUp, Awake, pipeVars
<1>1. TypeOK'
  BY ZeroCount, ZenonT(30) DEF TypeOK, Pcs
<1>2. Used' = Used /\ (Full' <=> Full) /\ (Empty' <=> Empty)
  BY SameLevels
<1>3. LockOwner'
  BY RolesAssumption DEF LockOwner, TypeOK
<1>4. EndsMatch'
  BY DEF EndsMatch, TypeOK
<1>5. AboutToSleep'
  BY <1>2, RolesAssumption DEF AboutToSleep, TypeOK
<1>6. SleepersWait'
  BY <1>2, RolesAssumption DEF SleepersWait, TypeOK, LockOwner, EndsMatch, Procs
<1> QED
  BY <1>1, <1>2, <1>3, <1>4, <1>5, <1>6

LEMMA WriteByteIInv ==
    ASSUME IInv, NEW p \in Procs, NEW v \in Bytes, WriteByte(p, v)
    PROVE  IInv'
<1> USE DEF IInv
<1>1. Used \in 0 .. Wrap - 1 /\ (Full <=> Used = PIPESIZE)
  BY Levels
<1>2. Used < PIPESIZE
  BY <1>1, SizeAssumption DEF WriteByte
<1>3. nwrite' \in 0 .. Wrap - 1 /\ Used' = Used + 1
  BY <1>2, OneMore DEF WriteByte, Used
<1>4. Used' <= PIPESIZE
  BY <1>1, <1>2, <1>3, SizeAssumption
<1>5. data' \in [0 .. PIPESIZE - 1 -> Bytes] /\ n' \in [Procs -> 0 .. MaxCount]
  BY SizeAssumption DEF WriteByte, TypeOK
<1>6. TypeOK'
  BY <1>3, <1>5 DEF WriteByte, TypeOK
<1>7. LockOwner' /\ EndsMatch'
  BY DEF WriteByte, LockOwner, EndsMatch
<1>8. AboutToSleep'
  BY DEF WriteByte, LockOwner, AboutToSleep
<1>9. SleepersWait'
  BY RolesAssumption DEF WriteByte, SleepersWait, LockOwner, Procs
<1> QED
  BY <1>4, <1>6, <1>7, <1>8, <1>9

LEMMA WriteDoneIInv ==
    ASSUME IInv, NEW p \in Procs, WriteDone(p)
    PROVE  IInv'
<1> USE DEF IInv, WriteDone, Awake, pipeVars
<1>1. TypeOK'
  BY DEF TypeOK, Pcs
<1>2. Used' = Used /\ (Full' <=> Full) /\ (Empty' <=> Empty)
  BY SameLevels
<1>3. LockOwner'
  BY RolesAssumption DEF LockOwner, TypeOK
<1>4. EndsMatch'
  BY DEF EndsMatch, TypeOK
<1>5. AboutToSleep'
  BY <1>2 DEF AboutToSleep, TypeOK
<1>6. SleepersWait'
  BY <1>2, RolesAssumption DEF SleepersWait, TypeOK, LockOwner, Procs
<1> QED
  BY <1>1, <1>2, <1>3, <1>4, <1>5, <1>6

LEMMA CloseIInv ==
    ASSUME IInv, NEW p \in Procs, Close(p)
    PROVE  IInv'
<1> USE DEF IInv
<1>1. TypeOK'
  BY DEF Close, pipeclose, Awake, TypeOK, Pcs
<1>2. Used' = Used /\ (Full' <=> Full) /\ (Empty' <=> Empty)
  BY SameLevels DEF Close
<1>3. LockOwner'
  BY RolesAssumption DEF Close, pipeclose, Awake, LockOwner, TypeOK
<1>4. EndsMatch'
  <2>1. \A q \in Procs : open'[q] = 0 => pc'[q] = "user"
    BY DEF Close, pipeclose, Awake, EndsMatch, TypeOK
  <2>2. Peers(p) = {p} => \A q \in IF p \in Readers THEN Readers ELSE Writers : open'[q] = 0
    BY DEF Close, Peers, Procs, TypeOK
  <2>3. \A q \in Procs : open[q] = 0 => open'[q] = 0
    BY DEF Close, TypeOK
  <2>4. readopen' = 0 => \A q \in Readers : open'[q] = 0
    BY <2>2, <2>3, RolesAssumption DEF Close, pipeclose, EndsMatch, Procs, TypeOK
  <2>5. writeopen' = 0 => \A q \in Writers : open'[q] = 0
    BY <2>2, <2>3, RolesAssumption DEF Close, pipeclose, EndsMatch, Procs, TypeOK
  <2>6. freed' = 1 => readopen' = 0 /\ writeopen' = 0
    BY DEF Close, pipeclose, EndsMatch, TypeOK
  <2> QED
    BY <2>1, <2>4, <2>5, <2>6 DEF EndsMatch
<1>5. AboutToSleep'
  BY <1>2, RolesAssumption DEF Close, pipeclose, Awake, LockOwner, AboutToSleep, TypeOK, Procs
<1>6. SleepersWait'
  BY <1>2, RolesAssumption DEF Close, pipeclose, Awake, SleepersWait, TypeOK, LockOwner, Procs
<1> QED
  BY <1>1, <1>2, <1>3, <1>4, <1>5, <1>6

LEMMA KillIInv ==
    ASSUME IInv, NEW p \in Procs, Kill(p)
    PROVE  IInv'
<1> USE DEF IInv, Kill, Awake, pipeVars
<1>1. TypeOK'
  BY DEF TypeOK, Pcs
<1>2. Used' = Used /\ (Full' <=> Full) /\ (Empty' <=> Empty)
  BY SameLevels
<1>3. LockOwner'
  BY RolesAssumption DEF LockOwner, TypeOK
<1>4. EndsMatch'
  BY DEF EndsMatch, TypeOK
<1>5. AboutToSleep'
  BY <1>2 DEF AboutToSleep, TypeOK
<1>6. SleepersWait'
  BY <1>2, RolesAssumption DEF SleepersWait, TypeOK, LockOwner, Procs
<1> QED
  BY <1>1, <1>2, <1>3, <1>4, <1>5, <1>6

LEMMA NextIInv == IInv /\ [Next]_vars => IInv'
<1> SUFFICES ASSUME IInv, [Next]_vars PROVE IInv'
  OBVIOUS
<1>1. CASE UNCHANGED vars
  BY <1>1 DEF vars, IInv, TypeOK, LockOwner, EndsMatch, AboutToSleep, SleepersWait,
              Used, Full, Empty
<1>2. ASSUME NEW p \in Procs, NEW k \in 0 .. MaxCount, Call(p, k) PROVE IInv'
  BY <1>2, CallIInv
<1>3. ASSUME NEW p \in Procs, KernelStep(p) PROVE IInv'
  BY <1>3, AcquireIInv, SleepIInv, ReadEmptyIInv, ReadCopyIInv, WriteFullIInv,
     WriteDoneIInv, WriteByteIInv DEF KernelStep
<1>4. ASSUME NEW p \in Procs, Close(p) \/ Kill(p) PROVE IInv'
  BY <1>4, CloseIInv, KillIInv
<1> QED
  BY <1>1, <1>2, <1>3, <1>4 DEF Next

LEMMA Invariance == SafeSpec => []IInv
BY InitIInv, NextIInv, PTL DEF SafeSpec

-----------------------------------------------------------------------------
(* The properties. *)

(* The variables keep their types: the counters stay below the wrap. *)
THEOREM TypeTheorem == SafeSpec => []TypeOK
<1>1. IInv => TypeOK
  BY DEF IInv
<1> QED
  BY <1>1, Invariance, PTL

(* No lost wakeup in piperead and pipewrite, for any number of readers and
   writers: sleep() is entered with the lock that every wakeup is called under. *)
THEOREM SleepersTheorem == SafeSpec => []SleepersWait
<1>1. IInv => SleepersWait
  BY DEF IInv
<1> QED
  BY <1>1, Invariance, PTL

(* pipeclose() frees the pipe after the last user of either end has closed it. *)
THEOREM FreedTheorem == SafeSpec => []FreedIsUnused
<1>1. IInv => FreedIsUnused
  BY DEF IInv, EndsMatch, FreedIsUnused, Procs
<1> QED
  BY <1>1, Invariance, PTL

-----------------------------------------------------------------------------
(* The pipe is a queue. *)

LEMMA Place ==
    ASSUME NEW x \in Int
    PROVE  x % PIPESIZE \in 0 .. PIPESIZE - 1
<1>1. PIPESIZE \in Int /\ PIPESIZE > 0
  BY SizeAssumption
<1> QED
  BY <1>1, DivMod, Zenon

(* Every wrap of a counter is a whole number of turns around the buffer. *)
LEMMA SamePlace ==
    ASSUME NEW x \in Int
    PROVE  (x - Wrap) % PIPESIZE = x % PIPESIZE
<1>1. PIPESIZE \in Nat \ {0} /\ Wrap \in Nat /\ Wrap % PIPESIZE = 0
  BY SizeAssumption, Zenon
<1> QED
  BY <1>1, ModWrap, Zenon

LEMMA ContentsSeq ==
    ASSUME TypeOK
    PROVE  Contents \in Seq(Bytes) /\ Len(Contents) = Used
<1>1. Used \in Nat /\ nread \in Int /\ data \in [0 .. PIPESIZE - 1 -> Bytes]
  <2>1. Used \in 0 .. Wrap - 1
    BY Levels
  <2> QED
    BY <2>1 DEF TypeOK
<1> DEFINE e(i) == data[(nread + i - 1) % PIPESIZE]
<1>2. ASSUME NEW i \in 1 .. Used PROVE e(i) \in Bytes
  <2>1. nread + i - 1 \in Int
    BY <1>1
  <2>2. (nread + i - 1) % PIPESIZE \in 0 .. PIPESIZE - 1
    BY <2>1, Place
  <2> QED
    BY <1>1, <2>2, Zenon
<1> HIDE DEF e
<1>3. [i \in 1 .. Used |-> e(i)] \in Seq(Bytes) /\ Len([i \in 1 .. Used |-> e(i)]) = Used
  BY <1>1, <1>2
<1> QED
  BY <1>3, Zenon DEF e, Contents

(* The next byte goes to the place after the last. *)
LEMMA WritePlace ==
    ASSUME TypeOK
    PROVE  nwrite % PIPESIZE = (nread + Used) % PIPESIZE
<1> DEFINE u == (nwrite - nread) % Wrap
<1>1. nread \in 0 .. Wrap - 1 /\ nwrite \in 0 .. Wrap - 1 /\ Wrap \in Nat
  BY SizeAssumption DEF TypeOK
<1>2. /\ u \in 0 .. Wrap - 1
      /\ nwrite >= nread => u = nwrite - nread
      /\ nwrite < nread => u = nwrite - nread + Wrap
  BY <1>1, Distance
<1> HIDE DEF u
<1>3. nread + u \in Int /\ (nwrite = nread + u \/ nwrite = (nread + u) - Wrap)
  BY <1>1, <1>2
<1>4. ((nread + u) - Wrap) % PIPESIZE = (nread + u) % PIPESIZE
  BY <1>3, SamePlace, Zenon
<1>5. nwrite % PIPESIZE = (nread + u) % PIPESIZE
  BY <1>3, <1>4, Zenon
<1> QED
  BY <1>5, Zenon DEF u, Used

LEMMA PutStep ==
    ASSUME IInv, NEW p \in Procs, NEW v \in Bytes, WriteByte(p, v)
    PROVE  Contents' = Append(Contents, v)
<1>1. TypeOK /\ Used \in 0 .. Wrap - 1 /\ Used < PIPESIZE
  <2>1. Used \in 0 .. Wrap - 1 /\ (Full <=> Used = PIPESIZE)
    BY Levels DEF IInv
  <2> QED
    BY <2>1, SizeAssumption DEF IInv, WriteByte
<1>2. Used' = Used + 1
  BY <1>1, OneMore DEF WriteByte, Used
<1>3. nwrite % PIPESIZE = (nread + Used) % PIPESIZE
  BY <1>1, WritePlace
<1>4. nwrite % PIPESIZE \in 0 .. PIPESIZE - 1
  <2>1. nwrite \in Int
    BY <1>1 DEF TypeOK
  <2> QED
    BY <2>1, Place
<1> DEFINE e(i) == data[(nread + i - 1) % PIPESIZE]
           f(i) == data'[(nread + i - 1) % PIPESIZE]
<1>5. ASSUME NEW i \in 1 .. Used PROVE f(i) = e(i)
  <2> DEFINE x == nread + i - 1
             d == Used - i + 1
  <2>1. x \in Int /\ d \in 1 .. PIPESIZE - 1 /\ x + d = nread + Used
    BY <1>1, SizeAssumption DEF TypeOK
  <2> HIDE DEF x, d
  <2>2. (x + d) % PIPESIZE # x % PIPESIZE
    <3>1. PIPESIZE \in Nat \ {0}
      BY SizeAssumption
    <3> QED
      BY <2>1, <3>1, ModDistinct, Zenon
  <2>3. x % PIPESIZE \in 0 .. PIPESIZE - 1
    BY <2>1, Place
  <2>4. x % PIPESIZE # nwrite % PIPESIZE
    BY <1>3, <2>1, <2>2, Zenon
  <2>5. data'[x % PIPESIZE] = data[x % PIPESIZE]
    BY <1>1, <2>3, <2>4 DEF WriteByte, TypeOK
  <2> QED
    BY <2>5, Zenon DEF x
<1>6. f(Used + 1) = v
  <2>1. nread + (Used + 1) - 1 = nread + Used
    BY <1>1 DEF TypeOK
  <2>2. data'[nwrite % PIPESIZE] = v
    BY <1>1, <1>4 DEF WriteByte, TypeOK
  <2> QED
    BY <1>3, <2>1, <2>2, Zenon
<1>7. Contents = [i \in 1 .. Used |-> e(i)] /\ Contents' = [i \in 1 .. Used + 1 |-> f(i)]
  BY <1>2, SMT DEF Contents, WriteByte
<1>8. Contents \in Seq(Bytes) /\ Len(Contents) = Used
  BY <1>1, ContentsSeq
<1> HIDE DEF e, f
<1> QED
  BY <1>1, <1>5, <1>6, <1>7, <1>8

LEMMA GetStep ==
    ASSUME IInv, NEW p \in Procs, ReadCopy(p)
    PROVE  \E k \in 0 .. Len(Contents) : Contents' = SubSeq(Contents, k + 1, Len(Contents))
<1> DEFINE k == IF n[p] < Used THEN n[p] ELSE Used
<1>1. TypeOK /\ Used \in 0 .. Wrap - 1
  BY Levels DEF IInv
<1>2. k \in 0 .. Used
  BY <1>1 DEF TypeOK
<1>3. nread' = (nread + k) % Wrap /\ nwrite' = nwrite /\ data' = data
  BY DEF ReadCopy
<1> HIDE DEF k
<1>4. Used' = Used - k
  <2>1. Used' = (nwrite' - nread') % Wrap
    BY DEF Used
  <2>2. (nwrite - ((nread + k) % Wrap)) % Wrap = Used - k
    BY <1>1, <1>2, SomeLess, ZenonT(30)
  <2> QED
    BY <1>3, <2>1, <2>2, SMT
<1>5. nread \in Int /\ (nread' = nread + k \/ nread' = (nread + k) - Wrap)
  <2>1. nread \in 0 .. Wrap - 1 /\ k \in 0 .. Wrap
    BY <1>1, <1>2, SizeAssumption DEF TypeOK
  <2>2. /\ nread + k < Wrap => (nread + k) % Wrap = nread + k
        /\ nread + k >= Wrap => (nread + k) % Wrap = (nread + k) - Wrap
    BY SMTT(30), <2>1, Forward
  <2>3. nread + k < Wrap \/ nread + k >= Wrap
    BY <2>1, SizeAssumption
  <2>4. nread \in Int
    BY <2>1
  <2> QED
    BY <1>3, <2>2, <2>3, <2>4, Zenon
<1> DEFINE e(i) == data[(nread + i - 1) % PIPESIZE]
           f(i) == data[(nread' + i - 1) % PIPESIZE]
<1>6. ASSUME NEW i \in 1 .. Used - k PROVE f(i) = e(k + i)
  <2> DEFINE x == nread + (k + i) - 1
  <2>1. x \in Int /\ (nread' + i - 1 = x \/ nread' + i - 1 = x - Wrap)
    BY <1>1, <1>2, <1>5, SizeAssumption
  <2> HIDE DEF x
  <2>2. (x - Wrap) % PIPESIZE = x % PIPESIZE
    BY <2>1, SamePlace, Zenon
  <2>3. (nread' + i - 1) % PIPESIZE = x % PIPESIZE
    BY <2>1, <2>2, Zenon
  <2> QED
    BY <2>3, Zenon DEF x
<1>7. Contents = [i \in 1 .. Used |-> e(i)] /\ Contents' = [i \in 1 .. Used - k |-> f(i)]
  BY <1>3, <1>4, Zenon DEF Contents
<1>8. Contents \in Seq(Bytes) /\ Len(Contents) = Used
  BY <1>1, ContentsSeq
<1> HIDE DEF e, f
<1>9. Contents' = SubSeq(Contents, k + 1, Used)
  BY <1>1, <1>2, <1>6, <1>7, <1>8
<1> QED
  BY <1>2, <1>8, <1>9

(* A pipe is a first-in first-out queue of at most PIPESIZE bytes: whatever the
   calls do, only pipewrite adds a byte, at the end, and only piperead removes
   some, from the front, wherever the counters wrap around. *)
THEOREM FifoTheorem == SafeSpec => ImplementsFifo
<1>1. Init => Abs!FifoInit
  <2> SUFFICES ASSUME Init PROVE Contents = <<>>
    BY DEF Abs!FifoInit
  <2>1. TypeOK /\ Empty
    BY InitIInv DEF IInv, Init, Empty
  <2>2. Used = 0 /\ Contents \in Seq(Bytes) /\ Len(Contents) = Used
    BY <2>1, Levels, ContentsSeq
  <2> QED
    BY <2>2
<1>2. IInv /\ [Next]_vars => [Abs!FifoNext]_Contents
  <2> SUFFICES ASSUME IInv, [Next]_vars PROVE Abs!FifoNext \/ Contents' = Contents
    OBVIOUS
  <2>1. ASSUME UNCHANGED <<data, nread, nwrite>> PROVE Contents' = Contents
    BY <2>1, Zenon DEF Contents, Used
  <2>2. Contents \in Seq(Bytes) /\ Len(Contents) = Used /\ Used \in Nat
    BY ContentsSeq, Levels DEF IInv
  <2>3. ASSUME NEW p \in Procs, NEW v \in Bytes, WriteByte(p, v) PROVE Abs!FifoNext
    <3>1. Contents' = Append(Contents, v)
      BY <2>3, PutStep
    <3>2. Used < PIPESIZE
      <4>1. Used <= PIPESIZE /\ (Full <=> Used = PIPESIZE)
        BY Levels DEF IInv
      <4> QED
        BY <2>2, <2>3, <4>1, SizeAssumption DEF WriteByte
    <3> QED
      BY <2>2, <3>1, <3>2, Zenon DEF Abs!FifoNext, Abs!Put
  <2>4. ASSUME NEW p \in Procs, ReadCopy(p) PROVE Abs!FifoNext \/ Contents' = Contents
    <3>1. PICK k \in 0 .. Len(Contents) : Contents' = SubSeq(Contents, k + 1, Len(Contents))
      BY <2>4, GetStep
    <3>2. CASE k = 0
      BY <2>2, <3>1, <3>2
    <3>3. CASE k # 0
      <4>1. k \in 1 .. Len(Contents)
        BY <2>2, <3>1, <3>3
      <4> QED
        BY <3>1, <4>1, Zenon DEF Abs!FifoNext, Abs!Get
    <3> QED
      BY <3>2, <3>3
  <2>5. ASSUME NEW p \in Procs, Acquire(p) \/ Sleep(p) \/ ReadEmpty(p) \/ WriteFull(p)
                                \/ WriteDone(p) \/ Close(p) \/ Kill(p)
        PROVE  UNCHANGED <<data, nread, nwrite>>
    BY <2>5 DEF Acquire, Sleep, ReadEmpty, WriteFull, WriteDone, Close, Kill, GiveUp, pipeVars
  <2>6. ASSUME NEW p \in Procs, NEW k \in 0 .. MaxCount, Call(p, k)
        PROVE  UNCHANGED <<data, nread, nwrite>>
    BY <2>6 DEF Call, pipeVars
  <2>7. CASE UNCHANGED vars
    BY <2>1, <2>7 DEF vars
  <2> QED
    BY <2>1, <2>3, <2>4, <2>5, <2>6, <2>7, Zenon DEF Next, KernelStep
<1> QED
  BY <1>1, <1>2, Invariance, PTL DEF SafeSpec, ImplementsFifo, Abs!FifoSpec
=============================================================================
