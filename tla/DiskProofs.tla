----------------------------- MODULE DiskProofs -----------------------------
(***************************************************************************)
(* Proofs about the buffer cache: it hands out what was last stored, and it*)
(* never runs out of buffers, for any number of processes and buffers.     *)
(***************************************************************************)
EXTENDS Disk, FiniteSetTheorems, WellFoundedInduction, TLAPS

(* The list of buffers. *)

LEMMA LeastNatural ==
    ASSUME NEW T \in SUBSET Nat, T # {}
    PROVE  \E x \in T : \A y \in T : x <= y
<1> DEFINE R == OpToRel(<, Nat)
<1>1. \E x \in T : \A y \in T : ~ (<<y, x>> \in R)
  <2>1. IsWellFoundedOn(R, Nat)
    BY ZenonT(30), NatLessThanWellFounded
  <2> HIDE DEF R
  <2> QED
    BY ZenonT(30), <2>1, WFMin
<1>2. \A x, y \in T : ~ (<<y, x>> \in R) => x <= y
  BY DEF OpToRel
<1> QED
  BY ZenonT(30), <1>1, <1>2

LEMMA GreatestIndex ==
    ASSUME NEW m \in Nat, NEW T \in SUBSET (1 .. m), T # {}
    PROVE  \E x \in T : \A y \in T : x >= y
<1> DEFINE D == {i \in Nat : m - i \in T}
<1>1. D # {}
  <2>1. PICK t \in T : TRUE
    BY ZenonT(30)
  <2>2. m - t \in Nat /\ m - (m - t) = t
    BY <2>1
  <2> QED
    BY ZenonT(30), <2>1, <2>2
<1>2. PICK x \in D : \A y \in D : x <= y
  BY ZenonT(30), <1>1, LeastNatural
<1>3. ASSUME NEW y \in T PROVE m - x >= y
  <2>1. m - y \in Nat /\ m - (m - y) = y
    OBVIOUS
  <2>2. x <= m - y
    BY ZenonT(30), <1>2, <2>1
  <2> QED
    BY SMTT(30), <1>2, <2>1, <2>2
<1> QED
  BY SMTT(30), <1>2, <1>3

(* The scan from the tail of the list finds a buffer that bget() can recycle,
   if there is one. *)
LEMMA ScanFinds ==
    ASSUME lru \in Seq(Bufs), Range(lru) = Bufs, \E b \in Bufs : Recyclable(b)
    PROVE  LET unused == {i \in DOMAIN lru : Recyclable(lru[i])}
           IN  unused # {} /\ lru[Max(unused)] \in Bufs /\ Recyclable(lru[Max(unused)])
<1> DEFINE I == {i \in DOMAIN lru : Recyclable(lru[i])}
<1>1. DOMAIN lru = 1 .. Len(lru) /\ Len(lru) \in Nat
  OBVIOUS
<1>2. I # {}
  <2>1. PICK b \in Bufs : Recyclable(b)
    OBVIOUS
  <2>2. PICK i \in DOMAIN lru : lru[i] = b
    BY DEF Range
  <2> QED
    BY <2>1, <2>2
<1>3. \E x \in I : \A y \in I : x >= y
  <2>1. I \in SUBSET (1 .. Len(lru))
    BY <1>1
  <2> QED
    BY <1>1, <1>2, <2>1, GreatestIndex, Zenon
<1>4. Max(I) \in I
  BY <1>3 DEF Max
<1>5. Max(I) \in DOMAIN lru /\ Recyclable(lru[Max(I)])
  BY <1>4
<1>6. \A i \in DOMAIN lru : lru[i] \in Bufs
  BY <1>1
<1> QED
  BY <1>2, <1>5, <1>6, Zenon

LEMMA MovedSeq ==
    ASSUME NEW s \in Seq(Bufs), NEW b \in Bufs, NEW k \in 1 .. Len(s)
    PROVE  LET t == <<b>> \o (SubSeq(s, 1, k - 1) \o SubSeq(s, k + 1, Len(s)))
           IN  /\ t \in Seq(Bufs) /\ Len(t) = Len(s)
               /\ t[1] = b
               /\ \A j \in 2 .. k : t[j] = s[j - 1]
               /\ \A j \in k + 1 .. Len(s) : t[j] = s[j]
<1> DEFINE u == SubSeq(s, 1, k - 1)
           v == SubSeq(s, k + 1, Len(s))
<1>1. u \in Seq(Bufs) /\ Len(u) = k - 1 /\ \A j \in 1 .. k - 1 : u[j] = s[j]
  OBVIOUS
<1>2. v \in Seq(Bufs) /\ Len(v) = Len(s) - k /\ \A j \in 1 .. Len(s) - k : v[j] = s[k + j]
  OBVIOUS
<1> HIDE DEF u, v
<1> DEFINE m == u \o v
<1>3. m \in Seq(Bufs) /\ Len(m) = Len(s) - 1
  BY SMTT(30), <1>1, <1>2
<1>4. \A j \in 1 .. k - 1 : m[j] = s[j]
  BY SMTT(30), <1>1, <1>2
<1>5. \A j \in k .. Len(s) - 1 : m[j] = s[j + 1]
  <2>1. \A j \in k .. Len(s) - 1 : m[j] = v[j - (k - 1)]
    BY SMTT(30), <1>1, <1>2
  <2> HIDE DEF m
  <2>2. \A j \in k .. Len(s) - 1 : j - (k - 1) \in 1 .. Len(s) - k /\ k + (j - (k - 1)) = j + 1
    OBVIOUS
  <2> QED
    BY SMTT(30), <1>2, <2>1, <2>2
<1> HIDE DEF m
<1> DEFINE t == <<b>> \o m
<1>6. t \in Seq(Bufs) /\ Len(t) = Len(s) /\ t[1] = b
  BY SMTT(30), <1>3
<1>7. \A j \in 2 .. Len(s) : t[j] = m[j - 1]
  BY SMTT(30), <1>3
<1> HIDE DEF t
<1>8. \A j \in 2 .. k : t[j] = s[j - 1]
  BY SMTT(30), <1>4, <1>7
<1>9. \A j \in k + 1 .. Len(s) : t[j] = s[j]
  BY SMTT(30), <1>5, <1>7
<1> QED
  BY <1>6, <1>8, <1>9, Zenon DEF t, m, u, v

(* Moving a buffer to the front keeps all buffers in the list. *)
LEMMA MoveFront ==
    ASSUME NEW s \in Seq(Bufs), \A c \in Bufs : \E i \in 1 .. Len(s) : s[i] = c,
           NEW b \in Bufs
    PROVE  ToFront(s, b) \in Seq(Bufs) /\ Range(ToFront(s, b)) = Bufs
<1> DEFINE k == CHOOSE i \in DOMAIN s : s[i] = b
           t == ToFront(s, b)
<1>1. DOMAIN s = 1 .. Len(s)
  OBVIOUS
<1>2. k \in 1 .. Len(s) /\ s[k] = b
  BY <1>1
<1> HIDE DEF k
<1>8. t = <<b>> \o (SubSeq(s, 1, k - 1) \o SubSeq(s, k + 1, Len(s)))
  BY Zenon DEF ToFront, k
<1>7. LET f == <<b>> \o (SubSeq(s, 1, k - 1) \o SubSeq(s, k + 1, Len(s)))
      IN  /\ f \in Seq(Bufs) /\ Len(f) = Len(s)
          /\ f[1] = b
          /\ \A j \in 2 .. k : f[j] = s[j - 1]
          /\ \A j \in k + 1 .. Len(s) : f[j] = s[j]
  <2>1. k \in 1 .. Len(s)
    BY <1>2
  <2> QED
    BY <2>1, MovedSeq, ZenonT(30)
<1> HIDE DEF t
<1>4. t \in Seq(Bufs) /\ Len(t) = Len(s)
  BY <1>7, <1>8, Zenon
<1>5. /\ t[1] = b
      /\ \A j \in 2 .. k : t[j] = s[j - 1]
      /\ \A j \in k + 1 .. Len(s) : t[j] = s[j]
  BY <1>7, <1>8, Zenon
<1>6. Range(t) = Bufs
  <2>1. ASSUME NEW c \in Bufs PROVE \E j \in 1 .. Len(s) : t[j] = c
    <3>1. PICK j \in 1 .. Len(s) : s[j] = c
      OBVIOUS
    <3>2. CASE j = k
      <4>1. 1 \in 1 .. Len(s)
        BY SMTT(30), <3>1
      <4> QED
        BY <1>2, <1>5, <3>1, <3>2, <4>1, ZenonT(30)
    <3>3. CASE j < k
      <4>1. j + 1 \in 2 .. k /\ (j + 1) - 1 = j /\ j + 1 \in 1 .. Len(s)
        BY <1>2, <3>1, <3>3
      <4> QED
        BY ZenonT(30), <1>5, <3>1, <4>1
    <3>4. CASE j > k
      <4>1. j \in k + 1 .. Len(s)
        BY SMTT(30), <1>2, <3>1, <3>4
      <4> QED
        BY <1>5, <3>1, <4>1, ZenonT(30)
    <3> QED
      BY <1>2, <3>1, <3>2, <3>3, <3>4
  <2>2. DOMAIN t = 1 .. Len(s)
    BY SMTT(30), <1>4
  <2>3. \A j \in 1 .. Len(s) : t[j] \in Bufs
    BY <1>4
  <2> QED
    BY ZenonT(30), <2>1, <2>2, <2>3 DEF Range
<1> QED
  BY <1>4, <1>6, Zenon DEF t

-----------------------------------------------------------------------------
LEMMA ValuesFacts ==
    /\ NoData \in Values /\ Blocks \subseteq Values
    /\ \A k \in Blocks : Stores[k] \subseteq Values
<1>1. \A k \in Blocks : Stores[k] \in Range(Stores)
  BY Names DEF Range
<1> QED
  BY <1>1 DEF Values

(* The fields of a buffer. *)
LEMMA Fields ==
    ASSUME TypeOK, NEW b \in Bufs
    PROVE  /\ buf[b].blockno \in Blocks \cup {NoBlock}
           /\ buf[b].valid \in BOOLEAN /\ buf[b].dirty \in BOOLEAN
           /\ buf[b].refcnt \in Nat /\ buf[b].data \in Values
           /\ buf[b].holder \in Procs \cup {None}
<1>1. Cardinality(Procs) \in Nat
  BY Enough, FS_CardinalityType
<1>2. buf[b] \in Buffer
  BY DEF TypeOK
<1> QED
  BY <1>1, <1>2 DEF Buffer

LEMMA FilledBuffer ==
    ASSUME NEW f \in Buffer, NEW d \in Values
    PROVE  [f EXCEPT !.data = d, !.valid = TRUE, !.dirty = FALSE] \in Buffer
BY ZenonT(30) DEF Buffer

LEMMA UsersFinite ==
    ASSUME NEW S \in SUBSET Procs
    PROVE  IsFiniteSet(S) /\ Cardinality(S) \in 0 .. Cardinality(Procs)
<1>1. IsFiniteSet(S) /\ Cardinality(S) <= Cardinality(Procs)
  BY Enough, FS_Subset
<1>2. Cardinality(S) \in Nat /\ Cardinality(Procs) \in Nat
  BY <1>1, Enough, FS_CardinalityType
<1> QED
  BY <1>1, <1>2

(* Steps that neither take nor return a buffer. *)
LEMMA SameUsers ==
    ASSUME UNCHANGED mine, \A q \in Procs : pc'[q] = "user" <=> pc[q] = "user"
    PROVE  \A b \in Bufs : Users(b)' = Users(b)
BY DEF Users

LEMMA SameCounts ==
    ASSUME Counted, \A c \in Bufs : Users(c)' = Users(c),
           \A c \in Bufs : /\ buf'[c].blockno = buf[c].blockno /\ buf'[c].refcnt = buf[c].refcnt
                           /\ buf'[c].valid => buf[c].valid \/ Users(c) # {}
    PROVE  Counted'
<1>1. \A c \in Bufs : buf'[c].refcnt = Cardinality(Users(c)')
  BY Zenon DEF Counted
<1>2. \A c \in Bufs : Users(c)' # {} \/ buf'[c].valid => buf'[c].blockno # NoBlock
  BY Zenon DEF Counted
<1>3. ASSUME NEW c \in Bufs, NEW e \in Bufs, buf'[c].blockno = buf'[e].blockno
      PROVE  c = e \/ buf'[c].blockno = NoBlock
  <2>1. buf[c].blockno = buf[e].blockno /\ buf'[c].blockno = buf[c].blockno
    BY <1>3, Zenon
  <2> QED
    BY <2>1, Zenon DEF Counted
<1> QED
  BY <1>1, <1>2, <1>3, Zenon DEF Counted

LEMMA QueueHolders ==
    ASSUME TypeOK, Queued
    PROVE  \A i \in DOMAIN idequeue : idequeue[i] \in Bufs /\ buf[idequeue[i]].holder \in Procs
<1> SUFFICES ASSUME NEW i \in DOMAIN idequeue
             PROVE  idequeue[i] \in Bufs /\ buf[idequeue[i]].holder \in Procs
  OBVIOUS
<1>1. idequeue[i] \in Bufs
  BY DEF TypeOK
<1>2. buf[idequeue[i]].holder # None
  BY Zenon DEF Queued
<1> QED
  BY <1>1, <1>2, Fields

(* Steps that touch neither the queue, nor its buffers, nor their holders. *)
LEMMA SameQueue ==
    ASSUME Queued, UNCHANGED idequeue,
           \A i \in DOMAIN idequeue : buf'[idequeue[i]] = buf[idequeue[i]],
           \A i \in DOMAIN idequeue : LET q == buf[idequeue[i]].holder IN pc'[q] = pc[q]
    PROVE  Queued'
BY DEF Queued

LEMMA LoggedBound ==
    ASSUME TypeOK, NEW S \in SUBSET Bufs, NEW T \in SUBSET S, Cardinality(S) <= MaxDirty
    PROVE  Cardinality(T) <= MaxDirty
<1>1. IsFiniteSet(Bufs)
  BY Enough, FS_Interval DEF Bufs
<1>2. IsFiniteSet(S)
  BY <1>1, FS_Subset
<1>3. IsFiniteSet(T) /\ Cardinality(T) <= Cardinality(S)
  BY <1>2, FS_Subset
<1>4. Cardinality(S) \in Nat /\ Cardinality(T) \in Nat
  BY <1>2, <1>3, FS_CardinalityType
<1> QED
  BY <1>3, <1>4, Enough

LEMMA InitIInv == Init => IInv
<1> SUFFICES ASSUME Init PROVE IInv
  OBVIOUS
<1>10. disk = [k \in Blocks |-> k] /\ last = disk
  BY Zenon DEF Init
<1>11. buf = [b \in Bufs |-> [blockno |-> NoBlock, valid |-> FALSE, dirty |-> FALSE,
                              refcnt |-> 0, data |-> NoData, holder |-> None]]
  BY Zenon DEF Init
<1>12. lru = [k \in Bufs |-> NBUF + 1 - k]
  BY Zenon DEF Init
<1>13. idequeue = <<>> /\ device = Idle /\ panic = NoPanic
  BY Zenon DEF Init
<1>14. pc = [p \in Procs |-> "user"] /\ mine = [p \in Procs |-> 1]
  BY Zenon DEF Init
<1>1. /\ \A b \in Bufs : /\ buf[b].blockno = NoBlock /\ buf[b].valid = FALSE
                         /\ buf[b].dirty = FALSE /\ buf[b].refcnt = 0
                         /\ buf[b].data = NoData /\ buf[b].holder = None
      /\ DOMAIN buf = Bufs
  BY <1>11, Zenon
<1>2. Cardinality(Procs) \in Nat
  BY Enough, FS_CardinalityType
<1>3. TypeOK
  <2>1. buf \in [Bufs -> Buffer]
    <3>1. NoData \in Values
      BY ValuesFacts
    <3>2. 0 \in 0 .. Cardinality(Procs)
      BY <1>2
    <3> QED
      BY <1>11, <3>1, <3>2 DEF Buffer
  <2>2. lru \in Seq(Bufs) /\ Range(lru) = Bufs
    <3>1. lru \in Seq(Bufs) /\ DOMAIN lru = Bufs /\ \A i \in Bufs : lru[i] = NBUF + 1 - i
      BY <1>12, Enough DEF Bufs
    <3>2. \A i \in Bufs : NBUF + 1 - i \in Bufs /\ NBUF + 1 - (NBUF + 1 - i) = i
      BY Enough DEF Bufs
    <3>3. \A i \in Bufs : lru[NBUF + 1 - i] = i
      BY <3>1, <3>2
    <3> QED
      BY <3>1, <3>2, <3>3 DEF Range
  <2>3. mine \in [Procs -> Bufs]
    <3>1. ASSUME NEW p \in Procs PROVE 1 \in Bufs
      <4>1. Cardinality(Procs) # 0
        BY Enough, FS_EmptySet
      <4> QED
        BY <1>2, <4>1, Enough DEF Bufs
    <3> QED
      BY <1>14, <3>1
  <2>4. disk \in [Blocks -> Values] /\ last \in [Blocks -> Values]
    BY <1>10, ValuesFacts
  <2> QED
    BY <1>13, <1>14, <2>1, <2>2, <2>3, <2>4 DEF TypeOK
<1>4. Counted
  <2>1. \A b \in Bufs : Users(b) = {}
    BY <1>14 DEF Users
  <2> QED
    BY <1>1, <2>1, FS_EmptySet DEF Counted
<1>5. Held
  BY <1>14, <1>1 DEF Held, InRequest
<1>6. Queued /\ AtFirst
  BY <1>13 DEF Queued, AtFirst, Idle, IsInjective
<1>7. Coherent
  BY <1>10, <1>1 DEF Coherent
<1>8. Cardinality(Logged) <= MaxDirty
  <2>1. Logged = {}
    BY <1>1 DEF Logged, Dirty
  <2> QED
    BY <2>1, FS_EmptySet, Enough
<1> QED
  BY <1>13, <1>3, <1>4, <1>5, <1>6, <1>7, <1>8, Zenon DEF IInv

-----------------------------------------------------------------------------
LEMMA breadIInv ==
    ASSUME IInv, NEW p \in Procs, bread(p)
    PROVE  IInv'
<1> DEFINE b == mine[p]
<1>1. b \in Bufs /\ buf \in [Bufs -> Buffer] /\ pc[p] = "lock" /\ buf[b].holder = None
  BY DEF IInv, TypeOK, bread, Go
<1>2. /\ buf' = [buf EXCEPT ![b].holder = p]
      /\ pc' = [pc EXCEPT ![p] = IF buf[b].valid THEN "own" ELSE "iderw"]
      /\ UNCHANGED <<lru, idequeue, device, disk, mine, last, panic>>
  BY DEF bread, Go
<1> HIDE DEF b
<1>3. buf' \in [Bufs -> Buffer] /\ \A c \in Bufs : c # b => buf'[c] = buf[c]
  BY SMTT(30), <1>1, <1>2 DEF Buffer
<1>4. /\ buf'[b].blockno = buf[b].blockno /\ buf'[b].valid = buf[b].valid
      /\ buf'[b].dirty = buf[b].dirty /\ buf'[b].refcnt = buf[b].refcnt
      /\ buf'[b].data = buf[b].data /\ buf'[b].holder = p
  BY SMTT(30), <1>1, <1>2 DEF Buffer
<1>5. \A q \in Procs : q # p => pc'[q] = pc[q]
  BY SMTT(30), <1>2 DEF IInv, TypeOK
<1>6. pc'[p] = IF buf[b].valid THEN "own" ELSE "iderw"
  BY SMTT(30), <1>2 DEF IInv, TypeOK
<1>7. TypeOK'
  BY ZenonT(30), <1>2, <1>3 DEF IInv, TypeOK
<1>8. Counted'
  <2>1. \A c \in Bufs : Users(c)' = Users(c)
    BY SMTT(30), <1>1, <1>2, <1>5, <1>6, SameUsers
  <2> QED
    BY <1>1, <1>3, <1>4, <2>1 DEF IInv, Counted
<1>9. Held'
  BY SMTT(30), <1>1, <1>2, <1>3, <1>4, <1>5, <1>6, Names DEF IInv, Held, InRequest, b
<1>10. \A i \in DOMAIN idequeue : idequeue[i] # b
  BY SMTT(30), <1>1 DEF IInv, Queued
<1>11. Queued'
  BY SMTT(30), <1>1, <1>2, <1>3, <1>5, <1>10 DEF IInv, Queued, TypeOK
<1>12. AtFirst'
  BY SMTT(30), <1>2, <1>3, <1>10 DEF IInv, AtFirst, TypeOK
<1>13. Coherent'
  BY SMTT(30), <1>2, <1>3, <1>4 DEF IInv, Coherent
<1>14. Logged' \subseteq Logged
  BY SMTT(30), <1>1, <1>2, <1>3, <1>4, <1>5, Names DEF Logged, Dirty, InRequest
<1> QED
  BY SMTT(30), <1>2, <1>7, <1>8, <1>9, <1>11, <1>12, <1>13, <1>14, LoggedBound
    DEF IInv, Logged, Dirty

LEMMA iderwIInv ==
    ASSUME IInv, NEW p \in Procs, iderw(p)
    PROVE  IInv'
<1> DEFINE b == mine[p]
<1>1. /\ b \in Bufs /\ pc[p] = "iderw" /\ buf[b].holder = p
      /\ buf[b].dirty \/ ~buf[b].valid
  BY DEF IInv, TypeOK, Held, InRequest, iderw, Go
<1>2. /\ idequeue' = Append(idequeue, b)
      /\ device' = IF idequeue = <<>> THEN idestart(b) ELSE device
      /\ pc' = [pc EXCEPT ![p] = "sleep"]
      /\ UNCHANGED <<buf, lru, disk, mine, last, panic>>
  BY DEF iderw, Go
<1> HIDE DEF b
<1>3. pc'[p] = "sleep" /\ \A q \in Procs : q # p => pc'[q] = pc[q]
  BY <1>2 DEF IInv, TypeOK
<1>4. idequeue \in Seq(Bufs) /\ idequeue' \in Seq(Bufs) /\ Len(idequeue') = Len(idequeue) + 1
  BY <1>1, <1>2 DEF IInv, TypeOK
<1>5. idequeue'[Len(idequeue) + 1] = b /\ \A i \in DOMAIN idequeue : idequeue'[i] = idequeue[i]
  BY <1>1, <1>2, <1>4
<1>6. b \in Bufs /\ buf[b].blockno \in Blocks
  <2>1. p \in Users(b)
    BY <1>1 DEF Users, b
  <2> QED
    BY <1>1, <2>1, Fields DEF IInv, Counted
<1>7. TypeOK'
  <2>1. device' \in {Idle} \cup [busy : {TRUE}, done : BOOLEAN, write : BOOLEAN,
                                 blockno : Blocks, data : Values]
    BY ZenonT(30), <1>2, <1>6, Fields DEF IInv, TypeOK, idestart
  <2> QED
    BY ZenonT(30), <1>2, <1>4, <2>1 DEF IInv, TypeOK
<1>8. Counted'
  <2>1. \A c \in Bufs : Users(c)' = Users(c)
    BY SMTT(30), <1>1, <1>2, <1>3, SameUsers
  <2> QED
    BY <1>2, <2>1 DEF IInv, Counted
<1>9. Held'
  BY <1>1, <1>2, <1>3 DEF IInv, Held, InRequest, b
<1>10. \A i \in DOMAIN idequeue : idequeue[i] # b
  BY <1>1 DEF IInv, Queued
<1>11. Queued'
  <2>1. IsInjective(idequeue')
    BY <1>4, <1>5, <1>10 DEF IInv, Queued, IsInjective
  <2>2. ASSUME NEW i \in DOMAIN idequeue'
        PROVE  LET c == buf[idequeue'[i]]
               IN c.holder # None /\ pc'[c.holder] \in {"sleep", "woken"} /\ (c.dirty \/ ~c.valid)
    <3>1. CASE i \in DOMAIN idequeue
      BY SMTT(30), <1>1, <1>3, <1>4, <1>5, <3>1, Fields DEF IInv, Queued
    <3>2. CASE i = Len(idequeue) + 1
      BY <1>1, <1>3, <1>5, <3>2, Names
    <3> QED
      BY <1>4, <3>1, <3>2
  <2> QED
    BY <1>2, <2>1, <2>2 DEF Queued
<1>12. AtFirst'
  <2>1. CASE idequeue = <<>>
    BY SMTT(30), <1>2, <1>4, <1>5, <2>1 DEF AtFirst, idestart
  <2>2. CASE idequeue # <<>>
    <3>1. Head(idequeue') = Head(idequeue) /\ idequeue' # <<>> /\ device' = device
      BY <1>2, <1>4, <1>5, <2>2
    <3> QED
      BY <1>2, <2>2, <3>1 DEF IInv, AtFirst
  <2> QED
    BY <2>1, <2>2
<1>13. Coherent'
  BY <1>2 DEF IInv, Coherent
<1>14. Logged' \subseteq Logged
  BY <1>1, <1>2, <1>3 DEF Logged, Dirty, InRequest
<1> QED
  BY <1>2, <1>7, <1>8, <1>9, <1>11, <1>12, <1>13, <1>14, LoggedBound DEF IInv, Logged, Dirty

(* kill() and iderw()'s loop. *)
LEMMA wakeIInv ==
    ASSUME IInv, NEW p \in Procs, kill(p) \/ iderw_wake(p)
    PROVE  IInv'
<1> DEFINE b == mine[p]
<1>1. b \in Bufs /\ pc[p] \in {"sleep", "woken"} /\ buf[b].holder = p
  BY DEF IInv, TypeOK, Held, InRequest, kill, iderw_wake, Go
<1>2. PICK to \in {"sleep", "woken", "own"} :
         /\ pc' = [pc EXCEPT ![p] = to]
         /\ to = "own" => buf[b].valid /\ ~buf[b].dirty
  BY Zenon DEF kill, iderw_wake, Go
<1>3. UNCHANGED <<buf, lru, idequeue, device, disk, mine, last, panic>>
  BY Zenon DEF kill, iderw_wake
<1> HIDE DEF b
<1>4. pc'[p] = to /\ \A q \in Procs : q # p => pc'[q] = pc[q]
  BY <1>2 DEF IInv, TypeOK
<1>5. TypeOK'
  <2>1. pc' \in [Procs -> {"user", "lock", "iderw", "sleep", "woken", "own", "brelse"}]
    BY <1>2 DEF IInv, TypeOK
  <2> QED
    BY <1>3, <2>1, Zenon DEF IInv, TypeOK
<1>6. Counted'
  <2>1. \A c \in Bufs : Users(c)' = Users(c)
    BY SMTT(30), <1>1, <1>2, <1>3, <1>4, SameUsers
  <2> QED
    BY <1>3, <2>1, Zenon DEF IInv, Counted
<1>7. Held'
  BY <1>1, <1>2, <1>3, <1>4 DEF IInv, Held, InRequest, b
<1>8. Queued'
  <2>1. ASSUME NEW i \in DOMAIN idequeue, buf[idequeue[i]].holder = p PROVE to # "own"
    <3>1. idequeue[i] \in Bufs
      BY DEF IInv, TypeOK
    <3>2. idequeue[i] = b
      BY <2>1, <3>1, Names DEF IInv, Held, b
    <3> QED
      BY <1>2, <3>2 DEF IInv, Queued
  <2> QED
    BY <1>2, <1>3, <1>4, <2>1, Fields DEF IInv, Queued, TypeOK
<1>9. AtFirst' /\ Coherent'
  BY <1>3, Zenon DEF IInv, AtFirst, Coherent
<1>10. Logged' \subseteq Logged
  <2>1. ASSUME NEW c \in Logged' PROVE c \in Logged
    <3>1. c \in Bufs /\ buf[c].dirty
      BY <1>3, <2>1 DEF Logged, Dirty
    <3>2. buf[c].holder # p
      BY <1>2, <1>3, <1>4, <2>1, <3>1, Names DEF IInv, Held, Logged, InRequest, b
    <3> QED
      BY <1>3, <1>4, <2>1, <3>1, <3>2 DEF Logged, Dirty
  <2> QED
    BY <2>1
<1> QED
  BY SMTT(30), <1>3, <1>5, <1>6, <1>7, <1>8, <1>9, <1>10, LoggedBound
    DEF IInv, Logged, Dirty

(* The holder's store, into the log or to the disk. *)
LEMMA storeIInv ==
    ASSUME IInv, NEW p \in Procs, NEW v \in Values, log_write(p, v) \/ bwrite(p, v)
    PROVE  IInv'
<1> DEFINE b == mine[p]
           k == buf[b].blockno
<1>1. /\ b \in Bufs /\ buf \in [Bufs -> Buffer] /\ pc[p] = "own" /\ buf[b].holder = p
      /\ last \in [Blocks -> Values] /\ buf[b].valid
  BY DEF IInv, TypeOK, Held, log_write, bwrite, Go
<1>2. PICK to \in {"own", "iderw"} :
         /\ pc' = [pc EXCEPT ![p] = to]
         /\ to = "own" => Cardinality(Dirty \cup {b}) <= MaxDirty
  BY Zenon DEF log_write, bwrite, Go
<1>3. /\ buf' = [buf EXCEPT ![b].data = v, ![b].dirty = TRUE]
      /\ last' = [last EXCEPT ![k] = v]
      /\ UNCHANGED <<lru, idequeue, device, disk, mine, panic>>
  BY Zenon DEF log_write, bwrite
<1>4. k \in Blocks
  BY <1>1, Fields DEF IInv, Counted
<1> HIDE DEF b, k
<1>5. buf' \in [Bufs -> Buffer] /\ \A c \in Bufs : c # b => buf'[c] = buf[c]
  BY ZenonT(30), <1>1, <1>3 DEF Buffer
<1>6. /\ buf'[b].blockno = k /\ buf'[b].valid /\ buf'[b].dirty
      /\ buf'[b].refcnt = buf[b].refcnt /\ buf'[b].data = v /\ buf'[b].holder = p
  BY <1>1, <1>3 DEF Buffer, k
<1>7. pc'[p] = to /\ \A q \in Procs : q # p => pc'[q] = pc[q]
  BY <1>2 DEF IInv, TypeOK
<1>8. last' \in [Blocks -> Values] /\ last'[k] = v /\ \A j \in Blocks : j # k => last'[j] = last[j]
  BY <1>1, <1>3, <1>4
<1>9. TypeOK'
  <2>1. pc' \in [Procs -> {"user", "lock", "iderw", "sleep", "woken", "own", "brelse"}]
    BY <1>2 DEF IInv, TypeOK
  <2> QED
    BY <1>3, <1>5, <1>8, <2>1, Zenon DEF IInv, TypeOK
<1>10. Counted'
  <2>1. \A c \in Bufs : Users(c)' = Users(c)
    BY <1>1, <1>2, <1>3, <1>7, SameUsers
  <2>2. \A c \in Bufs : buf'[c].blockno = buf[c].blockno /\ buf'[c].refcnt = buf[c].refcnt
    BY <1>5, <1>6 DEF k
  <2>3. \A c \in Bufs : buf'[c].valid = buf[c].valid
    BY ZenonT(30), <1>1, <1>5, <1>6, Fields DEF IInv
  <2> QED
    BY <2>1, <2>2, <2>3, SameCounts DEF IInv
<1>11. Held'
  <2>1. \A c \in Bufs : buf'[c].holder = buf[c].holder
    BY <1>1, <1>5, <1>6
  <2>2. \A c \in Bufs : buf[c].holder # None =>
           mine[buf[c].holder] = c /\ pc'[buf[c].holder] \in InRequest \cup {"own"}
    BY <1>1, <1>2, <1>7, Fields DEF IInv, Held, InRequest
  <2>3. \A q \in Procs : pc'[q] \in InRequest \cup {"own"} => buf[mine[q]].holder = q
    BY <1>1, <1>7 DEF IInv, Held, b
  <2>4. \A q \in Procs : q # p => pc'[q] = pc[q] /\ (pc[q] \in InRequest \cup {"own"} => mine[q] # b)
    BY SMTT(30), <1>1, <1>7 DEF IInv, Held
  <2>5. \A q \in Procs : /\ pc'[q] = "own" => buf'[mine[q]].valid
                         /\ pc'[q] = "iderw" => buf'[mine[q]].dirty \/ ~buf'[mine[q]].valid
    <3>1. \A q \in Procs : q # p /\ pc[q] \in InRequest \cup {"own"} => buf'[mine[q]] = buf[mine[q]]
      BY <1>5, <2>4 DEF IInv, TypeOK
    <3> QED
      BY <1>6, <2>4, <3>1 DEF IInv, Held, InRequest, b
  <2>6. \A q \in Procs : mine[q] \in Bufs
    BY DEF IInv, TypeOK
  <2> QED
    BY ZenonT(30), <1>3, <2>1, <2>2, <2>3, <2>5, <2>6 DEF Held
<1>12. \A i \in DOMAIN idequeue : idequeue[i] # b
  BY <1>1 DEF IInv, Queued
<1>13. Queued'
  <2>1. ASSUME NEW i \in DOMAIN idequeue
        PROVE  buf'[idequeue[i]] = buf[idequeue[i]] /\ buf[idequeue[i]].holder # p
    BY SMTT(30), <1>1, <1>5, <1>12 DEF IInv, Queued, TypeOK
  <2>2. \A i \in DOMAIN idequeue : LET q == buf[idequeue[i]].holder IN pc'[q] = pc[q]
    BY <1>7, <2>1, QueueHolders DEF IInv
  <2> QED
    BY ZenonT(30), <1>3, <2>1, <2>2, SameQueue DEF IInv
<1>14. AtFirst'
  <2>1. idequeue # <<>> => buf'[Head(idequeue)] = buf[Head(idequeue)]
    BY <1>5, <1>12 DEF IInv, TypeOK
  <2> QED
    BY ZenonT(30), <1>3, <2>1 DEF IInv, AtFirst
<1>15. Coherent'
  <2>1. \A c \in Bufs : buf'[c].dirty => buf'[c].valid
    BY <1>5, <1>6 DEF IInv, Coherent
  <2>2. ASSUME NEW c \in Bufs, buf'[c].valid
        PROVE  buf'[c].data = last'[buf'[c].blockno]
    <3>1. CASE c = b
      BY SMTT(30), <1>6, <1>8, <3>1
    <3>2. CASE c # b
      <4>1. buf[c].blockno \in Blocks /\ buf[c].blockno # k
        BY <1>1, <1>4, <1>5, <2>2, <3>2, Fields, Names DEF IInv, Counted, k
      <4> QED
        BY SMTT(30), <1>5, <1>8, <2>2, <3>2, <4>1 DEF IInv, Coherent
    <3> QED
      BY <3>1, <3>2
  <2>3. ASSUME NEW j \in Blocks
        PROVE  disk[j] = last'[j] \/ \E c \in Bufs : buf'[c].blockno = j /\ buf'[c].dirty
    <3>1. CASE j = k
      BY SMTT(30), <1>1, <1>6, <3>1
    <3>2. CASE j # k
      BY <1>5, <1>8, <3>2 DEF IInv, Coherent, k
    <3> QED
      BY <3>1, <3>2
  <2> QED
    BY <1>3, <2>1, <2>2, <2>3, ZenonT(30) DEF Coherent
<1>16. Cardinality(Logged') <= MaxDirty
  <2>1. CASE to = "own"
    <3>1. Logged' \subseteq Dirty \cup {b}
      BY <1>5 DEF Logged, Dirty
    <3>2. Dirty \cup {b} \in SUBSET Bufs
      BY <1>1 DEF Dirty
    <3> QED
      BY <1>2, <2>1, <3>1, <3>2, LoggedBound DEF IInv
  <2>2. CASE to = "iderw"
    <3>1. Logged' \subseteq Logged
      <4>1. ASSUME NEW c \in Logged' PROVE c \in Logged
        <5>1. c \in Bufs /\ c # b
          BY <1>6, <1>7, <2>2, <4>1 DEF Logged, Dirty, InRequest
        <5> QED
          BY SMTT(30), <1>1, <1>5, <1>7, <4>1, <5>1 DEF Logged, Dirty, InRequest
      <4> QED
        BY <4>1
    <3> QED
      BY <3>1, LoggedBound DEF IInv, Logged, Dirty
  <2> QED
    BY <2>1, <2>2
<1> QED
  BY <1>3, <1>9, <1>10, <1>11, <1>13, <1>14, <1>15, <1>16, ZenonT(30) DEF IInv

(* brelse() lets the sleeping lock go. *)
LEMMA brelseIInv ==
    ASSUME IInv, NEW p \in Procs, brelse(p)
    PROVE  IInv'
<1> DEFINE b == mine[p]
<1>1. b \in Bufs /\ buf \in [Bufs -> Buffer] /\ pc[p] = "own" /\ buf[b].holder = p
  BY DEF IInv, TypeOK, Held, brelse, Go
<1>2. /\ buf' = [buf EXCEPT ![b].holder = None]
      /\ pc' = [pc EXCEPT ![p] = "brelse"]
      /\ UNCHANGED <<lru, idequeue, device, disk, mine, last, panic>>
  BY Zenon DEF brelse, Go
<1> HIDE DEF b
<1>3. buf' \in [Bufs -> Buffer] /\ \A c \in Bufs : c # b => buf'[c] = buf[c]
  BY <1>1, <1>2 DEF Buffer
<1>4. /\ buf'[b].blockno = buf[b].blockno /\ buf'[b].valid = buf[b].valid
      /\ buf'[b].dirty = buf[b].dirty /\ buf'[b].refcnt = buf[b].refcnt
      /\ buf'[b].data = buf[b].data /\ buf'[b].holder = None
  BY <1>1, <1>2 DEF Buffer
<1>5. pc'[p] = "brelse" /\ \A q \in Procs : q # p => pc'[q] = pc[q]
  BY <1>2 DEF IInv, TypeOK
<1>6. TypeOK'
  <2>1. pc' \in [Procs -> {"user", "lock", "iderw", "sleep", "woken", "own", "brelse"}]
    BY SMTT(30), <1>2 DEF IInv, TypeOK
  <2> QED
    BY <1>2, <1>3, <2>1, Zenon DEF IInv, TypeOK
<1>7. Counted'
  <2>1. \A c \in Bufs : Users(c)' = Users(c)
    BY <1>1, <1>2, <1>5, SameUsers
  <2> QED
    BY <1>1, <1>3, <1>4, <2>1 DEF IInv, Counted
<1>8. Held'
  BY SMTT(30), <1>1, <1>2, <1>3, <1>4, <1>5, Names DEF IInv, Held, InRequest, b
<1>9. \A i \in DOMAIN idequeue : idequeue[i] # b
  BY <1>1 DEF IInv, Queued
<1>10. Queued'
  <2>1. ASSUME NEW i \in DOMAIN idequeue
        PROVE  buf'[idequeue[i]] = buf[idequeue[i]] /\ buf[idequeue[i]].holder # p
    BY SMTT(30), <1>1, <1>3, <1>9 DEF IInv, Queued, TypeOK
  <2>2. \A i \in DOMAIN idequeue : LET q == buf[idequeue[i]].holder IN pc'[q] = pc[q]
    BY <1>5, <2>1, QueueHolders DEF IInv
  <2> QED
    BY <1>2, <2>1, <2>2, SameQueue DEF IInv
<1>11. AtFirst'
  <2>1. idequeue # <<>> => buf'[Head(idequeue)] = buf[Head(idequeue)]
    BY <1>3, <1>9 DEF IInv, TypeOK
  <2> QED
    BY <1>2, <2>1 DEF IInv, AtFirst
<1>12. Coherent'
  BY <1>2, <1>3, <1>4 DEF IInv, Coherent
<1>13. Logged' \subseteq Logged
  BY <1>1, <1>3, <1>4, <1>5, Names DEF Logged, Dirty, InRequest
<1> QED
  BY SMTT(30), <1>2, <1>6, <1>7, <1>8, <1>10, <1>11, <1>12, <1>13, LoggedBound
    DEF IInv, Logged, Dirty

(* The drive reads or writes the block of the first request. *)
LEMMA driveIInv ==
    ASSUME IInv, drive
    PROVE  IInv'
<1> DEFINE b == Head(idequeue)
           k == device.blockno
           d == IF device.write THEN device.data ELSE disk[k]
<1>1. /\ device \in [busy : {TRUE}, done : BOOLEAN, write : BOOLEAN, blockno : Blocks, data : Values]
      /\ disk \in [Blocks -> Values] /\ k \in Blocks /\ d \in Values
  <2>1. device # Idle
    BY DEF drive, Idle
  <2> QED
    BY ZenonT(30), <2>1 DEF IInv, TypeOK
<1>2. idequeue # <<>> /\ b \in Bufs
  BY DEF IInv, TypeOK, AtFirst, drive
<1>3. /\ device.write = buf[b].dirty /\ k = buf[b].blockno
      /\ device.write => device.data = buf[b].data
  BY DEF IInv, AtFirst, drive
<1>4. /\ device' = [device EXCEPT !.done = TRUE,
                                  !.data = IF device.write THEN @ ELSE disk[k]]
      /\ disk' = IF device.write THEN [disk EXCEPT ![k] = device.data] ELSE disk
      /\ UNCHANGED <<buf, lru, idequeue, pc, mine, last, panic>>
  BY Zenon DEF drive
<1>5. device' = [busy |-> TRUE, done |-> TRUE, write |-> device.write, blockno |-> k, data |-> d]
  BY ZenonT(30), <1>1, <1>4
<1>6. /\ disk' \in [Blocks -> Values] /\ disk'[k] = d
      /\ \A j \in Blocks : j # k => disk'[j] = disk[j]
      /\ ~device.write => disk' = disk
  BY <1>1, <1>4
<1>7. device.write \in BOOLEAN /\ (device.write => d = buf[b].data)
  BY <1>1, <1>3
<1> HIDE DEF b, d, k
<1>8. TypeOK'
  <2>1. device' \in [busy : {TRUE}, done : BOOLEAN, write : BOOLEAN, blockno : Blocks, data : Values]
    BY <1>1, <1>5, <1>7
  <2> QED
    BY <1>4, <1>6, <2>1, ZenonT(30) DEF IInv, TypeOK
<1>9. Counted' /\ Held' /\ Queued'
  <2>1. Counted'
    BY <1>4, SameUsers, SameCounts DEF IInv
  <2>2. Queued'
    BY <1>4, SameQueue DEF IInv
  <2> QED
    BY <1>4, <2>1, <2>2, Zenon DEF IInv, Held
<1>10. AtFirst'
  <2>1. /\ device'.busy /\ device'.write = device.write /\ device'.blockno = k
        /\ device'.data = d
    BY <1>5
  <2> QED
    BY <1>2, <1>3, <1>4, <1>6, <1>7, <2>1 DEF AtFirst, b
<1>11. Coherent'
  <2>1. ASSUME NEW j \in Blocks
        PROVE  disk'[j] = last[j] \/ \E c \in Bufs : buf[c].blockno = j /\ buf[c].dirty
    <3>1. CASE device.write /\ j = k
      BY ZenonT(30), <1>2, <1>3, <3>1
    <3>2. CASE ~device.write \/ j # k
      BY <1>6, <3>2 DEF IInv, Coherent
    <3> QED
      BY <3>1, <3>2
  <2> QED
    BY <1>4, <2>1 DEF IInv, Coherent
<1>12. Logged' = Logged
  BY <1>4, Zenon DEF Logged, Dirty
<1> QED
  BY <1>4, <1>8, <1>9, <1>10, <1>11, <1>12, ZenonT(30) DEF IInv

(* The interrupt ends the first request and starts the next. *)
LEMMA ideintrIInv ==
    ASSUME IInv, ideintr
    PROVE  IInv'
<1> DEFINE b == Head(idequeue)
           h == buf[b].holder
           k == buf[b].blockno
           d == IF buf[b].dirty THEN buf[b].data ELSE device.data
<1>1. /\ idequeue # <<>> /\ idequeue \in Seq(Bufs) /\ IsInjective(idequeue)
      /\ buf \in [Bufs -> Buffer]
  BY DEF IInv, TypeOK, AtFirst, Queued, ideintr
<1>2. 1 \in DOMAIN idequeue /\ b = idequeue[1] /\ b \in Bufs
  BY <1>1
<1>3. h \in Procs /\ pc[h] \in {"sleep", "woken"} /\ mine[h] = b
  <2>1. h \in Procs /\ pc[h] \in {"sleep", "woken"}
    BY SMTT(30), <1>2, QueueHolders DEF IInv, Queued
  <2> QED
    BY SMTT(30), <1>2, <2>1, Names DEF IInv, Held
<1>4. k \in Blocks /\ h \in Users(b)
  BY SMTT(30), <1>2, <1>3, Fields DEF IInv, Counted, Users
<1>5. /\ device.write = buf[b].dirty /\ device.blockno = k
      /\ device.write => device.data = buf[b].data
      /\ device.data = disk[k]
  BY DEF IInv, AtFirst, ideintr
<1>6. device.data \in Values
  <2>1. device # Idle
    BY DEF ideintr, Idle
  <2> QED
    BY ZenonT(30), <2>1 DEF IInv, TypeOK
<1>7. /\ idequeue' = Tail(idequeue)
      /\ device' = IF Tail(idequeue) = <<>> THEN Idle ELSE idestart(idequeue[2])
      /\ UNCHANGED <<lru, disk, mine, last, panic>>
  BY Zenon DEF ideintr
<1>8. buf' = [buf EXCEPT ![b].data = d, ![b].valid = TRUE, ![b].dirty = FALSE]
  BY Zenon DEF ideintr
<1>9. pc' = Woken(b)
  BY Zenon DEF ideintr
<1>10. d \in Values
  BY <1>2, <1>6, Fields DEF IInv
<1>11. buf' \in [Bufs -> Buffer]
  <2> DEFINE r == [buf[b] EXCEPT !.data = d, !.valid = TRUE, !.dirty = FALSE]
  <2> HIDE DEF b, d
  <2>1. buf[b] \in Buffer
    BY <1>1, <1>2
  <2>2. r \in Buffer
    BY <1>10, <2>1, FilledBuffer, Zenon
  <2>3. buf' = [buf EXCEPT ![b] = r]
    BY <1>8, Zenon
  <2> HIDE DEF r
  <2> QED
    BY <1>1, <2>2, <2>3, Zenon
<1>12. /\ buf'[b].blockno = k /\ buf'[b].valid = TRUE /\ buf'[b].dirty = FALSE
       /\ buf'[b].refcnt = buf[b].refcnt /\ buf'[b].data = d /\ buf'[b].holder = h
  <2> HIDE DEF b, d
  <2> QED
    BY SMTT(30), <1>1, <1>2, <1>8 DEF Buffer
<1>13. \A c \in Bufs : c # b => buf'[c] = buf[c]
  <2> HIDE DEF b, d
  <2> QED
    BY SMTT(30), <1>1, <1>2, <1>8 DEF Buffer
<1>15. d = last[k] /\ disk[k] = last[k]
  <2>1. CASE buf[b].dirty
    BY <1>2, <1>5, <2>1 DEF IInv, Coherent
  <2>2. CASE ~buf[b].dirty
    <3>1. \A c \in Bufs : buf[c].blockno = k => c = b
      BY <1>2, <1>4, Names DEF IInv, Counted
    <3>2. disk[k] = last[k]
      BY <1>4, <2>2, <3>1 DEF IInv, Coherent
    <3> QED
      BY <1>5, <2>2, <3>2
  <2> QED
    BY <2>1, <2>2
<1> HIDE DEF b, h, k, d
<1>16. \A q \in Procs : pc'[q] = pc[q] \/ (pc[q] = "sleep" /\ pc'[q] = "woken")
  <2> SUFFICES ASSUME NEW q \in Procs
               PROVE  pc'[q] = pc[q] \/ (pc[q] = "sleep" /\ pc'[q] = "woken")
    OBVIOUS
  <2>1. pc'[q] = IF pc[q] = "sleep" /\ mine[q] = b THEN "woken" ELSE pc[q]
    BY <1>9 DEF Woken
  <2> QED
    BY <2>1
<1>17. /\ Tail(idequeue) \in Seq(Bufs) /\ DOMAIN Tail(idequeue) = 1 .. Len(idequeue) - 1
       /\ \A i \in DOMAIN Tail(idequeue) :
             i + 1 \in DOMAIN idequeue /\ Tail(idequeue)[i] = idequeue[i + 1]
  BY <1>1
<1>18. \A i \in DOMAIN idequeue : i # 1 => idequeue[i] # b
  BY <1>1, <1>2 DEF IsInjective
<1>19. TypeOK'
  <2>1. device' \in {Idle} \cup [busy : {TRUE}, done : BOOLEAN, write : BOOLEAN,
                                 blockno : Blocks, data : Values]
    <3>1. CASE Tail(idequeue) = <<>>
      BY <1>7, <3>1
    <3>2. CASE Tail(idequeue) # <<>>
      <4>1. 2 \in DOMAIN idequeue
        BY <1>1, <1>17, <3>2
      <4>2. idequeue[2] \in Bufs /\ buf[idequeue[2]].holder \in Procs
        BY <4>1, QueueHolders DEF IInv
      <4>3. buf[idequeue[2]].blockno \in Blocks
        <5>1. buf[idequeue[2]].holder \in Users(idequeue[2])
          BY <4>1, <4>2, Names DEF IInv, Held, Queued, Users
        <5> QED
          BY SMTT(30), <4>2, <5>1, Fields DEF IInv, Counted
      <4> QED
        BY <1>7, <3>2, <4>2, <4>3, Fields DEF IInv, idestart
    <3> QED
      BY ZenonT(30), <3>1, <3>2
  <2>2. pc' \in [Procs -> {"user", "lock", "iderw", "sleep", "woken", "own", "brelse"}]
    BY <1>9 DEF IInv, TypeOK, Woken
  <2> QED
    BY <1>7, <1>11, <1>17, <2>1, <2>2, Zenon DEF IInv, TypeOK
<1>20. Counted'
  <2>1. \A c \in Bufs : Users(c)' = Users(c)
    BY <1>7, <1>16, SameUsers
  <2>2. \A c \in Bufs : /\ buf'[c].blockno = buf[c].blockno /\ buf'[c].refcnt = buf[c].refcnt
                        /\ buf'[c].valid => buf[c].valid \/ Users(c) # {}
    BY <1>4, <1>12, <1>13 DEF k
  <2> QED
    BY SMTT(30), <2>1, <2>2, SameCounts DEF IInv
<1>21. Held'
  <2>1. \A c \in Bufs : buf'[c].holder = buf[c].holder /\ (buf[c].valid => buf'[c].valid)
    BY <1>12, <1>13 DEF h
  <2>2. \A q \in Procs : pc'[q] \in InRequest \cup {"own"} <=> pc[q] \in InRequest \cup {"own"}
    BY <1>16 DEF InRequest
  <2>3. \A q \in Procs : mine[q] \in Bufs
    BY DEF IInv, TypeOK
  <2>4. \A q \in Procs : pc'[q] = "own" => buf'[mine[q]].valid
    BY SMTT(30), <1>16, <2>1, <2>3 DEF IInv, Held
  <2>5. \A q \in Procs : pc'[q] = "iderw" => buf'[mine[q]].dirty \/ ~buf'[mine[q]].valid
    <3>1. \A q \in Procs : pc'[q] = "iderw" => pc[q] = "iderw"
      BY <1>16
    <3>2. \A q \in Procs : pc[q] = "iderw" => mine[q] # b
      BY SMTT(30), <1>3 DEF IInv, Held, InRequest, h
    <3> QED
      BY <1>13, <2>3, <3>1, <3>2 DEF IInv, Held
  <2>6. \A q \in Procs : pc'[q] \in InRequest \cup {"own"} => buf'[mine[q]].holder = q
    BY <2>1, <2>2, <2>3 DEF IInv, Held
  <2>7. \A c \in Bufs : buf'[c].holder # None =>
           mine[buf'[c].holder] = c /\ pc'[buf'[c].holder] \in InRequest \cup {"own"}
    BY <2>1, <2>2, Fields DEF IInv, Held
  <2> QED
    BY <1>7, <2>4, <2>5, <2>6, <2>7, ZenonT(30) DEF Held
<1>22. Queued'
  <2>1. IsInjective(idequeue')
    BY SMTT(30), <1>1, <1>7, <1>17 DEF IsInjective
  <2>2. ASSUME NEW i \in DOMAIN Tail(idequeue)
        PROVE  LET c == buf'[Tail(idequeue)[i]]
               IN c.holder # None /\ pc'[c.holder] \in {"sleep", "woken"} /\ (c.dirty \/ ~c.valid)
    <3>1. i + 1 \in DOMAIN idequeue /\ Tail(idequeue)[i] = idequeue[i + 1] /\ i + 1 # 1
      BY <1>17
    <3>2. idequeue[i + 1] \in Bufs /\ buf[idequeue[i + 1]].holder \in Procs
      BY <3>1, QueueHolders DEF IInv
    <3>3. buf'[Tail(idequeue)[i]] = buf[idequeue[i + 1]]
      BY <1>13, <1>18, <3>1, <3>2
    <3> QED
      BY SMTT(30), <1>16, <3>1, <3>2, <3>3 DEF IInv, Queued
  <2> QED
    BY <1>7, <2>1, <2>2, ZenonT(30) DEF Queued
<1>23. AtFirst'
  <2>1. CASE Tail(idequeue) = <<>>
    BY SMTT(30), <1>7, <2>1 DEF AtFirst, Idle
  <2>2. CASE Tail(idequeue) # <<>>
    <3>1. 2 \in DOMAIN idequeue /\ Head(Tail(idequeue)) = idequeue[2] /\ idequeue[2] \in Bufs
      BY <1>1, <1>17, <2>2
    <3>2. buf'[idequeue[2]] = buf[idequeue[2]]
      BY <1>13, <1>18, <3>1
    <3>3. device' = idestart(idequeue[2])
      BY <1>7, <2>2
    <3>4. /\ device'.busy /\ ~device'.done /\ device'.write = buf[idequeue[2]].dirty
          /\ device'.blockno = buf[idequeue[2]].blockno /\ device'.data = buf[idequeue[2]].data
      BY <3>3 DEF idestart
    <3> QED
      BY <1>7, <2>2, <3>1, <3>2, <3>4 DEF AtFirst
  <2> QED
    BY <2>1, <2>2
<1>24. Coherent'
  <2>1. \A c \in Bufs : buf'[c].dirty => buf'[c].valid
    BY <1>12, <1>13 DEF IInv, Coherent
  <2>2. \A c \in Bufs : buf'[c].valid => buf'[c].data = last[buf'[c].blockno]
    BY SMTT(30), <1>12, <1>13, <1>15 DEF IInv, Coherent
  <2>3. ASSUME NEW j \in Blocks
        PROVE  disk[j] = last[j] \/ \E c \in Bufs : buf'[c].blockno = j /\ buf'[c].dirty
    BY <1>13, <1>15 DEF IInv, Coherent, k
  <2> QED
    BY SMTT(30), <1>7, <2>1, <2>2, <2>3 DEF Coherent
<1>25. Logged' \subseteq Logged
  <2>1. ASSUME NEW c \in Logged' PROVE c \in Logged
    <3>1. c \in Bufs /\ c # b /\ buf'[c] = buf[c]
      BY <1>12, <1>13, <2>1 DEF Logged, Dirty
    <3> QED
      BY <1>16, <2>1, <3>1 DEF Logged, Dirty, InRequest
  <2> QED
    BY <2>1
<1> QED
  BY SMTT(30), <1>7, <1>19, <1>20, <1>21, <1>22, <1>23, <1>24, <1>25, LoggedBound
    DEF IInv, Logged, Dirty

(* brelse() counts the buffer down and moves it to the front. *)
LEMMA brelse_unrefIInv ==
    ASSUME IInv, NEW p \in Procs, brelse_unref(p)
    PROVE  IInv'
<1>0. PICK b \in Bufs : b = mine[p]
  BY DEF IInv, TypeOK
<1> DEFINE n == buf[b].refcnt
<1>1. /\ b \in Bufs /\ buf \in [Bufs -> Buffer] /\ mine \in [Procs -> Bufs] /\ pc[p] = "brelse"
      /\ pc \in [Procs -> {"user", "lock", "iderw", "sleep", "woken", "own", "brelse"}]
  BY <1>0 DEF IInv, TypeOK, brelse_unref, Go
<1>2. /\ buf' = [buf EXCEPT ![b].refcnt = n - 1]
      /\ lru' = IF n = 1 THEN ToFront(lru, b) ELSE lru
      /\ mine' = [mine EXCEPT ![p] = 1] /\ pc' = [pc EXCEPT ![p] = "user"]
      /\ UNCHANGED <<idequeue, device, disk, last, panic>>
  BY <1>0, Zenon DEF brelse_unref, Go
<1>3. n = Cardinality(Users(b)) /\ p \in Users(b) /\ Users(b) \in SUBSET Procs
  BY <1>0, <1>1 DEF IInv, Counted, Users
<1>4. 1 \in Bufs
  BY <1>1, Enough DEF Bufs
<1> HIDE DEF n
<1>5. n - 1 = Cardinality(Users(b) \ {p}) /\ n - 1 \in 0 .. Cardinality(Procs)
  <2>1. IsFiniteSet(Users(b)) /\ Cardinality(Users(b) \ {p}) \in 0 .. Cardinality(Procs)
    BY <1>3, UsersFinite
  <2>2. Cardinality(Users(b) \ {p}) = Cardinality(Users(b)) - 1
    BY ZenonT(30), <1>3, <2>1, FS_RemoveElement
  <2> QED
    BY <1>3, <2>1, <2>2
<1>6. buf' \in [Bufs -> Buffer] /\ \A c \in Bufs : c # b => buf'[c] = buf[c]
  BY SMTT(30), <1>1, <1>2, <1>5 DEF Buffer
<1>7. /\ buf'[b].blockno = buf[b].blockno /\ buf'[b].valid = buf[b].valid
      /\ buf'[b].dirty = buf[b].dirty /\ buf'[b].refcnt = n - 1
      /\ buf'[b].data = buf[b].data /\ buf'[b].holder = buf[b].holder
  BY <1>1, <1>2 DEF Buffer
<1>8. \A c \in Bufs : /\ buf'[c].blockno = buf[c].blockno /\ buf'[c].valid = buf[c].valid
                      /\ buf'[c].dirty = buf[c].dirty
                      /\ buf'[c].data = buf[c].data /\ buf'[c].holder = buf[c].holder
  BY <1>6, <1>7
<1>9. /\ pc'[p] = "user" /\ mine'[p] = 1
      /\ \A q \in Procs : q # p => pc'[q] = pc[q] /\ mine'[q] = mine[q]
  BY <1>1, <1>2
<1>10. \A c \in Bufs : buf[c].holder # p
  BY <1>1, Names DEF IInv, Held, InRequest
<1>11. TypeOK'
  <2>1. lru' \in Seq(Bufs) /\ Range(lru') = Bufs
    <3>1. CASE n = 1
      <4>1. lru \in Seq(Bufs) /\ \A c \in Bufs : \E i \in 1 .. Len(lru) : lru[i] = c
        <5>1. lru \in Seq(Bufs) /\ Range(lru) = Bufs
          BY Zenon DEF IInv, TypeOK
        <5>2. DOMAIN lru = 1 .. Len(lru)
          BY <5>1
        <5> QED
          BY <5>1, <5>2 DEF Range
      <4>2. ToFront(lru, b) \in Seq(Bufs) /\ Range(ToFront(lru, b)) = Bufs
        BY <1>1, <4>1, MoveFront, Zenon
      <4> QED
        BY <1>2, <3>1, <4>2, Zenon
    <3>2. CASE n # 1
      BY <1>2, <3>2 DEF IInv, TypeOK
    <3> QED
      BY <3>1, <3>2
  <2>2. pc' \in [Procs -> {"user", "lock", "iderw", "sleep", "woken", "own", "brelse"}]
    BY <1>1, <1>2
  <2>3. mine' \in [Procs -> Bufs]
    BY <1>1, <1>2, <1>4
  <2> QED
    BY <1>2, <1>6, <2>1, <2>2, <2>3, ZenonT(30) DEF IInv, TypeOK
<1>12. Counted'
  <2>1. Users(b)' = Users(b) \ {p}
    <3>1. \A q \in Procs : q \in Users(b)' <=> q \in Users(b) /\ q # p
      BY <1>9 DEF Users
    <3> QED
      BY <3>1 DEF Users
  <2>2. ASSUME NEW c \in Bufs, c # b PROVE Users(c)' = Users(c)
    <3>1. \A q \in Procs : q \in Users(c)' <=> q \in Users(c)
      BY <1>0, <1>9, <2>2 DEF Users
    <3> QED
      BY <3>1 DEF Users
  <2>3. \A c \in Bufs : buf'[c].refcnt = Cardinality(Users(c)')
    <3>1. buf'[b].refcnt = Cardinality(Users(b)')
      BY <1>5, <1>7, <2>1
    <3>2. \A c \in Bufs : c # b => buf'[c].refcnt = Cardinality(Users(c)')
      BY <1>6, <2>2 DEF IInv, Counted
    <3> QED
      BY <3>1, <3>2, ZenonT(30)
  <2>4. \A c \in Bufs : Users(c)' \subseteq Users(c)
    BY SMTT(30), <2>1, <2>2
  <2>5. \A c \in Bufs : Users(c)' # {} \/ buf'[c].valid => buf'[c].blockno # NoBlock
    <3>1. \A c \in Bufs : Users(c)' # {} => Users(c) # {}
      BY <2>4
    <3> QED
      BY <1>8, <3>1 DEF IInv, Counted
  <2>6. \A c, e \in Bufs : buf'[c].blockno = buf'[e].blockno => c = e \/ buf'[c].blockno = NoBlock
    BY <1>8 DEF IInv, Counted
  <2> QED
    BY <2>3, <2>5, <2>6, Zenon DEF Counted
<1>13. Held'
  <2>1. \A q \in Procs : pc'[q] # "user" => pc'[q] = pc[q] /\ mine'[q] = mine[q] /\ mine[q] \in Bufs
    BY SMTT(30), <1>1, <1>9
  <2>2. \A c \in Bufs : buf'[c].holder # None => 
           mine'[buf'[c].holder] = c /\ pc'[buf'[c].holder] \in InRequest \cup {"own"}
    BY SMTT(30), <1>8, <1>9, <1>10, Fields DEF IInv, Held
  <2>3. \A q \in Procs : pc'[q] \in InRequest \cup {"own"} => buf'[mine'[q]].holder = q
    BY SMTT(30), <1>8, <2>1 DEF IInv, Held, InRequest
  <2>4. \A q \in Procs : pc'[q] = "own" => buf'[mine'[q]].valid
    BY SMTT(30), <1>8, <2>1 DEF IInv, Held
  <2>5. \A q \in Procs : pc'[q] = "iderw" => buf'[mine'[q]].dirty \/ ~buf'[mine'[q]].valid
    BY <1>8, <2>1 DEF IInv, Held
  <2> QED
    BY <2>2, <2>3, <2>4, <2>5, Zenon DEF Held
<1>14. \A i \in DOMAIN idequeue : idequeue[i] \in Bufs /\ buf[idequeue[i]].holder \in Procs
  BY QueueHolders DEF IInv
<1>15. Queued'
  BY <1>2, <1>8, <1>9, <1>10, <1>14 DEF IInv, Queued
<1>16. AtFirst'
  <2>1. idequeue # <<>> => Head(idequeue) \in Bufs
    BY DEF IInv, TypeOK
  <2> QED
    BY <1>2, <1>8, <2>1 DEF IInv, AtFirst
<1>17. Coherent'
  BY SMTT(30), <1>2, <1>8 DEF IInv, Coherent
<1>18. Logged' \subseteq Logged
  BY <1>8, <1>9, <1>10 DEF Logged, Dirty
<1> QED
  BY SMTT(30), <1>2, <1>11, <1>12, <1>13, <1>15, <1>16, <1>17, <1>18, LoggedBound
    DEF IInv, Logged, Dirty

(* A process that has no buffer finds one: the others have one each at most,
   and the log MaxDirty. *)
LEMMA BufferLeft ==
    ASSUME IInv, NEW p \in Procs, pc[p] = "user"
    PROVE  \E b \in Bufs : Recyclable(b)
<1> SUFFICES ASSUME \A b \in Bufs : ~Recyclable(b)
             PROVE  FALSE
  OBVIOUS
<1> DEFINE Q == Procs \ {p}
           U == {mine[q] : q \in Q}
<1>1. \A b \in Bufs : b \in Logged \/ b \in U
  <2> SUFFICES ASSUME NEW b \in Bufs, b \notin U PROVE b \in Logged
    OBVIOUS
  <2>1. Users(b) = {}
    BY DEF Users
  <2>2. buf[b].refcnt = 0
    BY <2>1, FS_EmptySet DEF IInv, Counted
  <2>3. buf[b].dirty
    BY SMTT(30), <2>2 DEF Recyclable
  <2>4. buf[b].holder = None
    BY <2>1, Fields DEF IInv, Held, InRequest, Users
  <2> QED
    BY <2>3, <2>4, Names DEF Logged, Dirty
<1>2. IsFiniteSet(Bufs) /\ Cardinality(Bufs) = NBUF
  <2>1. IsFiniteSet(1 .. NBUF) /\ Cardinality(1 .. NBUF) = IF 1 > NBUF THEN 0 ELSE NBUF - 1 + 1
    BY Enough, FS_Interval
  <2> QED
    BY <2>1, Enough DEF Bufs
<1>3. IsFiniteSet(Logged) /\ Cardinality(Logged) \in Nat /\ Cardinality(Logged) <= MaxDirty
  <2>1. Logged \in SUBSET Bufs
    BY DEF Logged, Dirty
  <2>2. IsFiniteSet(Logged)
    BY <1>2, <2>1, FS_Subset
  <2> QED
    BY <2>2, FS_CardinalityType DEF IInv
<1>4. IsFiniteSet(Q) /\ Cardinality(Q) = Cardinality(Procs) - 1
  BY Enough, FS_RemoveElement
<1>5. IsFiniteSet(U) /\ Cardinality(U) <= Cardinality(Q)
  <2> DEFINE f == [q \in Q |-> mine[q]]
  <2>1. f \in Surjection(Q, U)
    BY DEF Surjection
  <2> HIDE DEF f, Q, U
  <2> QED
    BY <1>4, <2>1, FS_Surjection
<1> HIDE DEF Q, U
<1>6. IsFiniteSet(Logged \cup U) /\ Cardinality(Logged \cup U) <= Cardinality(Logged) + Cardinality(U)
  <2>1. /\ IsFiniteSet(Logged \cup U)
        /\ Cardinality(Logged \cup U) =
              Cardinality(Logged) + Cardinality(U) - Cardinality(Logged \cap U)
    BY <1>3, <1>5, FS_Union
  <2>2. Cardinality(Logged \cap U) \in Nat /\ Cardinality(U) \in Nat
    BY <1>3, <1>5, FS_Subset, FS_CardinalityType
  <2> QED
    BY <1>3, <2>1, <2>2
<1>7. NBUF <= Cardinality(Logged \cup U)
  <2>1. Bufs \in SUBSET (Logged \cup U)
    BY <1>1
  <2> QED
    BY <1>2, <1>6, <2>1, FS_Subset
<1>8. Cardinality(Procs) \in Nat /\ Cardinality(U) \in Nat /\ Cardinality(Q) \in Nat
      /\ Cardinality(Logged \cup U) \in Nat
  BY <1>4, <1>5, <1>6, Enough, FS_CardinalityType
<1> QED
  BY <1>3, <1>4, <1>5, <1>6, <1>7, <1>8, Enough

(* What bget() returns: the block's buffer, or one that nobody uses and the log
   does not need. *)
Taken(b, k, f) ==
    \/ /\ buf[b].blockno = k
       /\ f = [buf EXCEPT ![b].refcnt = @ + 1]
    \/ /\ Recyclable(b) /\ \A c \in Bufs : buf[c].blockno # k
       /\ f = [buf EXCEPT ![b].blockno = k, ![b].valid = FALSE, ![b].dirty = FALSE,
                          ![b].refcnt = 1, ![b].data = NoData]

LEMMA bgetTakes ==
    ASSUME IInv, NEW p \in Procs, NEW k \in Blocks, bget(p, k)
    PROVE  /\ pc[p] = "user" /\ pc' = [pc EXCEPT ![p] = "lock"]
           /\ UNCHANGED <<lru, idequeue, device, disk, last, panic>>
           /\ \E b \in Bufs : mine' = [mine EXCEPT ![p] = b] /\ Taken(b, k, buf')
<1> DEFINE cached == {b \in Bufs : buf[b].blockno = k}
           unused == {i \in DOMAIN lru : Recyclable(lru[i])}
           taken == IF cached # {} THEN CHOOSE c \in cached : TRUE ELSE lru[Max(unused)]
<1>1. /\ Go(p, "user", "lock")
      /\ IF cached = {} /\ unused = {}
         THEN panic' = "bget: no buffers" /\ UNCHANGED <<buf, mine>>
         ELSE /\ mine' = [mine EXCEPT ![p] = taken]
              /\ buf' = IF cached # {} THEN [buf EXCEPT ![taken].refcnt = @ + 1]
                        ELSE [buf EXCEPT ![taken].blockno = k, ![taken].valid = FALSE,
                                         ![taken].dirty = FALSE, ![taken].refcnt = 1,
                                         ![taken].data = NoData]
              /\ panic' = panic
      /\ UNCHANGED <<lru, idequeue, device, disk, last>>
  BY Zenon DEF bget
<1>2. pc[p] = "user" /\ pc' = [pc EXCEPT ![p] = "lock"]
  BY <1>1, Zenon DEF Go
<1>3. lru \in Seq(Bufs) /\ Range(lru) = Bufs
  BY Zenon DEF IInv, TypeOK
<1>4. unused # {} /\ lru[Max(unused)] \in Bufs /\ Recyclable(lru[Max(unused)])
  BY <1>2, <1>3, ScanFinds, BufferLeft, Zenon
<1> HIDE DEF unused
<1>5. CASE cached # {}
  <2>1. taken \in cached
    BY <1>5, Zenon
  <2> HIDE DEF taken
  <2>2. taken \in Bufs /\ buf[taken].blockno = k
    BY <2>1, Zenon
  <2> QED
    BY <1>1, <1>2, <1>5, <2>2, Zenon DEF Taken
<1>6. CASE cached = {}
  <2>1. taken \in Bufs /\ Recyclable(taken)
    BY <1>4, <1>6, Zenon
  <2>2. \A c \in Bufs : buf[c].blockno # k
    BY <1>6, Zenon
  <2> HIDE DEF taken
  <2> QED
    BY <1>1, <1>2, <1>4, <1>6, <2>1, <2>2, ZenonT(30) DEF Taken
<1> QED
  BY <1>5, <1>6, Zenon

(* The buffer as bget() leaves it. *)
LEMMA bgetBuffer ==
    ASSUME IInv, NEW b \in Bufs, NEW k \in Blocks, NEW f, Taken(b, k, f)
    PROVE  /\ DOMAIN f = Bufs /\ f = [c \in Bufs |-> f[c]]
           /\ \A c \in Bufs : c # b => f[c] = buf[c]
           /\ f[b] = [blockno |-> k, valid |-> f[b].valid, dirty |-> f[b].dirty,
                      refcnt |-> buf[b].refcnt + 1, data |-> f[b].data,
                      holder |-> buf[b].holder]
           /\ \/ /\ f[b].valid = buf[b].valid /\ f[b].dirty = buf[b].dirty
                 /\ f[b].data = buf[b].data /\ buf[b].blockno = k
              \/ /\ f[b].valid = FALSE /\ f[b].dirty = FALSE /\ f[b].data = NoData
                 /\ Users(b) = {} /\ buf[b].holder = None /\ buf[b].dirty = FALSE
                 /\ \A c \in Bufs : buf[c].blockno # k
<1>1. buf \in [Bufs -> Buffer]
  BY Zenon DEF IInv, TypeOK
<1>2. buf[b] \in Buffer
  BY <1>1
<1>3. CASE buf[b].blockno = k /\ f = [buf EXCEPT ![b].refcnt = @ + 1]
  <2>1. DOMAIN f = Bufs /\ f = [c \in Bufs |-> f[c]] /\ \A c \in Bufs : c # b => f[c] = buf[c]
    BY ZenonT(30), <1>1, <1>3
  <2>2. f[b] = [buf[b] EXCEPT !.refcnt = @ + 1]
    BY <1>1, <1>3
  <2>3. f[b] = [blockno |-> k, valid |-> buf[b].valid, dirty |-> buf[b].dirty,
                refcnt |-> buf[b].refcnt + 1, data |-> buf[b].data, holder |-> buf[b].holder]
    BY SMTT(30), <1>2, <1>3, <2>2 DEF Buffer
  <2>4. f[b].valid = buf[b].valid /\ f[b].dirty = buf[b].dirty /\ f[b].data = buf[b].data
    BY <2>3
  <2>5. f[b] = [blockno |-> k, valid |-> f[b].valid, dirty |-> f[b].dirty,
                refcnt |-> buf[b].refcnt + 1, data |-> f[b].data, holder |-> buf[b].holder]
    BY <2>3, <2>4, ZenonT(30)
  <2> QED
    BY <1>3, <2>1, <2>4, <2>5, Zenon
<1>4. CASE /\ Recyclable(b) /\ \A c \in Bufs : buf[c].blockno # k
           /\ f = [buf EXCEPT ![b].blockno = k, ![b].valid = FALSE, ![b].dirty = FALSE,
                              ![b].refcnt = 1, ![b].data = NoData]
  <2>1. DOMAIN f = Bufs /\ f = [c \in Bufs |-> f[c]] /\ \A c \in Bufs : c # b => f[c] = buf[c]
    BY ZenonT(30), <1>1, <1>4
  <2>2. f[b] = [buf[b] EXCEPT !.blockno = k, !.valid = FALSE, !.dirty = FALSE,
                              !.refcnt = 1, !.data = NoData]
    BY <1>1, <1>4
  <2>3. f[b] = [blockno |-> k, valid |-> FALSE, dirty |-> FALSE,
                refcnt |-> 1, data |-> NoData, holder |-> buf[b].holder]
    BY ZenonT(30), <1>2, <2>2 DEF Buffer
  <2>4. buf[b].refcnt = 0 /\ buf[b].dirty = FALSE
    BY <1>2, <1>4 DEF Recyclable, Buffer
  <2>5. Users(b) = {}
    <3>1. Cardinality(Users(b)) = 0 /\ IsFiniteSet(Users(b))
      BY SMTT(30), <2>4, UsersFinite DEF IInv, Counted, Users
    <3> QED
      BY SMTT(30), <3>1, FS_EmptySet
  <2>6. buf[b].holder = None
    BY SMTT(30), <2>5, Fields DEF IInv, Held, InRequest, Users
  <2> QED
    BY <1>4, <2>1, <2>3, <2>4, <2>5, <2>6
<1> QED
  BY <1>3, <1>4, Zenon DEF Taken

(* bget() takes a buffer. *)
LEMMA bgetIInv ==
    ASSUME IInv, NEW p \in Procs, NEW k \in Blocks, bget(p, k)
    PROVE  IInv'
<1>1. /\ pc[p] = "user" /\ pc' = [pc EXCEPT ![p] = "lock"]
      /\ UNCHANGED <<lru, idequeue, device, disk, last, panic>>
  BY bgetTakes, Zenon
<1>2. PICK b \in Bufs : mine' = [mine EXCEPT ![p] = b] /\ Taken(b, k, buf')
  BY bgetTakes, Zenon
<1> DEFINE Same == /\ buf'[b].valid = buf[b].valid /\ buf'[b].dirty = buf[b].dirty
                   /\ buf'[b].data = buf[b].data /\ buf[b].blockno = k
           Fresh == /\ buf'[b].valid = FALSE /\ buf'[b].dirty = FALSE /\ buf'[b].data = NoData
                    /\ Users(b) = {} /\ buf[b].holder = None /\ buf[b].dirty = FALSE
                    /\ \A c \in Bufs : buf[c].blockno # k
<1>3. /\ DOMAIN buf' = Bufs /\ buf' = [c \in Bufs |-> buf'[c]]
      /\ \A c \in Bufs : c # b => buf'[c] = buf[c]
      /\ buf'[b] = [blockno |-> k, valid |-> buf'[b].valid, dirty |-> buf'[b].dirty,
                    refcnt |-> buf[b].refcnt + 1, data |-> buf'[b].data,
                    holder |-> buf[b].holder]
      /\ Same \/ Fresh
  BY <1>2, bgetBuffer, ZenonT(30)
<1>4. /\ buf'[b].blockno = k /\ buf'[b].refcnt = buf[b].refcnt + 1
      /\ buf'[b].holder = buf[b].holder
  BY <1>3
<1>5. /\ mine \in [Procs -> Bufs] /\ buf \in [Bufs -> Buffer]
      /\ pc \in [Procs -> {"user", "lock", "iderw", "sleep", "woken", "own", "brelse"}]
  BY DEF IInv, TypeOK
<1>6. /\ pc'[p] = "lock" /\ mine'[p] = b
      /\ \A q \in Procs : q # p => pc'[q] = pc[q] /\ mine'[q] = mine[q]
  BY <1>1, <1>2, <1>5
<1>7. Users(b)' = Users(b) \cup {p} /\ p \notin Users(b)
  <2>1. \A q \in Procs : q \in Users(b)' <=> q \in Users(b) \/ q = p
    BY <1>6 DEF Users
  <2> QED
    BY <1>1, <2>1 DEF Users
<1>8. ASSUME NEW c \in Bufs, c # b PROVE Users(c)' = Users(c)
  <2>1. \A q \in Procs : q \in Users(c)' <=> q \in Users(c)
    BY SMTT(30), <1>1, <1>6, <1>8 DEF Users
  <2> QED
    BY <2>1 DEF Users
<1>9. buf'[b].refcnt = Cardinality(Users(b)') /\ buf'[b].refcnt \in 0 .. Cardinality(Procs)
  <2>1. IsFiniteSet(Users(b)) /\ buf[b].refcnt = Cardinality(Users(b))
    BY SMTT(30), UsersFinite DEF IInv, Counted, Users
  <2>2. Cardinality(Users(b) \cup {p}) = Cardinality(Users(b)) + 1
    BY ZenonT(30), <1>7, <2>1, FS_AddElement
  <2>3. Cardinality(Users(b) \cup {p}) \in 0 .. Cardinality(Procs)
    BY UsersFinite DEF Users
  <2> QED
    BY SMTT(30), <1>4, <1>7, <2>1, <2>2, <2>3
<1>10. \A c \in Bufs : buf'[c].holder = buf[c].holder /\ buf[c].holder # p
  BY <1>1, <1>3, <1>4, Names DEF IInv, Held, InRequest
<1>11. ASSUME Fresh
       PROVE  /\ \A q \in Procs : pc[q] # "user" => mine[q] # b
              /\ \A i \in DOMAIN idequeue : idequeue[i] # b
  <2>1. \A q \in Procs : pc[q] # "user" => mine[q] # b
    BY <1>11 DEF Users
  <2>2. \A i \in DOMAIN idequeue : idequeue[i] # b
    BY <1>11, Zenon DEF IInv, Queued
  <2> QED
    BY <2>1, <2>2
<1>12. TypeOK'
  <2>1. buf' \in [Bufs -> Buffer]
    <3>1. buf'[b].valid \in BOOLEAN /\ buf'[b].dirty \in BOOLEAN /\ buf'[b].data \in Values
      BY ZenonT(30), <1>3, Fields, ValuesFacts DEF IInv
    <3>2. buf[b].holder \in Procs \cup {None}
      BY SMTT(30), Fields DEF IInv
    <3>3. buf'[b] \in Buffer
      BY SMTT(30), <1>3, <1>4, <1>9, <3>1, <3>2 DEF Buffer
    <3>4. \A c \in Bufs : buf'[c] \in Buffer
      BY <1>3, <1>5, <3>3
    <3> QED
      BY <1>3, <3>4, Zenon
  <2>2. mine' \in [Procs -> Bufs]
    BY <1>2, <1>5
  <2>3. pc' \in [Procs -> {"user", "lock", "iderw", "sleep", "woken", "own", "brelse"}]
    BY <1>1, <1>5
  <2> QED
    BY <1>1, <2>1, <2>2, <2>3, ZenonT(30) DEF IInv, TypeOK
<1>13. Counted'
  <2>1. \A c \in Bufs : buf'[c].refcnt = Cardinality(Users(c)')
    BY SMTT(30), <1>3, <1>8, <1>9 DEF IInv, Counted
  <2>2. \A c \in Bufs : Users(c)' # {} \/ buf'[c].valid => buf'[c].blockno # NoBlock
    BY SMTT(30), <1>3, <1>4, <1>8, Names DEF IInv, Counted
  <2>3. \A c \in Bufs : c # b => buf[c].blockno # k
    BY SMTT(30), <1>3, Names DEF IInv, Counted
  <2>4. \A c, e \in Bufs : buf'[c].blockno = buf'[e].blockno => c = e \/ buf'[c].blockno = NoBlock
    BY SMTT(30), <1>3, <1>4, <2>3 DEF IInv, Counted
  <2> QED
    BY <2>1, <2>2, <2>4, ZenonT(30) DEF Counted
<1>14. ASSUME NEW q \in Procs, pc'[q] \in InRequest \cup {"own"}
       PROVE  /\ q # p /\ pc'[q] = pc[q] /\ mine'[q] = mine[q] /\ mine[q] \in Bufs
              /\ buf'[mine[q]].valid = buf[mine[q]].valid /\ buf'[mine[q]].dirty = buf[mine[q]].dirty
  <2>1. q # p /\ pc'[q] = pc[q] /\ mine'[q] = mine[q] /\ mine[q] \in Bufs /\ pc[q] # "user"
    BY <1>5, <1>6, <1>14 DEF InRequest
  <2> QED
    BY ZenonT(30), <1>3, <1>11, <2>1
<1>15. Held'
  <2>1. \A c \in Bufs : buf'[c].holder # None =>
           mine'[buf'[c].holder] = c /\ pc'[buf'[c].holder] \in InRequest \cup {"own"}
    <3> SUFFICES ASSUME NEW c \in Bufs, buf[c].holder # None
                 PROVE  LET q == buf[c].holder
                        IN mine'[q] = c /\ pc'[q] \in InRequest \cup {"own"}
      BY <1>10, ZenonT(30)
    <3>1. buf[c].holder \in Procs
      BY Fields DEF IInv
    <3>2. mine[buf[c].holder] = c /\ pc[buf[c].holder] \in InRequest \cup {"own"}
      BY ZenonT(30) DEF IInv, Held
    <3> QED
      BY <1>6, <1>10, <3>1, <3>2, Zenon
  <2>2. \A q \in Procs : pc'[q] \in InRequest \cup {"own"} => buf'[mine'[q]].holder = q
    BY SMTT(30), <1>10, <1>14 DEF IInv, Held
  <2>3. \A q \in Procs : pc'[q] = "own" => buf'[mine'[q]].valid
    BY SMTT(30), <1>14 DEF IInv, Held
  <2>4. \A q \in Procs : pc'[q] = "iderw" => buf'[mine'[q]].dirty \/ ~buf'[mine'[q]].valid
    BY SMTT(30), <1>14 DEF IInv, Held, InRequest
  <2> QED
    BY <2>1, <2>2, <2>3, <2>4, Zenon DEF Held
<1>16. ASSUME NEW i \in DOMAIN idequeue
       PROVE  LET c == idequeue[i]
              IN /\ c \in Bufs /\ buf[c].holder \in Procs /\ pc'[buf[c].holder] = pc[buf[c].holder]
                 /\ buf'[c].valid = buf[c].valid /\ buf'[c].dirty = buf[c].dirty
                 /\ buf'[c].data = buf[c].data /\ buf'[c].blockno = buf[c].blockno
  <2>1. idequeue[i] \in Bufs /\ buf[idequeue[i]].holder \in Procs
    BY SMTT(30), QueueHolders DEF IInv
  <2> QED
    BY ZenonT(30), <1>3, <1>4, <1>6, <1>10, <1>11, <2>1
<1>17. Queued'
  BY SMTT(30), <1>1, <1>10, <1>16 DEF IInv, Queued
<1>18. AtFirst'
  <2>1. idequeue # <<>> => 1 \in DOMAIN idequeue /\ Head(idequeue) = idequeue[1]
    BY SMTT(30) DEF IInv, TypeOK
  <2> QED
    BY <1>1, <1>16, <2>1 DEF IInv, AtFirst
<1>19. Coherent'
  <2>1. \A c \in Bufs : buf'[c].dirty => buf'[c].valid
    BY SMTT(30), <1>3 DEF IInv, Coherent
  <2>2. \A c \in Bufs : buf'[c].valid => buf'[c].data = last[buf'[c].blockno]
    BY SMTT(30), <1>3, <1>4 DEF IInv, Coherent
  <2>3. \A c \in Bufs : buf[c].dirty => buf'[c].dirty /\ buf'[c].blockno = buf[c].blockno
    BY <1>3, <1>4
  <2>4. \A m \in Blocks :
           disk'[m] = last'[m] \/ \E c \in Bufs : buf'[c].blockno = m /\ buf'[c].dirty
    <3>1. \A m \in Blocks :
             disk[m] = last[m] \/ \E c \in Bufs : buf[c].blockno = m /\ buf[c].dirty
      BY ZenonT(30) DEF IInv, Coherent
    <3>2. disk' = disk /\ last' = last
      BY ZenonT(30), <1>1
    <3> QED
      BY <2>3, <3>1, <3>2
  <2> QED
    BY ZenonT(30), <1>1, <2>1, <2>2, <2>4 DEF Coherent
<1>20. Logged' \subseteq Logged
  <2>1. ASSUME NEW c \in Logged' PROVE c \in Logged
    <3>1. c \in Bufs /\ buf[c].dirty
      BY <1>3, <2>1 DEF Logged, Dirty
    <3> QED
      BY SMTT(30), <1>6, <1>10, <2>1, <3>1 DEF Logged, Dirty
  <2> QED
    BY SMTT(30), <2>1
<1> QED
  BY SMTT(30), <1>1, <1>12, <1>13, <1>15, <1>17, <1>18, <1>19, <1>20, LoggedBound
    DEF IInv, Logged, Dirty

(* No step of the system breaks the inductive invariant. *)
LEMMA NextIInv == IInv /\ [Next]_vars => IInv'
<1> SUFFICES ASSUME IInv, [Next]_vars PROVE IInv'
  OBVIOUS
<1>1. CASE UNCHANGED vars
  <2>1. UNCHANGED <<buf, lru, idequeue, device, disk, pc, mine, last, panic>>
    BY <1>1 DEF vars
  <2>2. TypeOK' /\ Held' /\ AtFirst' /\ Coherent'
    BY <2>1, ZenonT(30) DEF IInv, TypeOK, Held, AtFirst, Coherent
  <2>3. Counted'
    BY <2>1, SameUsers, SameCounts DEF IInv
  <2>4. Queued'
    BY <2>1, SameQueue DEF IInv
  <2>5. Logged' = Logged
    BY <2>1, Zenon DEF Logged, Dirty
  <2> QED
    BY <2>1, <2>2, <2>3, <2>4, <2>5, ZenonT(30) DEF IInv
<1>2. ASSUME NEW p \in Procs, NEW k \in Blocks, bget(p, k) PROVE IInv'
  BY <1>2, bgetIInv
<1>3. ASSUME NEW p \in Procs, NEW v \in Values, log_write(p, v) \/ bwrite(p, v) PROVE IInv'
  BY <1>3, storeIInv
<1>4. ASSUME NEW p \in Procs,
             bread(p) \/ iderw(p) \/ iderw_wake(p) \/ kill(p) \/ brelse(p) \/ brelse_unref(p)
      PROVE  IInv'
  BY <1>4, breadIInv, iderwIInv, wakeIInv, brelseIInv, brelse_unrefIInv
<1>5. CASE drive
  BY <1>5, driveIInv
<1>6. CASE ideintr
  BY <1>6, ideintrIInv
<1> QED
  BY <1>1, <1>2, <1>3, <1>4, <1>5, <1>6 DEF Next

LEMMA Invariance == Spec => []IInv
BY InitIInv, NextIInv, PTL DEF Spec

-----------------------------------------------------------------------------
(* The cache's data structures stay what they are in binit(): a list of all
   the buffers, and counts between 0 and the number of processes.           *)
THEOREM TypeTheorem == Spec => []TypeOK
<1>1. IInv => TypeOK
  BY DEF IInv
<1> QED
  BY <1>1, Invariance, PTL

(* Whoever has a buffer from bread() sees what was last stored into the block
   (bio.c:62-106, ide.c:111-165), for any number of processes, blocks and
   buffers.                                                                 *)
THEOREM ReadsTheorem == Spec => []ReadsLastStore
<1>1. IInv => ReadsLastStore
  <2> SUFFICES ASSUME IInv, NEW p \in Procs, pc[p] = "own"
               PROVE  buf[mine[p]].holder = p /\ buf[mine[p]].data = last[buf[mine[p]].blockno]
    BY DEF ReadsLastStore
  <2>1. mine[p] \in Bufs
    BY DEF IInv, TypeOK
  <2> QED
    BY <2>1 DEF IInv, Held, Coherent
<1> QED
  BY <1>1, Invariance, PTL

(* bget() never panics for want of a buffer (bio.c:92) when there are as many
   buffers as processes and logged blocks together.                         *)
THEOREM BufferTheorem == Spec => []AlwaysABuffer
<1>1. IInv => AlwaysABuffer
  BY DEF IInv, AlwaysABuffer
<1> QED
  BY <1>1, Invariance, PTL
=============================================================================
