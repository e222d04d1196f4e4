-------------------------------- MODULE Heap --------------------------------
(***************************************************************************)
(* The allocator of user programs (umalloc.c).  Addresses count headers    *)
(* from &base, which lies below the heap.  The circular free list is kept  *)
(* as the sequence of its blocks in the order of their s.ptr, freep first. *)
(***************************************************************************)
EXTENDS Integers, Sequences, FiniteSets, SequencesExt

CONSTANTS HEADER,     \* sizeof(Header)
          MinUnits,   \* the least that morecore() asks for, 4096
          HeapLimit,  \* sbrk() fails beyond it
          HeapUINT,   \* 2^32, scaled
          Requests,   \* arguments of malloc()
          HeapCalls   \* bound: calls of malloc() and free()

Base == 0

(* The state before the first malloc() has set up base. *)
NoHeap == [list |-> <<>>, size |-> [a \in 0 .. HeapLimit |-> 0], used |-> {}, brk |-> 1]

(* The list from its k-th block on. *)
From(list, k) == SubSeq(list, k, Len(list)) \o SubSeq(list, 1, k - 1)
NextOf(list, k) == list[IF k = Len(list) THEN 1 ELSE k + 1]

(* The first block p, from freep on, that bp comes after. *)
Place(h, bp) ==
    CHOOSE k \in DOMAIN h.list :
       LET After(j) == LET p == h.list[j] n == NextOf(h.list, j)
                       IN  \/ p < bp /\ bp < n
                           \/ p >= n /\ (bp > p \/ bp < n)
       IN  After(k) /\ \A j \in 1 .. k - 1 : ~After(j)

(* Fault: bp is not joined to the block below it. *)
freeUnjoined(h, bp) ==
    [h EXCEPT !.list = LET l == From(h.list, Place(h, bp))
                       IN  <<Head(l), bp>> \o Tail(l),
              !.used = @ \ {bp}]

(* free() joins bp to its neighbours, above and then below. *)
free(h, bp) ==
    LET l     == From(h.list, Place(h, bp))
        p     == Head(l)
        n     == NextOf(l, 1)
        above == bp + h.size[bp] = n
        rest  == IF above THEN SelectSeq(Tail(l), LAMBDA a : a # n) ELSE Tail(l)
        size1 == IF above THEN [h.size EXCEPT ![bp] = @ + h.size[n]] ELSE h.size
        below == p + size1[p] = bp
    IN  [h EXCEPT !.list = IF below THEN <<p>> \o rest ELSE <<p, bp>> \o rest,
                  !.size = IF below THEN [size1 EXCEPT ![p] = @ + size1[bp]] ELSE size1,
                  !.used = @ \ {bp}]

nunits(nbytes) == ((nbytes + HEADER - 1) % HeapUINT) \div HEADER + 1

Larger(a, b) == IF a < b THEN b ELSE a
Room(h, nu) == h.brk + Larger(nu, MinUnits) <= HeapLimit

morecore(h, nu) ==
    LET n == Larger(nu, MinUnits)
    IN  free([h EXCEPT !.size[h.brk] = n, !.brk = @ + n], h.brk)

(* The blocks after freep, and freep itself last, that are large enough. *)
Fitting(h, n) ==
    LET l == From(h.list, IF Len(h.list) = 1 THEN 1 ELSE 2)
    IN  {k \in DOMAIN l : h.size[l[k]] >= n}

(* Cut n units off the end of the first block that has them. *)
take(h, n) ==
    LET l    == From(h.list, IF Len(h.list) = 1 THEN 1 ELSE 2)
        k    == CHOOSE i \in Fitting(h, n) : \A j \in Fitting(h, n) : i <= j
        p    == l[k]
        prev == IF k = 1 THEN l[Len(l)] ELSE l[k - 1]
        left == h.size[p] - n
        rest == IF left = 0 THEN SelectSeq(l, LAMBDA a : a # p) ELSE l
    IN  [h EXCEPT !.list = From(rest, CHOOSE i \in DOMAIN rest : rest[i] = prev),
                  !.size = IF left = 0 THEN @ ELSE [@ EXCEPT ![p] = left, ![p + left] = n],
                  !.used = @ \cup {p + left}]

(* malloc(): the heap after it; a call that fails leaves its set-up. *)
malloc(h, nbytes) ==
    LET n  == nunits(nbytes)
        h0 == IF h.list = <<>> THEN [h EXCEPT !.list = <<Base>>] ELSE h
    IN  IF Fitting(h0, n) # {} THEN take(h0, n)
        ELSE IF Room(h0, n) THEN take(morecore(h0, n), n)
        ELSE h0

(* Every heap after k calls of a program that frees what it has, once. *)
Heaps[k \in 0 .. HeapCalls] ==
    IF k = 0 THEN {NoHeap}
    ELSE UNION { {malloc(h, n) : n \in Requests} \cup {free(h, bp) : bp \in h.used} :
                 h \in Heaps[k - 1] }

-----------------------------------------------------------------------------
Units(h, bp) == bp .. bp + h.size[bp] - 1

(* Whatever the order of calls, the blocks of the free list and of the program
   divide the memory from sbrk() without overlap or loss, and no two free
   blocks touch, so that memory does not break into ever smaller pieces.
   malloc(n) gives n bytes behind a header of its own whenever sbrk() can
   deliver, up to the sizes at which nunits wraps round (umalloc.c:24-90). *)
HeapSound ==
    \A k \in 0 .. HeapCalls : \A h \in Heaps[k] :
       LET Free   == Range(h.list) \ {Base}
           Blocks == Free \cup h.used
       IN  /\ UNION {Units(h, b) : b \in Blocks} = 1 .. h.brk - 1
           /\ \A a, b \in Blocks : a # b => Units(h, a) \cap Units(h, b) = {}
           /\ \A a, b \in Free : a + h.size[a] # b
           /\ Cardinality(Free \cup {Base}) = Len(h.list) \/ h.list = <<>>
           /\ \A n \in Requests :
                 LET got == malloc(h, n).used \ h.used
                 IN  n <= HeapUINT - HEADER =>
                       IF got = {} THEN ~Room(h, nunits(n))
                       ELSE \A bp \in got : (malloc(h, n).size[bp] - 1) * HEADER >= n
=============================================================================
