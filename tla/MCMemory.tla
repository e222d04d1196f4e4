------------------------------ MODULE MCMemory ------------------------------
(* Programs for exec(): a page; two segments, the second unaligned; a file
   that is too short; one with more data than memory.                                                      *)
EXTENDS Memory

Seg(vaddr, memsz, filesz, read) ==
    [vaddr |-> vaddr, memsz |-> memsz, filesz |-> filesz, read |-> read]

MCGrows == {3, -2, 20}

MCPrograms == {<<Seg(0, 2, 2, TRUE)>>,
               <<Seg(0, 1, 1, TRUE), Seg(1, 1, 0, TRUE)>>,
               <<Seg(0, 1, 2, TRUE)>>}

(* malloc() and free() on top of sbrk().  The property has no variables: it is
   evaluated in the initial state.                                         *)
User == INSTANCE Heap WITH HEADER <- 2, MinUnits <- 4, HeapLimit <- 14,
                           HeapUINT <- 64, Requests <- {0, 1, 3, 4, 9, 63}, HeapCalls <- 6

(* The blocks of a program and of its free list divide the heap, and a block has
   the bytes it was asked for (umalloc.c).                                 *)
HeapSound == ncalls = 0 => User!HeapSound
=============================================================================
