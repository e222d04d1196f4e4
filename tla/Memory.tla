------------------------------- MODULE Memory -------------------------------
(***************************************************************************)
(* Physical memory and address spaces: the page allocator (kalloc.c), page *)
(* tables (vm.c), and the system calls that use them: fork, exit, wait,    *)
(* sbrk, exec, and the shared memory regions of open_shm and C.            *)
(*                                                                         *)
(* kalloc() and kfree() run under kmem.lock, and processes on other CPUs   *)
(* take pages in between: each kalloc() of a system call is a step of its  *)
(* own.  Giving pages back never stops anybody else, so all the kfree()s   *)
(* of one call are one step.  Pages differ only by name: kalloc() takes    *)
(* the first free one.  Sizes count units, PGSIZE to a page.               *)
(***************************************************************************)
EXTENDS Integers, Sequences, FiniteSets, Functions, FiniteSetsExt, SequencesExt

CONSTANTS NPROC,       \* slots of the process table; slot 1 is init
          PGSIZE,      \* units of a page
          end,         \* the first unit of memory after the kernel
          MID,         \* where kinit1() stops and kinit2() goes on
          PHYSTOP,     \* the end of physical memory
          KERNBASE,    \* user pages are 0 .. KERNBASE - 1
          NPTENTRIES,  \* entries of a page table
          NKPT,        \* page tables for the kernel's mappings
          UINT,        \* a uint is less than UINT
          Programs,    \* sequences of segments that exec() may meet
          Grows,       \* arguments of sbrk()
          MaxCalls,    \* bound on the number of system calls
          Regions      \* identifiers of shared memory

(* An int argument, and a user address, are in the lower half of a uint. *)
ASSUME IntRange == /\ KERNBASE * PGSIZE <= UINT \div 2
                   /\ \A n \in Grows : n < UINT \div 2

Slots == 1 .. NPROC
UserPages == 0 .. KERNBASE - 1
PDX(v) == v \div NPTENTRIES
PGROUNDUP(sz) == (sz + PGSIZE - 1) \div PGSIZE

(* A page table: the directory, page tables of the kernel's and of the user's
   half, and the entries.  0 is no page; entry.user is PTE_U.              *)
NoPage == [page |-> 0, user |-> FALSE]
NoPgdir == [dir |-> 0, kernel |-> {}, table |-> [d \in {PDX(v) : v \in UserPages} |-> 0],
            pte |-> [v \in UserPages |-> NoPage]]

VARIABLES free,   \* pages on kmem.freelist
          proc,   \* the process table
          job,    \* the system call that each process is in
          shm,    \* shm_table
          shared, \* has anybody opened a region?
          ncalls, \* system calls so far, at most MaxCalls
          halt    \* the panic, or the undefined behaviour, that ended it all

vars == <<free, proc, job, shm, shared, ncalls, halt>>

-----------------------------------------------------------------------------
(* kalloc.c *)

freerange(vstart, vend) ==
    {k \in PGROUNDUP(vstart) .. vend : (k + 1) * PGSIZE <= vend}

kinit == freerange(end, MID) \cup freerange(MID, PHYSTOP)

kalloc == Min(free)

(* kfree() of the pages of a sequence.  A page that is on the list already
   makes the list a cycle: the model ends there.                           *)
kfree(pages) ==
    IF IsInjective(pages) /\ Range(pages) \cap free = {}
    THEN free' = free \cup Range(pages) /\ halt' = ""
    ELSE halt' = "freed twice" /\ free' = free

-----------------------------------------------------------------------------
(* vm.c *)

(* Fault: the last, partial page is forgotten. *)
deallocuvmShort(pg, oldsz, newsz) ==
    IF newsz >= oldsz THEN {}
    ELSE {v \in UserPages : v >= PGROUNDUP(newsz) /\ (v + 1) * PGSIZE <= oldsz
                            /\ pg.table[PDX(v)] # 0 /\ pg.pte[v].page # 0}

(* The mapped pages that go when the size shrinks from oldsz to newsz. *)
deallocuvm(pg, oldsz, newsz) ==
    IF newsz >= oldsz THEN {}
    ELSE {v \in UserPages : v >= PGROUNDUP(newsz) /\ v * PGSIZE < oldsz
                            /\ pg.table[PDX(v)] # 0 /\ pg.pte[v].page # 0}

Pages(pg, vs) == [k \in 1 .. Cardinality(vs) |-> pg.pte[SetToSortSeq(vs, <)[k]].page]

Unmap(pg, vs) ==
    [pg EXCEPT !.pte = [v \in UserPages |-> IF v \in vs THEN NoPage ELSE @[v]]]

(* The pages that freevm() frees: user memory, page tables, the directory. *)
freevm(pg) ==
    LET tables == {d \in DOMAIN pg.table : pg.table[d] # 0}
    IN Pages(pg, deallocuvm(pg, KERNBASE * PGSIZE, 0))
       \o SetToSeq({pg.table[d] : d \in tables} \cup pg.kernel)
       \o (IF pg.dir = 0 THEN <<>> ELSE <<pg.dir>>)

(* walkpgdir(alloc) and mappages() of one page whose page table exists. *)
Map(pg, v, page, user) == [pg EXCEPT !.pte[v] = [page |-> page, user |-> user]]

(* What setupkvm(), and then allocuvm() or copyuvm() for user page v, have to
   allocate next for page table j.pg.                                      *)
Wants(j) ==
    CASE j.pg.dir = 0 -> "dir"
      [] Cardinality(j.pg.kernel) < NKPT -> "kernel"
      [] j.mem = 0 -> "mem"
      [] OTHER -> "table"

Give(j, page) ==
    CASE Wants(j) = "dir" -> [j EXCEPT !.pg.dir = page]
      [] Wants(j) = "kernel" -> [j EXCEPT !.pg.kernel = @ \cup {page}]
      [] Wants(j) = "mem" -> [j EXCEPT !.mem = page]
      [] Wants(j) = "table" -> [j EXCEPT !.pg.table[PDX(j.v)] = page]

(* Once the page and its page table are there, it is mapped.  A fork copies
   the flags, of page v of page table from.                                *)
Mapped(j, user) ==
    IF j.mem = 0 \/ j.pg.table[PDX(j.v)] = 0 THEN j
    ELSE [j EXCEPT !.pg = Map(@, j.v, j.mem, user), !.mem = 0, !.v = @ + 1]

Remap(j) == j.mem # 0 /\ j.pg.table[PDX(j.v)] # 0 /\ j.pg.pte[j.v].page # 0

-----------------------------------------------------------------------------
(* System calls.  A process makes one only while its text is mapped: it is
   killed by the page fault otherwise (trap.c).                            *)

NoJob == [call |-> "none"]
NoProc == [state |-> "UNUSED", kstack |-> 0, pg |-> NoPgdir, sz |-> 0, shm |-> 0]

Alive(p) == proc[p].state = "RUNNABLE"
InUser(p) == halt = "" /\ Alive(p) /\ job[p] = NoJob
Call(p) == InUser(p) /\ ncalls < MaxCalls /\ ncalls' = ncalls + 1
CanCall(p) == Call(p) /\ proc[p].pg.pte[0].user

Going == halt = "" /\ ncalls' = ncalls

(* userinit(): one page for initcode. *)
Init ==
    LET kstack == Min(kinit)
        got == [k \in 0 .. NKPT + 3 |-> kstack + k]
        pg == [Map(NoPgdir, 0, got[NKPT + 2], TRUE) EXCEPT
                  !.dir = got[1], !.kernel = {got[k + 1] : k \in 1 .. NKPT},
                  !.table[0] = got[NKPT + 3]]
    IN /\ free = kinit \ Range(got)
       /\ proc = [p \in Slots |-> IF p # 1 THEN NoProc
                    ELSE [NoProc EXCEPT !.state = "RUNNABLE", !.kstack = kstack,
                                        !.pg = pg, !.sz = PGSIZE]]
       /\ job = [p \in Slots |-> NoJob]
       /\ shm = [id \in Regions |-> [ref_count |-> 0, frame |-> 0, lock |-> 0]]
       /\ shared = FALSE /\ ncalls = 0
       /\ halt = ""

Panic(message) == halt' = message /\ UNCHANGED <<free, proc, job, shm, shared>>
EndJob(p) == job' = [job EXCEPT ![p] = NoJob]

(* A new page table is built, or one grows, until page v is past size to. *)
Building(call, pg, v, to) == [call |-> call, pg |-> pg, v |-> v, to |-> to, mem |-> 0]
Builds == {"sbrk", "fork", "exec"}
Built(j) == /\ j.pg.dir # 0 /\ Cardinality(j.pg.kernel) = NKPT
            /\ j.mem = 0 /\ j.v * PGSIZE >= j.to

growproc(p, n) ==
    LET sz == proc[p].sz
        newsz == (sz + n) % UINT
        gone == deallocuvm(proc[p].pg, sz, newsz)
    IN /\ CanCall(p) /\ p # 1
       /\ \/ /\ n > 0 /\ newsz < KERNBASE * PGSIZE
             /\ job' = [job EXCEPT ![p] = Building("sbrk", proc[p].pg, PGROUNDUP(sz), newsz)]
             /\ UNCHANGED <<free, proc, halt>>
          \/ /\ n < 0 /\ newsz < sz
             /\ kfree(Pages(proc[p].pg, gone))
             /\ proc' = [proc EXCEPT ![p].pg = Unmap(@, gone),
                                     ![p].sz = IF newsz = 0 THEN @ ELSE newsz]
             /\ job' = job
       /\ UNCHANGED <<shm, shared>>

fork(p, child) ==
    /\ CanCall(p) /\ free # {}
    /\ proc[child].state = "UNUSED"
    /\ \A c \in Slots : c < child => proc[c].state # "UNUSED"
    /\ free' = free \ {kalloc}
    /\ proc' = [proc EXCEPT ![child].state = "EMBRYO", ![child].kstack = kalloc]
    /\ job' = [job EXCEPT ![p] = [child |-> child] @@
                                 Building("fork", NoPgdir, 0, proc[p].sz)]
    /\ UNCHANGED <<shm, shared, halt>>

exec(p, segs) ==
    /\ CanCall(p)
    /\ job' = [job EXCEPT ![p] = [segs |-> segs, stage |-> "setupkvm", sz |-> 0] @@
                                 Building("exec", NoPgdir, 0, 0)]
    /\ UNCHANGED <<free, proc, shm, shared, halt>>

Grown(p) == deallocuvm(job[p].pg, job[p].to, proc[p].sz)

(* Fault: fork() forgets the kernel stack when copyuvm() fails. *)
UndoNoStack(p) ==
    LET j == job[p]
    IN (IF j.call = "sbrk" THEN Pages(j.pg, Grown(p)) ELSE freevm(j.pg))
       \o (IF j.mem = 0 THEN <<>> ELSE <<j.mem>>)

(* What a call gives back when there is no page: deallocuvm() in allocuvm(),
   "bad" in copyuvm() and exec(), the kernel stack in fork().              *)
Undo(p) ==
    LET j == job[p]
    IN (IF j.call = "sbrk" THEN Pages(j.pg, Grown(p)) ELSE freevm(j.pg))
       \o (IF j.mem = 0 THEN <<>> ELSE <<j.mem>>)
       \o (IF j.call = "fork" THEN <<proc[j.child].kstack>> ELSE <<>>)

fail(p) ==
    LET j == job[p]
    IN /\ kfree(Undo(p))
       /\ proc' = CASE j.call = "sbrk" -> [proc EXCEPT ![p].pg = Unmap(j.pg, Grown(p))]
                    [] j.call = "fork" -> [proc EXCEPT ![j.child].state = "UNUSED",
                                                       ![j.child].kstack = 0]
                    [] j.call = "exec" -> proc
       /\ EndJob(p)
       /\ UNCHANGED <<shm, shared>>

(* One kalloc() on the way, in setupkvm(), allocuvm() or copyuvm(). *)
allocuvm(p) ==
    LET j == job[p]
        source == IF j.call = "fork" THEN proc[p].pg.pte[j.v] ELSE [page |-> 1, user |-> TRUE]
        got == Give(j, kalloc)
    IN /\ Going /\ j.call \in Builds /\ ~Built(j)
       /\ IF Wants(j) = "mem" /\ source.page = 0 THEN Panic("copyuvm: page not present")
          ELSE IF free = {} THEN fail(p)
          ELSE IF Remap(got) THEN Panic("remap")
          ELSE /\ free' = free \ {kalloc}
               /\ job' = [job EXCEPT ![p] = Mapped(got, source.user)]
               /\ UNCHANGED <<proc, shm, shared, halt>>

grow_done(p) ==
    /\ Going /\ job[p].call = "sbrk" /\ Built(job[p])
    /\ proc' = [proc EXCEPT ![p].pg = job[p].pg, ![p].sz = job[p].to]
    /\ EndJob(p)
    /\ UNCHANGED <<free, shm, shared, halt>>

fork_done(p) ==
    LET j == job[p]
    IN /\ Going /\ j.call = "fork" /\ Built(j)
       /\ proc' = [proc EXCEPT ![j.child].state = "RUNNABLE", ![j.child].pg = j.pg,
                               ![j.child].sz = proc[p].sz]
       /\ EndJob(p)
       /\ UNCHANGED <<free, shm, shared, halt>>

(* exec() goes on with the next segment, or with the two pages of the stack. *)
exec_next(p) ==
    LET j == job[p]
        seg == Head(j.segs)
        newsz == IF j.segs = <<>> THEN (PGROUNDUP(j.sz) + 2) * PGSIZE
                 ELSE (seg.vaddr + seg.memsz) % UINT
        sz == IF newsz < j.sz THEN j.sz ELSE newsz
        bad == \/ j.segs # <<>> /\ (seg.memsz < seg.filesz \/ newsz < seg.vaddr)
               \/ newsz >= KERNBASE * PGSIZE \/ sz = 0
    IN IF bad THEN fail(p)
       ELSE /\ job' = [job EXCEPT ![p].sz = sz, ![p].to = sz,
                         ![p].stage = IF j.segs = <<>> THEN "stack" ELSE "segment"]
            /\ UNCHANGED <<free, proc, shm, shared, halt>>

exec_setup(p) ==
    /\ Going /\ job[p].call = "exec" /\ Built(job[p]) /\ job[p].stage = "setupkvm"
    /\ exec_next(p)

(* loaduvm() of the segment that now has its pages. *)
exec_load(p) ==
    LET seg == Head(job[p].segs)
    IN /\ Going /\ job[p].call = "exec" /\ Built(job[p]) /\ job[p].stage = "segment"
       /\ IF seg.vaddr % PGSIZE # 0 \/ ~seg.read THEN fail(p)
          ELSE /\ job' = [job EXCEPT ![p].segs = Tail(@), ![p].stage = "setupkvm"]
               /\ UNCHANGED <<free, proc, shm, shared, halt>>

clearpteu(pg, v) == [pg EXCEPT !.pte[v].user = FALSE]

(* Can len units be copied to va?  uva2ka() needs every page to be PTE_U. *)
copyout(pg, va, len) ==
    \A v \in va \div PGSIZE .. (va + len - 1) \div PGSIZE : pg.pte[v].user

(* The arguments, args units of them, go to the top of the stack. *)
exec_commit(p, args) ==
    LET j == job[p]
        pg == clearpteu(j.pg, j.sz \div PGSIZE - 2)
    IN /\ Going /\ j.call = "exec" /\ Built(j) /\ j.stage = "stack"
       /\ IF ~copyout(pg, j.sz - args, args) THEN fail(p)
          ELSE /\ kfree(freevm(proc[p].pg))
               /\ proc' = [proc EXCEPT ![p].pg = pg, ![p].sz = j.sz]
               /\ EndJob(p)
               /\ UNCHANGED <<shm, shared>>

exit(p) ==
    /\ Call(p) /\ p # 1
    /\ proc' = [proc EXCEPT ![p].state = "ZOMBIE"]
    /\ UNCHANGED <<free, job, shm, shared, halt>>

(* The parent's wait() finds the zombie.  proc->shm stays what it was. *)
wait(p) ==
    /\ Going /\ proc[p].state = "ZOMBIE"
    /\ kfree(<<proc[p].kstack>> \o freevm(proc[p].pg))
    /\ proc' = [proc EXCEPT ![p] = [NoProc EXCEPT !.shm = proc[p].shm]]
    /\ UNCHANGED <<job, shm, shared>>

-----------------------------------------------------------------------------
(* Shared memory.  open_shared_memory() runs under the lock of the region,
   close_shm() under shmlock, so the two race for ref_count.               *)

open_shm(p, id) ==
    /\ CanCall(p) /\ p # 1 /\ proc[p].shm = 0 /\ shm[id].lock = 0
    /\ shared' = TRUE
    /\ IF shm[id].ref_count = 0 /\ free = {}
       THEN halt' = "no frame" /\ UNCHANGED <<free, shm, job>>
       ELSE /\ free' = IF shm[id].ref_count = 0 THEN free \ {kalloc} ELSE free
            /\ shm' = [shm EXCEPT ![id].lock = p,
                          ![id].frame = IF shm[id].ref_count = 0 THEN kalloc ELSE @]
            /\ job' = [job EXCEPT ![p] = [call |-> "open_shm", id |-> id]]
            /\ halt' = halt
    /\ proc' = proc

(* mappages(), whose failure goes unnoticed, and the load of ref_count++. *)
open_shm_map(p) ==
    LET v == PGROUNDUP(proc[p].sz)
        id == job[p].id
        table == IF proc[p].pg.table[PDX(v)] = 0 THEN kalloc ELSE proc[p].pg.table[PDX(v)]
    IN /\ Going /\ job[p].call = "open_shm"
       /\ IF v = KERNBASE THEN Panic("remap")
          ELSE IF proc[p].pg.pte[v].page # 0 THEN Panic("remap")
          ELSE /\ IF proc[p].pg.table[PDX(v)] = 0 /\ free = {} THEN UNCHANGED <<free, proc>>
                  ELSE /\ free' = free \ {table}
                       /\ proc' = [proc EXCEPT ![p].pg = [Map(@, v, shm[id].frame, TRUE)
                                                 EXCEPT !.table[PDX(v)] = table]]
               /\ job' = [job EXCEPT ![p] = [call |-> "opening_shm", id |-> id,
                                             ref_count |-> shm[id].ref_count]]
               /\ UNCHANGED <<shm, shared, halt>>

open_shm_done(p) ==
    LET j == job[p]
    IN /\ Going /\ j.call = "opening_shm"
       /\ shm' = [shm EXCEPT ![j.id].ref_count = j.ref_count + 1, ![j.id].lock = 0]
       /\ proc' = [proc EXCEPT ![p].shm = PGROUNDUP(proc[p].sz)]
       /\ EndJob(p)
       /\ UNCHANGED <<free, shared, halt>>

close_shm(p, id) ==
    /\ CanCall(p) /\ p # 1
    /\ \A q \in Slots : job[q].call # "close_shm"
    /\ proc' = [proc EXCEPT ![p].shm = 0]
    /\ shared' = TRUE
    /\ job' = IF shm[id].ref_count = 0 THEN job
              ELSE [job EXCEPT ![p] = [call |-> "close_shm", id |-> id,
                                       ref_count |-> shm[id].ref_count]]
    /\ UNCHANGED <<free, shm, halt>>

(* The last close frees the page table of its caller, and the frame. *)
close_shm_done(p) ==
    LET j == job[p]
    IN /\ Going /\ j.call = "close_shm"
       /\ shm' = [shm EXCEPT ![j.id].ref_count = j.ref_count - 1,
                             ![j.id].frame = IF j.ref_count = 1 THEN 0 ELSE @]
       /\ IF j.ref_count # 1 THEN UNCHANGED <<free, halt>>
          ELSE LET freed == freevm(proc[p].pg) \o <<shm[j.id].frame>>
               IN /\ free' = free \cup Range(freed)
                  /\ halt' = IF IsInjective(freed) /\ Range(freed) \cap free = {}
                             THEN "page table freed" ELSE "freed twice"
       /\ EndJob(p)
       /\ UNCHANGED <<proc, shared>>

-----------------------------------------------------------------------------
Next ==
    \E p \in Slots :
       \/ \E n \in Grows : growproc(p, n)
       \/ \E child \in Slots : fork(p, child)
       \/ \E segs \in Programs : exec(p, segs)
       \/ allocuvm(p) \/ grow_done(p) \/ fork_done(p)
       \/ exec_setup(p) \/ exec_load(p)
       \/ \E args \in {1, PGSIZE + 1} : exec_commit(p, args)
       \/ exit(p) \/ wait(p)
       \/ \E id \in Regions : open_shm(p, id) \/ close_shm(p, id)
       \/ open_shm_map(p) \/ open_shm_done(p) \/ close_shm_done(p)

Spec == Init /\ [][Next]_vars

-----------------------------------------------------------------------------
(* Properties *)

(* The pages that process p holds, with those of the call it is in. *)
Held(p) ==
    LET j == job[p]
    IN (IF proc[p].kstack = 0 THEN <<>> ELSE <<proc[p].kstack>>)
       \o (IF j.call = "sbrk" THEN <<>> ELSE freevm(proc[p].pg))
       \o (IF j.call \notin Builds THEN <<>>
           ELSE freevm(j.pg) \o (IF j.mem = 0 THEN <<>> ELSE <<j.mem>>))

(* While no region has been opened, nothing panics (copyuvm() finds each page
   of its parent, mappages() no page twice) and every whole page of memory is
   free or has one holder: no page leaks or is handed out twice, whichever
   kalloc() fails and however the calls interleave (kalloc.c, allocuvm,
   copyuvm, exec and fork's ways out).                                     *)
PagesAccounted ==
    ~shared =>
       LET held == FlattenSeq([p \in Slots |-> Held(p)])
       IN /\ halt = ""
          /\ IsInjective(held) /\ Range(held) \cap free = {}
          /\ Range(held) \cup free =
                {k \in 0 .. PHYSTOP : k * PGSIZE >= end /\ (k + 1) * PGSIZE <= PHYSTOP}

(* While no region has been opened, the pages of a process outside of a call
   are those below its size, or none after sbrk(-sz); none is left mapped
   beyond it (growproc, allocuvm's failure, exec's rounding, copyuvm).     *)
MappedToSize ==
    ~shared => \A p \in Slots : InUser(p) =>
       {v \in UserPages : proc[p].pg.pte[v].page # 0}
          \in {0 .. PGROUNDUP(proc[p].sz) - 1, {}}

(* kalloc.c:56-57, on kfree(): the page "normally should have been returned by
   a call to kalloc()": no page is free and held by a process.             *)
FreePagesUnused ==
    \A p \in Slots : Range(Held(p)) \cap free = {}
=============================================================================
