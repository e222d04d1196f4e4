-------------------------------- MODULE Disk --------------------------------
(***************************************************************************)
(* The buffer cache (bio.c) and the disk driver under it (ide.c).          *)
(*                                                                         *)
(* bget() and brelse() change the cache under bcache.lock, iderw() and     *)
(* ideintr() change the queue under idelock; each such section is a step.  *)
(* A process may do what the callers of bread() do with a buffer: change   *)
(* it and log_write() it, change it and bwrite() it, bwrite() a logged one *)
(* (install_trans), and brelse() it.  The sleep lock of a buffer is its    *)
(* holder: BlockingLock is about sleep locks.                              *)
(***************************************************************************)
EXTENDS Integers, Sequences, FiniteSetsExt

CONSTANTS Procs, Blocks,
          Stores,   \* what may be stored into each block
          NBUF,     \* buffers of the cache
          MaxDirty  \* logged blocks at a time, which begin_op() bounds

ASSUME Enough ==
    /\ IsFiniteSet(Procs) /\ NBUF \in Nat /\ MaxDirty \in Nat
    /\ NBUF >= MaxDirty + Cardinality(Procs)

Bufs == 1 .. NBUF
NoBlock == 0
NoData == 1
None == "none"
NoPanic == ""
Values == Blocks \cup {NoData} \cup (UNION Range(Stores))

ASSUME Names == NoBlock \notin Blocks /\ None \notin Procs /\ DOMAIN Stores = Blocks

VARIABLES buf,      \* bcache.buf; holder is who has the sleep lock
          lru,      \* the list from bcache.head.next on
          idequeue, \* requests, the active one first
          device,   \* the command that the drive is at
          disk,     \* the blocks of the disk
          pc, mine, \* what each process does, and with which buffer
          last,     \* what was last stored into each block
          panic

vars == <<buf, lru, idequeue, device, disk, pc, mine, last, panic>>

Idle == [busy |-> FALSE]

Buffer == [blockno : Blocks \cup {NoBlock}, valid : BOOLEAN, dirty : BOOLEAN,
           refcnt : 0 .. Cardinality(Procs), data : Values, holder : Procs \cup {None}]

TypeOK ==
    /\ buf \in [Bufs -> Buffer]
    /\ lru \in Seq(Bufs) /\ Range(lru) = Bufs /\ idequeue \in Seq(Bufs)
    /\ device \in {Idle} \cup [busy : {TRUE}, done : BOOLEAN, write : BOOLEAN,
                              blockno : Blocks, data : Values]
    /\ disk \in [Blocks -> Values] /\ last \in [Blocks -> Values]
    /\ mine \in [Procs -> Bufs]
    /\ pc \in [Procs -> {"user", "lock", "iderw", "sleep", "woken", "own", "brelse"}]

(* binit() puts each buffer in front of the ones before it. *)
Init ==
    /\ disk = [k \in Blocks |-> k] /\ last = disk
    /\ buf = [b \in Bufs |-> [blockno |-> NoBlock, valid |-> FALSE, dirty |-> FALSE,
                              refcnt |-> 0, data |-> NoData,
                              holder |-> None]]
    /\ lru = [k \in Bufs |-> NBUF + 1 - k]
    /\ idequeue = <<>> /\ device = Idle
    /\ pc = [p \in Procs |-> "user"] /\ mine = [p \in Procs |-> 1]
    /\ panic = NoPanic

Go(p, from, to) == panic = NoPanic /\ pc[p] = from /\ pc' = [pc EXCEPT ![p] = to]

(* Fault: a logged buffer is recycled like any other. *)
RecyclableDirty(b) == buf[b].refcnt = 0

Recyclable(b) == buf[b].refcnt = 0 /\ ~buf[b].dirty

(* What a recycled buffer held is not told apart: it has NoData until the disk
   has filled it in. *)
bget(p, k) ==
    LET cached == {b \in Bufs : buf[b].blockno = k}
        unused == {i \in DOMAIN lru : Recyclable(lru[i])}
        b == IF cached # {} THEN CHOOSE c \in cached : TRUE ELSE lru[Max(unused)]
    IN /\ Go(p, "user", "lock")
       /\ IF cached = {} /\ unused = {}
          THEN panic' = "bget: no buffers" /\ UNCHANGED <<buf, mine>>
          ELSE /\ mine' = [mine EXCEPT ![p] = b]
               /\ buf' = IF cached # {} THEN [buf EXCEPT ![b].refcnt = @ + 1]
                         ELSE [buf EXCEPT ![b].blockno = k, ![b].valid = FALSE,
                                          ![b].dirty = FALSE, ![b].refcnt = 1,
                                          ![b].data = NoData]
               /\ panic' = panic
       /\ UNCHANGED <<lru, idequeue, device, disk, last>>

(* acquiresleep() at the end of bget(), and bread()'s test of B_VALID. *)
bread(p) ==
    LET b == mine[p]
    IN /\ buf[b].holder = None
       /\ Go(p, "lock", IF buf[b].valid THEN "own" ELSE "iderw")
       /\ buf' = [buf EXCEPT ![b].holder = p]
       /\ UNCHANGED <<lru, idequeue, device, disk, mine, last, panic>>

(* The command takes the data of a write with it. *)
idestart(b) == [busy |-> TRUE, done |-> FALSE, write |-> buf[b].dirty,
                blockno |-> buf[b].blockno, data |-> buf[b].data]

iderw(p) ==
    LET b == mine[p]
    IN /\ Go(p, "iderw", "sleep")
       /\ idequeue' = Append(idequeue, b)
       /\ device' = IF idequeue = <<>> THEN idestart(b) ELSE device
       /\ UNCHANGED <<buf, lru, disk, mine, last, panic>>

(* The drive. *)
drive ==
    /\ device.busy /\ ~device.done
    /\ device' = [device EXCEPT !.done = TRUE,
                                !.data = IF device.write THEN @ ELSE disk[device.blockno]]
    /\ disk' = IF device.write THEN [disk EXCEPT ![device.blockno] = device.data] ELSE disk
    /\ UNCHANGED <<buf, lru, idequeue, pc, mine, last, panic>>

Woken(b) == [p \in Procs |-> IF pc[p] = "sleep" /\ mine[p] = b THEN "woken" ELSE pc[p]]

(* Fault: the next request is not started. *)
ideintrStops ==
    LET b == Head(idequeue)
    IN /\ panic = NoPanic /\ device.busy /\ device.done
       /\ idequeue' = Tail(idequeue)
       /\ buf' = [buf EXCEPT ![b].data = IF buf[b].dirty THEN buf[b].data ELSE device.data,
                             ![b].valid = TRUE, ![b].dirty = FALSE]
       /\ pc' = Woken(b)
       /\ device' = Idle
       /\ UNCHANGED <<lru, disk, mine, last, panic>>

ideintr ==
    LET b == Head(idequeue)
    IN /\ panic = NoPanic /\ device.busy /\ device.done
       /\ idequeue' = Tail(idequeue)
       /\ buf' = [buf EXCEPT ![b].data = IF buf[b].dirty THEN buf[b].data ELSE device.data,
                             ![b].valid = TRUE, ![b].dirty = FALSE]
       /\ pc' = Woken(b)
       /\ device' = IF Tail(idequeue) = <<>> THEN Idle ELSE idestart(idequeue[2])
       /\ UNCHANGED <<lru, disk, mine, last, panic>>

(* kill() makes a sleeper runnable; iderw() goes back to sleep. *)
kill(p) ==
    /\ Go(p, "sleep", "woken")
    /\ UNCHANGED <<buf, lru, idequeue, device, disk, mine, last, panic>>

iderw_wake(p) ==
    LET b == buf[mine[p]]
    IN /\ Go(p, "woken", IF b.valid /\ ~b.dirty THEN "own" ELSE "sleep")
       /\ UNCHANGED <<buf, lru, idequeue, device, disk, mine, last, panic>>

Dirty == {b \in Bufs : buf[b].dirty}

(* The holder changes the block and calls log_write(). *)
log_write(p, v) ==
    LET b == mine[p]
    IN /\ Go(p, "own", "own") /\ v \in Stores[buf[b].blockno]
       /\ Cardinality(Dirty \cup {b}) <= MaxDirty
       /\ buf' = [buf EXCEPT ![b].data = v, ![b].dirty = TRUE]
       /\ last' = [last EXCEPT ![buf[b].blockno] = v]
       /\ UNCHANGED <<lru, idequeue, device, disk, mine, panic>>

(* The holder changes the block, or leaves it, and calls bwrite(). *)
bwrite(p, v) ==
    LET b == mine[p]
    IN /\ Go(p, "own", "iderw") /\ v \in Stores[buf[b].blockno]
       /\ buf' = [buf EXCEPT ![b].data = v, ![b].dirty = TRUE]
       /\ last' = [last EXCEPT ![buf[b].blockno] = v]
       /\ UNCHANGED <<lru, idequeue, device, disk, mine, panic>>

brelse(p) ==
    /\ Go(p, "own", "brelse")
    /\ buf' = [buf EXCEPT ![mine[p]].holder = None]
    /\ UNCHANGED <<lru, idequeue, device, disk, mine, last, panic>>

(* A buffer is unlinked and put at the head of the list. *)
ToFront(s, b) ==
    LET k == CHOOSE i \in DOMAIN s : s[i] = b
    IN <<b>> \o (SubSeq(s, 1, k - 1) \o SubSeq(s, k + 1, Len(s)))

(* Fault: the count is taken down only when nobody waits. *)
brelse_unrefKeeps(p) ==
    LET b == mine[p]
    IN /\ Go(p, "brelse", "user")
       /\ buf' = IF buf[b].refcnt = 1 THEN [buf EXCEPT ![b].refcnt = 0] ELSE buf
       /\ lru' = lru /\ mine' = [mine EXCEPT ![p] = 1]
       /\ UNCHANGED <<idequeue, device, disk, last, panic>>

(* The second half of brelse(), under bcache.lock. *)
brelse_unref(p) ==
    LET b == mine[p]
    IN /\ Go(p, "brelse", "user")
       /\ buf' = [buf EXCEPT ![b].refcnt = @ - 1]
       /\ lru' = IF buf[b].refcnt = 1 THEN ToFront(lru, b) ELSE lru
       /\ mine' = [mine EXCEPT ![p] = 1]
       /\ UNCHANGED <<idequeue, device, disk, last, panic>>

Next ==
    \/ \E p \in Procs :
          \/ \E k \in Blocks : bget(p, k)
          \/ bread(p) \/ iderw(p) \/ iderw_wake(p) \/ kill(p)
          \/ \E v \in Values : log_write(p, v) \/ bwrite(p, v)
          \/ brelse(p) \/ brelse_unref(p)
    \/ drive \/ ideintr

Spec ==
    /\ Init /\ [][Next]_vars
    /\ WF_vars(drive) /\ WF_vars(ideintr)
    /\ \A p \in Procs : WF_vars(iderw(p)) /\ WF_vars(iderw_wake(p))

-----------------------------------------------------------------------------
(* Whoever has a buffer from bread() sees what was last stored into the block,
   by whichever process, and however often the buffer was recycled in between
   (bio.c:62-106, ide.c:111-129).                                          *)
ReadsLastStore ==
    panic = NoPanic => \A p \in Procs : pc[p] = "own" =>
       buf[mine[p]].holder = p /\ buf[mine[p]].data = last[buf[mine[p]].blockno]

(* There is a buffer for everybody as long as the logged blocks leave one per
   process (bio.c:92).                                                     *)
AlwaysABuffer == panic = NoPanic

(* A request to the disk is served, and its process goes on: no completion is
   missed, whatever else is queued and whoever is killed (ide.c:117-165).  *)
RequestServed == \A p \in Procs : pc[p] = "iderw" ~> pc[p] = "own"

-----------------------------------------------------------------------------
(* What these rest on.  refcnt counts the processes that have the buffer, and
   a block is in one buffer at most.                                       *)
Users(b) == {p \in Procs : mine[p] = b /\ pc[p] # "user"}

Counted ==
    /\ \A b \in Bufs : buf[b].refcnt = Cardinality(Users(b))
    /\ \A b \in Bufs : Users(b) # {} \/ buf[b].valid => buf[b].blockno # NoBlock
    /\ \A b, c \in Bufs : buf[b].blockno = buf[c].blockno => b = c \/ buf[b].blockno = NoBlock

(* A buffer is held by who got it from bread(); while a request is queued, its
   process waits.                                                          *)
InRequest == {"iderw", "sleep", "woken"}

Held ==
    /\ \A p \in Procs : pc[p] \in InRequest \cup {"own"} => buf[mine[p]].holder = p
    /\ \A b \in Bufs : LET p == buf[b].holder
                       IN p # None => mine[p] = b /\ pc[p] \in InRequest \cup {"own"}
    /\ \A p \in Procs : pc[p] = "own" => buf[mine[p]].valid
    /\ \A p \in Procs : pc[p] = "iderw" => buf[mine[p]].dirty \/ ~buf[mine[p]].valid

Queued ==
    /\ IsInjective(idequeue)
    /\ \A i \in DOMAIN idequeue :
          LET b == buf[idequeue[i]]
          IN b.holder # None /\ pc[b.holder] \in {"sleep", "woken"} /\ (b.dirty \/ ~b.valid)

(* The drive is at the first request, and has read or written its block. *)
AtFirst ==
    /\ device.busy <=> idequeue # <<>>
    /\ device.busy =>
          LET b == buf[Head(idequeue)]
          IN /\ device.write = b.dirty /\ device.blockno = b.blockno
             /\ device.write => device.data = b.data
             /\ device.done => device.data = disk[device.blockno]

(* A valid buffer has what was last stored, and the disk has it unless the
   block is in a dirty buffer.                                             *)
Coherent ==
    /\ \A b \in Bufs : buf[b].dirty => buf[b].valid
    /\ \A b \in Bufs : buf[b].valid => buf[b].data = last[buf[b].blockno]
    /\ \A k \in Blocks :
          disk[k] = last[k] \/ \E b \in Bufs : buf[b].blockno = k /\ buf[b].dirty

(* Dirty buffers that nobody is writing. *)
Logged == {b \in Dirty : \A p \in Procs : buf[b].holder = p => pc[p] \notin InRequest}

IInv ==
    /\ panic = NoPanic /\ TypeOK /\ Counted /\ Held /\ Queued /\ AtFirst /\ Coherent
    /\ Cardinality(Logged) <= MaxDirty
=============================================================================
