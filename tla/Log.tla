-------------------------------- MODULE Log ---------------------------------
(***************************************************************************)
(* The redo log of log.c over the buffer cache, with crashes.  A step is   *)
(* one disk write or one critical section under log.lock, and the machine  *)
(* may stop between any two of them and run recover_from_log() again.      *)
(*                                                                         *)
(* A block of 512 bytes is one sector, so the write of one block, the log  *)
(* header included, happens or does not.  The cache is the value a bread() *)
(* of the block would return; a clean, unreferenced buffer can be recycled *)
(* at any time and read back from the disk (Evict).  The blocks an         *)
(* operation writes are any, at most MAXOPBLOCKS calls of log_write.       *)
(***************************************************************************)
EXTENDS Integers, Sequences, FiniteSets

CONSTANTS Procs, Blocks, Values,
          MAXOPBLOCKS,  \* log_writes of one operation (param.h:10)
          LOGSIZE,      \* param.h:11
          nlog          \* sb.nlog: blocks of the log area, header included

ASSUME SizesAssumption ==
    /\ MAXOPBLOCKS \in Nat \ {0}
    /\ LOGSIZE \in Nat /\ MAXOPBLOCKS <= LOGSIZE
    /\ nlog \in Nat \ {0}

ASSUME SetsAssumption == IsFiniteSet(Procs) /\ IsFiniteSet(Blocks)

Nobody == "nobody"
NoBlock == "noblock"

ASSUME NamesAssumption == Nobody \notin Procs /\ NoBlock \notin Blocks

VARIABLES disk,    \* home locations, on disk
          logblk,  \* data blocks of the log, on disk
          head,    \* block[0..n-1] of the header, on disk
          cache,   \* contents of the buffers
          dirty,   \* blocks whose buffer has B_DIRTY
          lh,      \* log.lh.block[0..n-1]
          phase,   \* where the committer or the recovery is
          tail,    \* its loop index
          pc,      \* per process: outside, asleep in begin_op, or inside
          hold,    \* per process: the buffer it has locked and modified
          used     \* per process: log_writes of its operation so far

diskVars == <<disk, logblk, head>>
opVars == <<pc, hold, used>>
vars == <<disk, logblk, head, cache, dirty, lh, phase, tail, pc, hold, used>>

Phases == {"recover", "reinstall",       \* recover_from_log()
           "run",                        \* log.committing = 0
           "log", "install", "done",     \* log.committing = 1
           "panic"}

(* The header is the first of the nlog blocks. *)
LogSlots == 1 .. nlog - 1

TypeOK ==
    /\ disk \in [Blocks -> Values] /\ cache \in [Blocks -> Values]
    /\ logblk \in [LogSlots -> Values]
    /\ head \in Seq(Blocks) /\ lh \in Seq(Blocks)
    /\ Len(lh) < nlog /\ Len(head) < nlog
    /\ dirty \in SUBSET Blocks
    /\ phase \in Phases
    /\ tail \in 1 .. nlog
    /\ pc \in [Procs -> {"out", "asleep", "in"}]
    /\ hold \in [Procs -> Blocks \cup {NoBlock}]
    /\ used \in [Procs -> 0 .. MAXOPBLOCKS]

(* A file system made by mkfs: the log is empty. *)
Init ==
    /\ disk \in [Blocks -> Values]
    /\ logblk \in [LogSlots -> Values]
    /\ \A i, j \in LogSlots : logblk[i] = logblk[j]
    /\ head = <<>>
    /\ cache = disk
    /\ dirty = {}
    /\ lh = <<>>
    /\ phase = "recover"
    /\ tail = 1
    /\ pc = [p \in Procs |-> "out"]
    /\ hold = [p \in Procs |-> NoBlock]
    /\ used = [p \in Procs |-> 0]

Logged(h) == {h[i] : i \in 1 .. Len(h)}

active == {p \in Procs : pc[p] = "in"}

outstanding == Cardinality(active)

Committing == phase \in {"log", "install", "done"}

(* wakeup(&log) *)
Awake(s) == [p \in Procs |-> IF s[p] = "asleep" THEN "out" ELSE s[p]]

-----------------------------------------------------------------------------
(* begin_op() *)

(* Fault: the space for the operation itself is not counted. *)
HasRoomForOthers == Len(lh) + outstanding * MAXOPBLOCKS <= LOGSIZE

HasRoom == Len(lh) + (outstanding + 1) * MAXOPBLOCKS <= LOGSIZE

BeginOp(p) ==
    /\ phase = "run"
    /\ pc[p] = "out"
    /\ HasRoom
    /\ pc' = [pc EXCEPT ![p] = "in"]
    /\ UNCHANGED <<diskVars, cache, dirty, lh, phase, tail, hold, used>>

BeginOpSleep(p) ==
    /\ phase = "run" \/ Committing
    /\ pc[p] = "out"
    /\ Committing \/ ~HasRoom
    /\ pc' = [pc EXCEPT ![p] = "asleep"]
    /\ UNCHANGED <<diskVars, cache, dirty, lh, phase, tail, hold, used>>

-----------------------------------------------------------------------------
(* The body of an operation: bread, modify, log_write, brelse. *)

Modify(p, b, v) ==
    /\ phase = "run"
    /\ pc[p] = "in"
    /\ hold[p] = NoBlock
    /\ used[p] < MAXOPBLOCKS
    /\ \A q \in Procs : hold[q] # b
    /\ hold' = [hold EXCEPT ![p] = b]
    /\ cache' = [cache EXCEPT ![b] = v]
    /\ UNCHANGED <<diskVars, dirty, lh, phase, tail, pc, used>>

(* log_write()'s first test, before it looks whether b is logged already. *)
TooBig == Len(lh) >= LOGSIZE \/ Len(lh) >= nlog - 1

log_write(p) ==
    /\ phase = "run"
    /\ hold[p] # NoBlock
    /\ ~TooBig
    /\ lh' = IF hold[p] \in Logged(lh) THEN lh ELSE Append(lh, hold[p])
    /\ dirty' = dirty \cup {hold[p]}
    /\ used' = [used EXCEPT ![p] = @ + 1]
    /\ hold' = [hold EXCEPT ![p] = NoBlock]
    /\ UNCHANGED <<diskVars, cache, phase, tail, pc>>

(* panic("too big a transaction"): only a restart leads on. *)
log_write_panic(p) ==
    /\ phase = "run"
    /\ hold[p] # NoBlock
    /\ TooBig
    /\ phase' = "panic"
    /\ UNCHANGED <<diskVars, cache, dirty, lh, tail, opVars>>

(* bget() recycles the buffer of b and a later bread() reads it again. *)
Evict(b) ==
    /\ phase # "panic"
    /\ b \notin dirty
    /\ \A p \in Procs : hold[p] # b
    /\ cache' = [cache EXCEPT ![b] = disk[b]]
    /\ UNCHANGED <<diskVars, dirty, lh, phase, tail, opVars>>

-----------------------------------------------------------------------------
(* end_op() and commit() *)

(* Fault: the caller that does not commit wakes nobody, and the one that
   should commit returns at once.                                          *)
EndOpNoCommit(p) ==
    /\ phase = "run"
    /\ pc[p] = "in"
    /\ hold[p] = NoBlock
    /\ pc' = [pc EXCEPT ![p] = "out"]
    /\ used' = [used EXCEPT ![p] = 0]
    /\ UNCHANGED <<diskVars, cache, dirty, lh, phase, tail, hold>>

EndOp(p) ==
    /\ phase = "run"
    /\ pc[p] = "in"
    /\ hold[p] = NoBlock
    /\ IF active = {p}
       THEN /\ phase' = "log"
            /\ tail' = 1
            /\ pc' = [pc EXCEPT ![p] = "out"]
       ELSE /\ pc' = Awake([pc EXCEPT ![p] = "out"])
            /\ UNCHANGED <<phase, tail>>
    /\ used' = [used EXCEPT ![p] = 0]
    /\ UNCHANGED <<diskVars, cache, dirty, lh, hold>>

write_log ==
    /\ phase = "log"
    /\ tail <= Len(lh)
    /\ logblk' = [logblk EXCEPT ![tail] = cache[lh[tail]]]
    /\ tail' = tail + 1
    /\ UNCHANGED <<disk, head, cache, dirty, lh, phase, opVars>>

(* Fault: the header is written before the blocks. *)
write_head_first ==
    /\ phase = "log"
    /\ lh # <<>>
    /\ head' = lh
    /\ phase' = "install"
    /\ tail' = 1
    /\ UNCHANGED <<disk, logblk, cache, dirty, lh, opVars>>

(* "the real commit" *)
write_head ==
    /\ phase = "log"
    /\ lh # <<>>
    /\ tail > Len(lh)
    /\ head' = lh
    /\ phase' = "install"
    /\ tail' = 1
    /\ UNCHANGED <<disk, logblk, cache, dirty, lh, opVars>>

(* One round of the loop, in commit() and in recover_from_log(). *)
install_trans ==
    /\ phase \in {"install", "reinstall"}
    /\ tail <= Len(lh)
    /\ disk' = [disk EXCEPT ![lh[tail]] = logblk[tail]]
    /\ cache' = [cache EXCEPT ![lh[tail]] = logblk[tail]]
    /\ dirty' = dirty \ {lh[tail]}
    /\ tail' = tail + 1
    /\ UNCHANGED <<logblk, head, lh, phase, opVars>>

(* log.lh.n = 0; write_head() *)
erase_head ==
    /\ phase \in {"install", "reinstall"}
    /\ tail > Len(lh)
    /\ lh' = <<>>
    /\ head' = <<>>
    /\ phase' = IF phase = "install" THEN "done" ELSE "run"
    /\ UNCHANGED <<disk, logblk, cache, dirty, tail, opVars>>

(* Fault: no wakeup(&log) after the commit. *)
commit_done_silent ==
    /\ phase = "done" \/ (phase = "log" /\ lh = <<>>)
    /\ phase' = "run"
    /\ UNCHANGED <<diskVars, cache, dirty, lh, tail, opVars>>

(* The end of end_op(), reached at once when nothing was logged. *)
commit_done ==
    /\ phase = "done" \/ (phase = "log" /\ lh = <<>>)
    /\ phase' = "run"
    /\ pc' = Awake(pc)
    /\ UNCHANGED <<diskVars, cache, dirty, lh, tail, hold, used>>

-----------------------------------------------------------------------------
(* Crash and recovery *)

(* Memory is gone; what a bread() returns is what the disk holds. *)
Crash ==
    /\ cache' = disk
    /\ dirty' = {}
    /\ lh' = <<>>
    /\ phase' = "recover"
    /\ tail' = 1
    /\ pc' = [p \in Procs |-> "out"]
    /\ hold' = [p \in Procs |-> NoBlock]
    /\ used' = [p \in Procs |-> 0]
    /\ UNCHANGED diskVars

read_head ==
    /\ phase = "recover"
    /\ lh' = head
    /\ phase' = "reinstall"
    /\ UNCHANGED <<diskVars, cache, dirty, tail, opVars>>

-----------------------------------------------------------------------------
CommitStep == write_log \/ write_head \/ install_trans \/ erase_head
                \/ commit_done \/ read_head

OpStep(p) == log_write(p) \/ EndOp(p)

Next ==
    \/ \E p \in Procs :
          \/ BeginOp(p) \/ BeginOpSleep(p) \/ OpStep(p) \/ log_write_panic(p)
          \/ \E b \in Blocks, v \in Values : Modify(p, b, v)
    \/ \E b \in Blocks : Evict(b)
    \/ CommitStep
    \/ Crash

SafeSpec == Init /\ [][Next]_vars

(* The committer and the recovery run on, and a process inside an operation
   writes its block and reaches end_op().                                  *)
Fairness ==
    /\ WF_vars(CommitStep)
    /\ \A p \in Procs : SF_vars(EndOp(p))
                       /\ WF_vars(log_write(p) \/ log_write_panic(p))

Spec == SafeSpec /\ Fairness

-----------------------------------------------------------------------------
(* Properties *)

(* What recovery makes of the disk: the home blocks, overwritten by the
   logged ones if the header says that they are committed.                 *)
Replay(d, l, h) ==
    [b \in Blocks |->
       IF b \in Logged(h)
       THEN l[CHOOSE i \in 1 .. Len(h) : h[i] = b]
       ELSE d[b]]

stable == Replay(disk, logblk, head)

mem == IF phase \in {"recover", "reinstall"} THEN stable ELSE cache

Abs == INSTANCE AtomicDisk

(* The log implements an atomic disk: whenever the machine stops, in commit()
   or in recovery itself, the file system comes back in a state in which no
   system call was half done (log.c:11-14, log.c:98-100).                  *)
ImplementsAtomicDisk == Abs!AbsSpec

(* Once the last active system call has returned from end_op() nothing can
   be lost: a crash gives back what is in the cache (log.c:143-174).       *)
QuiescentDurable == phase = "run" /\ active = {} => stable = cache

(* A process asleep in begin_op() has somebody to wake it: an operation that
   has yet to end or a commit under way (log.c:129-134, 156-160, 170).     *)
SleeperHasWaker ==
    \A p \in Procs : pc[p] = "asleep" => Committing \/ active # {}
                                           \/ phase = "panic"

(* The log_writes that the active operations may still make. *)
Reserved == {t \in active \X (1 .. MAXOPBLOCKS) : t[2] > used[t[1]]}

(* What begin_op() admits fits into LOGSIZE blocks: those logged so far, by
   whoever, and all that the active operations may still log (log.c:132).  *)
Reservation == phase = "run" => Len(lh) + Cardinality(Reserved) <= LOGSIZE

(* Holds if the area has LOGSIZE blocks besides the header, which mkfs.c:25
   does not provide: operations of at most MAXOPBLOCKS log_writes never run
   into "too big a transaction" (log.c:218), LOGSIZE being the "max data
   blocks in on-disk log" (param.h:11).                                    *)
TransactionFits == phase # "panic"

(* begin_op() does not sleep for ever, unless log_write() panics: end_op() and
   commit() wake it (log.c:158, 170).                                      *)
BeginOpWakes ==
    \A p \in Procs : pc[p] = "asleep" ~> pc[p] # "asleep" \/ phase = "panic"

-----------------------------------------------------------------------------
(* The invariant that steps preserve. *)

Distinct(h) == \A i, j \in 1 .. Len(h) : h[i] = h[j] => i = j

(* Log absorption: no block is logged twice, in memory or on disk. *)
Absorbed == Distinct(lh) /\ Distinct(head)

(* A clean buffer that nobody is changing agrees with the disk, and a dirty
   one is in the log, still to be installed.                               *)
CacheMatchesDisk ==
    /\ \A b \in Blocks \ dirty :
          (\A p \in Procs : hold[p] # b) => cache[b] = disk[b]
    /\ \A b \in dirty : \E i \in 1 .. Len(lh) :
          lh[i] = b /\ (phase = "install" => i >= tail)
    /\ phase \in {"recover", "reinstall", "done"} => dirty = {}

(* The header names blocks only while they are being installed. *)
HeaderMatchesPhase ==
    /\ phase \in {"run", "log", "done", "panic"} => head = <<>>
    /\ phase \in {"install", "reinstall"} => head = lh
    /\ phase \in {"recover", "done"} => lh = <<>>
    /\ phase = "recover" => tail = 1

(* How far the loops of write_log() and install_trans() have come. *)
LoopProgress ==
    /\ phase \in {"log", "install", "reinstall"} => tail <= Len(lh) + 1
    /\ phase = "log" => \A i \in 1 .. tail - 1 : logblk[i] = cache[lh[i]]
    /\ phase = "install" => \A i \in 1 .. Len(lh) : logblk[i] = cache[lh[i]]
    /\ phase \in {"install", "reinstall"} =>
          \A i \in 1 .. tail - 1 : disk[lh[i]] = logblk[i]

(* Operations run only in phase "run"; the last one to end commits. *)
OperationsInRun ==
    /\ \A p \in Procs : hold[p] # NoBlock => pc[p] = "in" /\ used[p] < MAXOPBLOCKS
    /\ active # {} => phase \in {"run", "panic"}
    /\ phase = "run" /\ active = {} => lh = <<>>

IInv ==
    /\ TypeOK
    /\ Absorbed
    /\ CacheMatchesDisk
    /\ HeaderMatchesPhase
    /\ LoopProgress
    /\ OperationsInRun
    /\ SleeperHasWaker
    /\ Reservation
=============================================================================
