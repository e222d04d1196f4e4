----------------------------- MODULE AtomicDisk -----------------------------
(***************************************************************************)
(* What the logging layer (log.c) promises the file system: a disk whose   *)
(* blocks survive a crash with the values they had at some moment at which *)
(* no file system call was active.  No call is ever half on the disk.      *)
(***************************************************************************)
EXTENDS FiniteSets

CONSTANTS Procs, Blocks, Values

VARIABLES active,  \* processes between begin_op and end_op
          mem,     \* what the file system reads
          stable   \* what it will read after a crash

absVars == <<active, mem, stable>>

AbsInit ==
    /\ active = {}
    /\ mem \in [Blocks -> Values]
    /\ stable = mem

AbsBegin(p) ==
    /\ p \notin active
    /\ active' = active \cup {p}
    /\ UNCHANGED <<mem, stable>>

AbsWrite(p, b, v) ==
    /\ p \in active
    /\ mem' = [mem EXCEPT ![b] = v]
    /\ UNCHANGED <<active, stable>>

AbsEnd(p) ==
    /\ p \in active
    /\ active' = active \ {p}
    /\ UNCHANGED <<mem, stable>>

AbsCommit ==
    /\ active = {}
    /\ stable' = mem
    /\ UNCHANGED <<active, mem>>

AbsCrash ==
    /\ active' = {}
    /\ mem' = stable
    /\ UNCHANGED stable

AbsNext ==
    \/ \E p \in Procs : AbsBegin(p) \/ AbsEnd(p)
    \/ \E p \in Procs, b \in Blocks, v \in Values : AbsWrite(p, b, v)
    \/ AbsCommit
    \/ AbsCrash

AbsSpec == AbsInit /\ [][AbsNext]_absVars
=============================================================================
