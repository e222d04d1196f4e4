---------------------------- MODULE AbstractLock ----------------------------
(***************************************************************************)
(* What a blocking lock of the kernel promises to its callers, whatever    *)
(* its waiting protocol is: a process asks, at some point after that it is *)
(* the one holder, and later it gives the lock back.  BlockingLock, the    *)
(* model of sleeplock.c and priority_lock.c, implements this module.       *)
(***************************************************************************)
CONSTANTS Pids, NoPid

VARIABLES wants,   \* processes inside the acquire call
          holder   \* the process that owns the lock, or NoPid

absVars == <<wants, holder>>

AbsInit ==
    /\ wants = {}
    /\ holder = NoPid

Ask(p) ==
    /\ p \notin wants \cup {holder}
    /\ wants' = wants \cup {p}
    /\ UNCHANGED holder

Grant(p) ==
    /\ p \in wants
    /\ holder = NoPid
    /\ holder' = p
    /\ wants' = wants \ {p}

GiveBack(p) ==
    /\ holder = p
    /\ holder' = NoPid
    /\ UNCHANGED wants

AbsNext == \E p \in Pids : Ask(p) \/ Grant(p) \/ GiveBack(p)

(* Some process that asked is served whenever the lock stays free.  It need
   not be any particular one: neither lock queues its waiters.             *)
AbsFairness ==
    /\ WF_absVars(\E p \in Pids : Grant(p))
    /\ WF_absVars(\E p \in Pids : GiveBack(p))

AbsSafety == AbsInit /\ [][AbsNext]_absVars

AbsSpec == AbsSafety /\ AbsFairness
=============================================================================
