---------------------------- MODULE MCScheduler -----------------------------
EXTENDS Scheduler

(* Slot 2 is the newest of the two, slots 1 and 3 were created together. *)
MCCreation == <<0, 1, 0>>

(* All rank one below the limit: running once takes a process out of reach. *)
MCRank == <<0, 0, 0>>
=============================================================================
