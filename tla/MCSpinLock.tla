----------------------------- MODULE MCSpinLock -----------------------------
EXTENDS SpinLock, TLC

(* Sleepers, and the calls that break the rules. *)
MCPaths == {sys_sleep, fork, print_bitches, sys_Aquire}

ProcSymmetry == Permutations(Procs)
=============================================================================
