-------------------------------- MODULE Fifo --------------------------------
(***************************************************************************)
(* What a pipe promises its users: a bounded first-in first-out queue of   *)
(* bytes, read in chunks.                                                  *)
(***************************************************************************)
EXTENDS Integers, Sequences

CONSTANTS Bytes, Capacity

VARIABLE q

FifoInit == q = <<>>

Put(v) == Len(q) < Capacity /\ q' = Append(q, v)

Get(k) == q' = SubSeq(q, k + 1, Len(q))

FifoNext == (\E v \in Bytes : Put(v)) \/ (\E k \in 1 .. Len(q) : Get(k))

FifoSpec == FifoInit /\ [][FifoNext]_q
=============================================================================
