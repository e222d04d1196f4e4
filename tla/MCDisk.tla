------------------------------- MODULE MCDisk -------------------------------
(* One block is written, and four compete for three buffers. *)
EXTENDS Disk

MCStores == <<{1, 9}, {}, {}, {}>>
=============================================================================
