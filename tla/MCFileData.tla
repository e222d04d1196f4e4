----------------------------- MODULE MCFileData -----------------------------
(* Three inodes: the root, a file made by mkfs and an empty one. *)
EXTENDS FileData

MCInodeOf == 1 :> 2 @@ 2 :> 3
MCWrites == 1 :> {<<1, 5>>, <<9, 5>>} @@ 2 :> {<<1, 7>>}
MCContents == <<<<9>>, <<5, 6, 5>>, <<>>>>
=============================================================================
