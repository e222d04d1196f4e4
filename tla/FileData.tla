------------------------------ MODULE FileData ------------------------------
(***************************************************************************)
(* The contents of files: the block bitmap, the direct and indirect blocks *)
(* of an inode, reading, writing and truncating it (fs.c), read() and      *)
(* write() on an open file (file.c), and the image that mkfs makes.        *)
(*                                                                         *)
(* The caller holds the lock of the inode throughout readi() and writei(), *)
(* so each is one step; filewrite() takes one transaction per chunk.  A    *)
(* block is BSIZE cells, and an indirect block holds one address per cell. *)
(***************************************************************************)
EXTENDS Integers, Sequences, FiniteSets, SequencesExt

CONSTANTS Inodes,      \* inode numbers; 1 is the root directory
          Handles,     \* open files
          InodeOf,     \* the inode of each handle
          Writes,      \* per handle: the <<n, byte>> it may write
          BSIZE,       \* cells of a block
          NDIRECT,     \* direct blocks of an inode
          FSSIZE,      \* blocks of the disk
          nmeta,       \* the first of them that hold data
          BPB,         \* blocks per block of the bitmap
          MAXOPBLOCKS, \* blocks that one transaction may log
          MaxOps,      \* bound on the calls of write() and unlink()
          UINT,        \* a uint is less than UINT
          MkfsContents \* what mkfs copies into each inode

NINDIRECT == BSIZE
MAXFILE == NDIRECT + NINDIRECT
Blocks == 0 .. FSSIZE - 1
Cells == 0 .. BSIZE - 1
Zeroes == [c \in Cells |-> 0]
NoInode == [size |-> 0, addrs |-> [k \in 0 .. NDIRECT |-> 0]]

VARIABLES nops,  \* calls so far, at most MaxOps
          fs,    \* the disk and the running transaction
          off,   \* f->off of each open file
          work   \* what filewrite() has left to do, [n, byte], per handle

vars == <<nops, fs, off, work>>

(* fs.logged is the set of blocks that the last transaction has logged. *)
TypeOK ==
    /\ fs.bitmap \subseteq Blocks
    /\ fs.data \in [Blocks -> [Cells -> Nat]]
    /\ fs.ino \in [Inodes -> [size : 0 .. MAXFILE * BSIZE,
                              addrs : [0 .. NDIRECT -> Blocks]]]
    /\ nops \in 0 .. MaxOps
    /\ off \in [Handles -> 0 .. MAXFILE * BSIZE]
    /\ work \in [Handles -> [n : Nat, byte : Nat]]

min(a, b) == IF a < b THEN a ELSE b
max(a, b) == IF a > b THEN a ELSE b

-----------------------------------------------------------------------------
(* Blocks.  An operator takes the file system f and returns the new one,
   with the block in b where it returns one.                               *)

log_write(f, b) == [f EXCEPT !.logged = @ \cup {b}]
Panic(f, message) == [f EXCEPT !.panic = message]
BBLOCK(b) == <<"bitmap", b \div BPB>>
Data(b) == <<"data", b>>

bzero(f, b) == log_write([f EXCEPT !.data[b] = Zeroes], Data(b))

balloc(f) ==
    LET free == {b \in Blocks : b \notin f.bitmap}
        b == CHOOSE x \in free : \A y \in free : x <= y
    IN IF free = {} THEN [f |-> Panic(f, "balloc: out of blocks"), b |-> 0]
       ELSE [f |-> bzero(log_write([f EXCEPT !.bitmap = @ \cup {b}], BBLOCK(b)), b),
             b |-> b]

bfree(f, b) ==
    IF b \notin f.bitmap THEN Panic(f, "freeing free block")
    ELSE log_write([f EXCEPT !.bitmap = @ \ {b}], BBLOCK(b))

bmap(f, ip, bn) ==
    LET Direct(g, k) ==
           IF g.ino[ip].addrs[k] # 0 THEN [f |-> g, b |-> g.ino[ip].addrs[k]]
           ELSE LET a == balloc(g)
                IN [f |-> [a.f EXCEPT !.ino[ip].addrs[k] = a.b], b |-> a.b]
        Indirect(i, k) ==
           IF i.f.data[i.b][k] # 0 THEN [f |-> i.f, b |-> i.f.data[i.b][k]]
           ELSE LET a == balloc(i.f)
                IN [f |-> log_write([a.f EXCEPT !.data[i.b][k] = a.b], Data(i.b)),
                    b |-> a.b]
    IN IF bn < NDIRECT THEN Direct(f, bn)
       ELSE IF bn - NDIRECT < NINDIRECT THEN Indirect(Direct(f, NDIRECT), bn - NDIRECT)
       ELSE [f |-> Panic(f, "bmap: out of range"), b |-> 0]

iupdate(f, ip) == log_write(f, <<"inode", ip>>)

(* The addresses that itrunc() frees, in its order. *)
Addrs(f, ip) ==
    LET a == f.ino[ip].addrs
        used(s) == SelectSeq(s, LAMBDA b : b # 0)
    IN used([k \in 1 .. NDIRECT |-> a[k - 1]])
       \o (IF a[NDIRECT] = 0 THEN <<>>
           ELSE used([k \in 1 .. NINDIRECT |-> f.data[a[NDIRECT]][k - 1]])
                \o <<a[NDIRECT]>>)

(* Fault: the blocks named by the indirect block are not freed. *)
itruncDirect(f, ip) ==
    LET g == FoldLeft(bfree, f, SelectSeq(Addrs(f, ip), LAMBDA b :
                         \E k \in 0 .. NDIRECT : f.ino[ip].addrs[k] = b))
    IN iupdate([g EXCEPT !.ino[ip] = NoInode], ip)

itrunc(f, ip) == iupdate([FoldLeft(bfree, f, Addrs(f, ip)) EXCEPT !.ino[ip] = NoInode], ip)

-----------------------------------------------------------------------------
(* readi() and writei() *)

(* The pieces, one per block, of the n cells from o. *)
Pieces(o, n) ==
    IF n = 0 THEN <<>>
    ELSE [k \in 1 .. (o + n - 1) \div BSIZE - o \div BSIZE + 1 |->
             LET bn == o \div BSIZE + k - 1
             IN [bn |-> bn, from |-> max(o, bn * BSIZE) - bn * BSIZE,
                 to |-> min(o + n, (bn + 1) * BSIZE) - bn * BSIZE - 1]]

Add(a, b) == (a + b) % UINT

(* Fault: a read at the end of the file is an error. *)
readiAtEnd(f, ip, o, n) ==
    LET size == f.ino[ip].size
        len == IF Add(o, n) > size THEN size - o ELSE n
        piece(r, p) == LET m == bmap(r.f, ip, p.bn)
                       IN [f |-> m.f, r |-> r.r,
                           dst |-> r.dst \o [k \in 1 .. p.to - p.from + 1 |->
                                               m.f.data[m.b][p.from + k - 1]]]
    IN IF o >= size \/ Add(o, n) < o THEN [f |-> f, r |-> -1, dst |-> <<>>]
       ELSE FoldLeft(piece, [f |-> f, r |-> len, dst |-> <<>>], Pieces(o, len))

readi(f, ip, o, n) ==
    LET size == f.ino[ip].size
        len == IF Add(o, n) > size THEN size - o ELSE n
        piece(r, p) == LET m == bmap(r.f, ip, p.bn)
                       IN [f |-> m.f, r |-> r.r,
                           dst |-> r.dst \o [k \in 1 .. p.to - p.from + 1 |->
                                               m.f.data[m.b][p.from + k - 1]]]
    IN IF o > size \/ Add(o, n) < o THEN [f |-> f, r |-> -1, dst |-> <<>>]
       ELSE FoldLeft(piece, [f |-> f, r |-> len, dst |-> <<>>], Pieces(o, len))

(* Fault: the size is set by a write inside the file too. *)
writeiShrinks(f, ip, o, n, byte) ==
    LET piece(g, p) ==
           LET m == bmap(g, ip, p.bn)
           IN log_write([m.f EXCEPT !.data[m.b] = [c \in Cells |->
                  IF c \in p.from .. p.to THEN byte ELSE @[c]]], Data(m.b))
        g == FoldLeft(piece, f, Pieces(o, n))
    IN IF o > f.ino[ip].size \/ Add(o, n) < o \/ Add(o, n) > MAXFILE * BSIZE
       THEN [f |-> f, r |-> -1]
       ELSE [f |-> IF n > 0
                   THEN iupdate([g EXCEPT !.ino[ip].size = o + n], ip) ELSE g,
             r |-> n]

writei(f, ip, o, n, byte) ==
    LET piece(g, p) ==
           LET m == bmap(g, ip, p.bn)
           IN log_write([m.f EXCEPT !.data[m.b] = [c \in Cells |->
                  IF c \in p.from .. p.to THEN byte ELSE @[c]]], Data(m.b))
        g == FoldLeft(piece, f, Pieces(o, n))
    IN IF o > f.ino[ip].size \/ Add(o, n) < o \/ Add(o, n) > MAXFILE * BSIZE
       THEN [f |-> f, r |-> -1]
       ELSE [f |-> IF n > 0 /\ o + n > f.ino[ip].size
                   THEN iupdate([g EXCEPT !.ino[ip].size = o + n], ip) ELSE g,
             r |-> n]
-----------------------------------------------------------------------------
(* mkfs: blocks are handed out in order, and the bitmap is written at the
   end.  The size of the root directory is then rounded up to a block.     *)

(* iappend() of one more cell to inode ip. *)
iappend(m, ip, byte) ==
    LET size == m.ino[ip].size
        fbn == size \div BSIZE
        Direct(g, k) == IF g.ino[ip].addrs[k] # 0 THEN g
                        ELSE [g EXCEPT !.ino[ip].addrs[k] = g.freeblock,
                                       !.freeblock = @ + 1]
        Indirect(g, k) == LET i == g.ino[ip].addrs[NDIRECT]
                          IN IF g.data[i][k] # 0 THEN g
                             ELSE [g EXCEPT !.data[i][k] = g.freeblock,
                                            !.freeblock = @ + 1]
        g == IF fbn < NDIRECT THEN Direct(m, fbn)
             ELSE Indirect(Direct(m, NDIRECT), fbn - NDIRECT)
        x == IF fbn < NDIRECT THEN g.ino[ip].addrs[fbn]
             ELSE g.data[g.ino[ip].addrs[NDIRECT]][fbn - NDIRECT]
    IN [g EXCEPT !.data[x][size % BSIZE] = byte, !.ino[ip].size = size + 1]

mkfs_balloc(m) == 0 .. m.freeblock - 1

mkfs ==
    LET empty == [freeblock |-> nmeta, data |-> [b \in Blocks |-> Zeroes],
                  ino |-> [ip \in Inodes |-> NoInode]]
        files == FoldLeft(LAMBDA m, ip :
                             FoldLeft(LAMBDA g, byte : iappend(g, ip, byte), m,
                                      MkfsContents[ip]),
                          empty, SetToSortSeq(Inodes, <))
        m == [files EXCEPT !.ino[1].size = (@ \div BSIZE + 1) * BSIZE]
    IN [bitmap |-> mkfs_balloc(m), data |-> m.data, ino |-> m.ino,
        logged |-> {}, panic |-> ""]

-----------------------------------------------------------------------------
(* Open files *)

Idle == [n |-> 0, byte |-> 0]

Init ==
    /\ nops = 0
    /\ fs = mkfs
    /\ off = [h \in Handles |-> 0]
    /\ work = [h \in Handles |-> Idle]

(* What a transaction leaves: a panic stops it before it commits. *)
Committed(f) == IF f.panic = "" THEN f ELSE [fs EXCEPT !.panic = f.panic]

(* Another open() of the file. *)
open(h) ==
    /\ fs.panic = "" /\ work[h] = Idle
    /\ off' = [off EXCEPT ![h] = 0]
    /\ UNCHANGED <<nops, fs, work>>

fileread(h, n) ==
    /\ fs.panic = "" /\ work[h] = Idle
    /\ LET r == readi([fs EXCEPT !.logged = {}], InodeOf[h], off[h], n)
       IN /\ fs' = Committed(r.f)
          /\ off' = [off EXCEPT ![h] = @ + max(r.r, 0)]
    /\ UNCHANGED <<nops, work>>

write(h, n, byte) ==
    /\ nops < MaxOps /\ nops' = nops + 1
    /\ fs.panic = "" /\ work[h] = Idle
    /\ work' = [work EXCEPT ![h] = [n |-> n, byte |-> byte]]
    /\ UNCHANGED <<fs, off>>

(* Fault: no allowance for a write that starts inside a block. *)
MaxChunkNoSlop == ((MAXOPBLOCKS - 1 - 1) \div 2) * BSIZE

(* "write a few blocks at a time to avoid exceeding the maximum log
   transaction size"                                                       *)
MaxChunk == ((MAXOPBLOCKS - 1 - 1 - 2) \div 2) * BSIZE

filewrite(h) ==
    /\ fs.panic = "" /\ work[h].n > 0
    /\ LET n1 == min(work[h].n, MaxChunk)
           w == writei([fs EXCEPT !.logged = {}], InodeOf[h], off[h], n1, work[h].byte)
       IN /\ fs' = Committed(w.f)
          /\ off' = [off EXCEPT ![h] = @ + max(w.r, 0)]
          /\ work' = [work EXCEPT ![h] = IF w.r < 0 \/ @.n = n1 THEN Idle
                                         ELSE [@ EXCEPT !.n = @ - n1]]
    /\ nops' = nops

(* iput() of the last reference to an inode that has no links. *)
iput(ip) ==
    /\ nops < MaxOps /\ nops' = nops + 1
    /\ fs.panic = "" /\ ip # 1
    /\ \A h \in Handles : InodeOf[h] = ip => work[h] = Idle
    /\ fs' = Committed(itrunc([fs EXCEPT !.logged = {}], ip))
    /\ off' = [h \in Handles |-> IF InodeOf[h] = ip THEN 0 ELSE off[h]]
    /\ work' = work

Next ==
    \/ \E h \in Handles :
          \/ open(h) \/ filewrite(h)
          \/ \E n \in 0 .. BSIZE : fileread(h, n)
          \/ \E w \in Writes[h] : write(h, w[1], w[2])
    \/ \E ip \in Inodes : iput(ip)

Spec == Init /\ [][Next]_vars

-----------------------------------------------------------------------------
(* Properties *)

(* The cells of the file, found through its addresses. *)
Content(ip) ==
    [k \in 1 .. fs.ino[ip].size |->
        LET bn == (k - 1) \div BSIZE
            a == fs.ino[ip].addrs
            b == IF bn < NDIRECT THEN a[bn] ELSE fs.data[a[NDIRECT]][bn - NDIRECT]
        IN fs.data[b][(k - 1) % BSIZE]]

(* The blocks and bits of the disk implement files that are sequences of
   bytes: each writei() replaces or appends exactly its own bytes, whatever
   blocks it allocates, and itrunc() empties one file (fs.c:408-511).      *)
Files == INSTANCE AbstractFile WITH content <- [ip \in Inodes |-> Content(ip)]
ImplementsFiles == Files!Spec

(* Until the disk is full there is no panic (writei() keeps within MAXFILE, no
   block is freed twice), every block in use belongs to one place in one file,
   and the bitmap has just these blocks and the meta data: nothing leaks,
   nothing is shared (balloc, bfree, itrunc, and the bitmap of mkfs).      *)
BlocksOwned ==
    fs.panic # "balloc: out of blocks" =>
       LET owned == FlattenSeq([ip \in Inodes |-> Addrs(fs, ip)])
       IN /\ fs.panic = ""
          /\ IsInjective(owned)
          /\ fs.bitmap = Range(owned) \cup 0 .. nmeta - 1

(* readi() for every offset and length that fits into a uint, those that
   wrap around too: it returns -1 or exactly the bytes that exist, and does
   not allocate (fs.c:464-475).                                            *)
ReadMatches ==
    fs.panic = "" =>
       \A ip \in Inodes, o, n \in 0 .. UINT - 1 :
          LET r == readi(fs, ip, o, n)
              end == min(o + n, fs.ino[ip].size)
          IN /\ r.f = fs
             /\ IF o > fs.ino[ip].size \/ o + n >= UINT THEN r.r = -1
                ELSE r.r = end - o /\ r.dst = SubSeq(Content(ip), o + 1, end)

(* No transaction logs more than MAXOPBLOCKS blocks, which is what begin_op()
   reserves: the chunks of filewrite() are small enough even when every block
   allocated has its bit in another block of the bitmap (file.c:127-133).  *)
WriteFitsReservation == Cardinality(fs.logged) <= MAXOPBLOCKS
=============================================================================
