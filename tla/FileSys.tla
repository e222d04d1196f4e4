------------------------------ MODULE FileSys ------------------------------
(***************************************************************************)
(* The name space of the file system: inodes and their links, the inode    *)
(* cache, directories, path lookup, the table of open files, and the       *)
(* system calls on them (fs.c, sysfile.c, file.c), by several processes.   *)
(*                                                                         *)
(* A process runs a system call as a list "todo" of the steps that remain; *)
(* a step [i, s] works on the cache entry s.  A step is atomic when the    *)
(* code holds at most one inode lock in it; a lock that is kept while the  *)
(* next one is awaited is in ic[s].lock.  An entry of todo stands for one  *)
(* reference to s, but for "iput" and "iunlock" (see Refs).                *)
(*                                                                         *)
(* Disk blocks, the log and file contents are in FileData, Disk and Log.   *)
(***************************************************************************)
EXTENDS Integers, Sequences, FiniteSets, FiniteSetsExt

CONSTANTS Procs,    \* processes
          Shell,    \* the one that runs first, after init
          NINODES,  \* inodes on the disk
          NINODE,   \* entries of the inode cache
          NFILE,    \* open files of the system
          NOFILE,   \* open files of a process
          Names,    \* names of directory entries, apart from the dots
          MkfsFiles, \* names of the files that mkfs puts into the root
          Calls,    \* the system calls under study
          Paths,    \* their path arguments, [abs, elems]
          Pairs,    \* and those of the calls that take two paths
          MaxCalls  \* bound: system calls in all

NoProc == "none"
ROOTINO == 1
Dots == {".", ".."}
Inums == 1 .. NINODES
Slots == 1 .. NINODE
Files == 1 .. NFILE

VARIABLES disk,   \* the inodes: type, nlink and, of a directory, its entries
          ic,     \* the inode cache
          cwd,    \* per process: its current directory; 0 if unused
          file,   \* the table of open files
          ofile,  \* per process: its descriptors
          todo,   \* per process: the steps left of its system call
          arg,    \* per process: paths, name and inode type of the call
          panic,  \* the message of panic(), or ""
          ncalls  \* the system calls so far

vars == <<disk, ic, cwd, file, ofile, todo, arg, panic, ncalls>>

NoEnts == [n \in Names \cup Dots |-> 0]
FreeInode == [type |-> "free", nlink |-> 0, ents |-> NoEnts]
FreeEntry == [inum |-> 0, ref |-> 0, valid |-> FALSE, type |-> "free",
              nlink |-> 0, lock |-> NoProc]
NoPath == [abs |-> FALSE, elems |-> <<>>]
NoArg == [path |-> <<>>, new |-> NoPath, name |-> "", type |-> "file"]

TypeOK ==
    /\ disk \in [Inums -> [type : {"free", "file", "dir", "dev"}, nlink : Nat,
                           ents : [Names \cup Dots -> 0 .. NINODES]]]
    /\ ic \in [Slots -> [inum : 0 .. NINODES, ref : Nat, valid : BOOLEAN,
                         type : {"free", "file", "dir", "dev"}, nlink : Nat,
                         lock : Procs \cup {NoProc}]]
    /\ cwd \in [Procs -> 0 .. NINODE]
    /\ file \in [Files -> [ref : Nat, ip : 0 .. NINODE]]
    /\ ofile \in [Procs -> [1 .. NOFILE -> 0 .. NFILE]]
    /\ \A p \in Procs : \A k \in DOMAIN todo[p] : todo[p][k].s \in 0 .. NINODE
    /\ panic \in STRING

-----------------------------------------------------------------------------
(* The image made by mkfs.  init and the shell it started are in the root
   directory; init (init.c) stays there for ever.                          *)
mkfs ==
    [i \in Inums |->
       IF i = ROOTINO
       THEN [type |-> "dir", nlink |-> 1,
             ents |-> [n \in Names \cup Dots |->
                IF n \in Dots THEN ROOTINO
                ELSE IF \E k \in DOMAIN MkfsFiles : MkfsFiles[k] = n
                THEN ROOTINO + CHOOSE k \in DOMAIN MkfsFiles : MkfsFiles[k] = n
                ELSE 0]]
       ELSE IF i - ROOTINO \in DOMAIN MkfsFiles
       THEN [FreeInode EXCEPT !.type = "file", !.nlink = 1]
       ELSE FreeInode]

Init ==
    /\ disk = mkfs
    /\ ic = [s \in Slots |-> IF s = 1
                             THEN [FreeEntry EXCEPT !.inum = ROOTINO, !.ref = 2]
                             ELSE FreeEntry]
    /\ cwd = [p \in Procs |-> IF p = Shell THEN 1 ELSE 0]
    /\ file = [f \in Files |-> [ref |-> 0, ip |-> 0]]
    /\ ofile = [p \in Procs |-> [fd \in 1 .. NOFILE |-> 0]]
    /\ todo = [p \in Procs |-> <<>>]
    /\ arg = [p \in Procs |-> NoArg]
    /\ panic = ""
    /\ ncalls = 0

-----------------------------------------------------------------------------
(* The inode cache.  The operators take the cache c and return the slot or
   the new cache.                                                          *)

Cached(c, i) == {s \in Slots : c[s].ref > 0 /\ c[s].inum = i}
Unused(c) == {s \in Slots : c[s].ref = 0}

HasSlot(c, i) == Cached(c, i) # {} \/ Unused(c) # {}

(* The entry of inode i after iget(); 0 stands for none. *)
SlotOf(c, i) == IF Cached(c, i) # {} THEN Min(Cached(c, i))
                ELSE IF Unused(c) # {} THEN Min(Unused(c)) ELSE 0

(* Fault: an entry that is taken over keeps its valid flag. *)
igetKeepsValid(c, i) ==
    IF Cached(c, i) # {}
    THEN [c EXCEPT ![SlotOf(c, i)].ref = @ + 1]
    ELSE [c EXCEPT ![SlotOf(c, i)].ref = 1, ![SlotOf(c, i)].inum = i]

iget(c, i) ==
    IF Cached(c, i) # {}
    THEN [c EXCEPT ![SlotOf(c, i)].ref = @ + 1]
    ELSE [c EXCEPT ![SlotOf(c, i)] = [FreeEntry EXCEPT !.inum = i, !.ref = 1]]

idup(c, s) == [c EXCEPT ![s].ref = @ + 1]

(* The step that calls iget() last. *)
Iget(c, i) == IF HasSlot(c, i) THEN ic' = iget(c, i) /\ panic' = panic
              ELSE ic' = c /\ panic' = "iget: no inodes"

(* The entry of that name in the directory s, or 0. *)
dirlookup(s, name) == disk[ic[s].inum].ents[name]

(* The disk d after dirlink(s, name, i) has found no such entry. *)
dirlink(d, s, name, i) == [d EXCEPT ![ic[s].inum].ents[name] = i]

(* What ilock() reads from the disk. *)
Load(c, s) ==
    IF c[s].valid THEN c
    ELSE [c EXCEPT ![s].valid = TRUE, ![s].type = disk[c[s].inum].type,
                   ![s].nlink = disk[c[s].inum].nlink]

(* The disk after iupdate(s), given the cache. *)
iupdate(d, c, s) == [d EXCEPT ![c[s].inum].type = c[s].type,
                              ![c[s].inum].nlink = c[s].nlink]

lock(c, s, p) == [c EXCEPT ![s].lock = p]
iunlock(c, s) == [c EXCEPT ![s].lock = NoProc]
AddLink(c, s, n) == [c EXCEPT ![s].nlink = @ + n]

-----------------------------------------------------------------------------
(* Steps of a system call *)

At(p, i) == panic = "" /\ todo[p] # <<>> /\ Head(todo[p]).i = i
S(p) == Head(todo[p]).s
Rest(p) == Tail(todo[p])
Step(i, s) == [i |-> i, s |-> s]
iput(s) == <<Step("iput", s), Step("iput_ref", s)>>
iunlockput(s) == <<Step("iunlock", s)>> \o iput(s)

(* The steps that wait for an inode lock. *)
Locking == {"namei", "nameiparent", "iput", "link", "link_dir", "link_bad",
            "unlink", "unlink_ip", "create", "create_old", "create_new", "open",
            "open_rd", "chdir"}

(* ilock() has got the lock; Cache is then the cache with the inode read. *)
Ilock(p, i) ==
    /\ At(p, i)
    /\ ic[S(p)].lock = NoProc
    /\ ic[S(p)].valid \/ disk[ic[S(p)].inum].type # "free"

Cache(p) == Load(ic, S(p))

(* The caller of namei(), nameiparent() or create() goes on with the result
   s.  If that is 0 the system call returns -1, but for the second lookup of
   sys_link(), which first takes back the link it counted.                 *)
Return(rest, s) ==
    IF s # 0 THEN <<[Head(rest) EXCEPT !.s = s]>> \o Tail(rest)
    ELSE IF Head(rest).i = "link_dir" THEN <<Step("link_bad", rest[2].s)>>
    ELSE <<>>

(* Set the steps of p.  Its arguments are forgotten when no step needs them. *)
Goto(p, t, a) ==
    /\ todo' = [todo EXCEPT ![p] = t]
    /\ arg' = [arg EXCEPT ![p] =
          IF \A k \in DOMAIN t : t[k].i \in {"iput", "iput_ref", "iunlock", "exit"}
          THEN NoArg ELSE a]

Panic(message) == /\ panic' = message
                  /\ UNCHANGED <<disk, ic, cwd, file, ofile, todo, arg>>

ilock_panic(p) ==
    /\ panic = "" /\ todo[p] # <<>>
    /\ Head(todo[p]).i \in Locking \ {"iput"}
    /\ ic[S(p)].lock = NoProc
    /\ ~ic[S(p)].valid /\ disk[ic[S(p)].inum].type = "free"
    /\ Panic("ilock: no type")

(* Fault: an inode is freed with its last reference, whatever its links. *)
iput_freeLinked(p) ==
    /\ At(p, "iput")
    /\ ic[S(p)].lock = NoProc
    /\ IF ic[S(p)].valid /\ ic[S(p)].ref = 1
       THEN /\ disk' = [disk EXCEPT ![ic[S(p)].inum] = FreeInode]
            /\ ic' = [ic EXCEPT ![S(p)].valid = FALSE]
       ELSE UNCHANGED <<disk, ic>>
    /\ Goto(p, Rest(p), arg[p])
    /\ UNCHANGED <<cwd, file, ofile, panic>>

(* The first half of iput(): free an inode without links and without other
   references.  The reference is dropped in the second half, under another
   lock.                                                                   *)
iput_free(p) ==
    /\ At(p, "iput")
    /\ ic[S(p)].lock = NoProc
    /\ IF ic[S(p)].valid /\ ic[S(p)].nlink = 0 /\ ic[S(p)].ref = 1
       THEN /\ disk' = [disk EXCEPT ![ic[S(p)].inum] = FreeInode]
            /\ ic' = [ic EXCEPT ![S(p)].valid = FALSE]
       ELSE UNCHANGED <<disk, ic>>
    /\ Goto(p, Rest(p), arg[p])
    /\ UNCHANGED <<cwd, file, ofile, panic>>

iput_ref(p) ==
    /\ At(p, "iput_ref")
    /\ ic' = [ic EXCEPT ![S(p)].ref = @ - 1]
    /\ Goto(p, Rest(p), arg[p])
    /\ UNCHANGED <<disk, cwd, file, ofile, panic>>

iunlock_step(p) ==
    /\ At(p, "iunlock")
    /\ ic' = iunlock(ic, S(p))
    /\ Goto(p, Rest(p), arg[p])
    /\ UNCHANGED <<disk, cwd, file, ofile, panic>>

(* namex(path), followed by the steps rest: the cache with the reference to
   the first inode, and the steps.  The loop ends at once for "/".         *)
StartCache(p, path, c) == IF path.abs THEN iget(c, ROOTINO) ELSE idup(c, cwd[p])

Start(p, i, path, c, rest) ==
    LET s == IF path.abs THEN SlotOf(c, ROOTINO) ELSE cwd[p]
    IN IF path.elems # <<>> THEN <<Step(i, s)>> \o rest
       ELSE IF i = "namei" THEN Return(rest, s)
       ELSE iput(s) \o Return(rest, 0)

(* One round of the loop of namex(), and the return after the last one. *)
namex_step(p) ==
    \E i \in {"namei", "nameiparent"} :
       /\ Ilock(p, i)
       /\ LET name == Head(arg[p].path)
              dir == Cache(p)[S(p)].type = "dir"
              last == i = "nameiparent" /\ Tail(arg[p].path) = <<>>
              next == dirlookup(S(p), name)
              rest == [arg[p] EXCEPT !.path = Tail(@)]
          IN \/ /\ dir /\ last
                /\ ic' = Cache(p)
                /\ Goto(p, Return(Rest(p), S(p)), [rest EXCEPT !.name = name])
                /\ panic' = panic
             \/ /\ dir => ~last /\ next = 0
                /\ ic' = Cache(p)
                /\ Goto(p, iput(S(p)) \o Return(Rest(p), 0), rest)
                /\ panic' = panic
             \/ /\ dir /\ ~last /\ next # 0
                /\ Iget(Cache(p), next)
                /\ Goto(p, iput(S(p)) \o
                         IF rest.path = <<>>
                         THEN Return(Rest(p), SlotOf(Cache(p), next))
                         ELSE <<Step(i, SlotOf(Cache(p), next))>> \o Rest(p), rest)
    /\ UNCHANGED <<disk, cwd, file, ofile>>

-----------------------------------------------------------------------------
(* System calls on names *)

(* The steps of a call; the step that takes the result of a path lookup
   gets it as its s.                                                       *)
Body(call) ==
    CASE call = "link"   -> <<"namei", "link">>
      [] call = "unlink" -> <<"nameiparent", "unlink">>
      [] call = "mkdir"  -> <<"nameiparent", "create", "unlockput">>
      [] call = "mknod"  -> <<"nameiparent", "create", "unlockput">>
      [] call = "creat"  -> <<"nameiparent", "create", "open_file">>
      [] call = "open"   -> <<"namei", "open", "open_file">>
      [] call = "open_rd" -> <<"namei", "open_rd", "open_file">>
      [] call = "chdir"  -> <<"namei", "chdir">>
      [] call = "copy_file" -> <<"namei", "open_rd", "open_file", "copy_dest">>

TypeMade(call) ==
    CASE call = "mkdir" -> "dir" [] call = "mknod" -> "dev" [] OTHER -> "file"

sys_call(p, call, path, new) ==
    /\ panic = "" /\ todo[p] = <<>> /\ cwd[p] # 0
    /\ ic' = StartCache(p, path, ic)
    /\ Goto(p, Start(p, Head(Body(call)), path, ic,
                     [k \in 1 .. Len(Body(call)) - 1 |-> Step(Body(call)[k + 1], 0)]),
            [path |-> path.elems, new |-> new, name |-> "",
             type |-> TypeMade(call)])
    /\ UNCHANGED <<disk, cwd, file, ofile, panic>>

(* sys_link(): count the link, then make it; undo the count if that fails.
   The entry "ip" of todo keeps the inode.                                 *)
link(p) ==
    /\ Ilock(p, "link")
    /\ IF Cache(p)[S(p)].type = "dir"
       THEN /\ ic' = Cache(p)
            /\ Goto(p, iput(S(p)), arg[p])
            /\ disk' = disk
       ELSE LET c == AddLink(Cache(p), S(p), 1)
            IN /\ disk' = iupdate(disk, c, S(p))
               /\ ic' = StartCache(p, arg[p].new, c)
               /\ Goto(p, Start(p, "nameiparent", arg[p].new, c,
                                <<Step("link_dir", 0), Step("ip", S(p))>>),
                       [arg[p] EXCEPT !.path = arg[p].new.elems])
    /\ UNCHANGED <<cwd, file, ofile, panic>>

(* With its dirlink(): look the name up, then write the entry. *)
link_dir(p) ==
    /\ Ilock(p, "link_dir")
    /\ LET ip == Rest(p)[1].s
           old == dirlookup(S(p), arg[p].name)
       IN IF old = 0
          THEN /\ disk' = dirlink(disk, S(p), arg[p].name, ic[ip].inum)
               /\ ic' = Cache(p)
               /\ Goto(p, iput(S(p)) \o iput(ip), arg[p])
               /\ panic' = panic
          ELSE /\ Iget(lock(Cache(p), S(p), p), old)
               /\ Goto(p, iput(SlotOf(Cache(p), old)) \o iunlockput(S(p))
                             \o <<Step("link_bad", ip)>>, arg[p])
               /\ disk' = disk
    /\ UNCHANGED <<cwd, file, ofile>>

link_bad(p) ==
    /\ Ilock(p, "link_bad")
    /\ ic' = AddLink(Cache(p), S(p), -1)
    /\ disk' = iupdate(disk, ic', S(p))
    /\ Goto(p, iput(S(p)), arg[p])
    /\ UNCHANGED <<cwd, file, ofile, panic>>
-----------------------------------------------------------------------------
(* sys_unlink().  The entry "dp" of todo keeps the parent, locked. *)
unlink(p) ==
    /\ Ilock(p, "unlink")
    /\ LET i == dirlookup(S(p), arg[p].name)
       IN IF arg[p].name \in Dots \/ i = 0
          THEN /\ ic' = Cache(p)
               /\ Goto(p, iput(S(p)), arg[p])
               /\ panic' = panic
          ELSE /\ Iget(lock(Cache(p), S(p), p), i)
               /\ Goto(p, <<Step("unlink_ip", SlotOf(Cache(p), i)),
                            Step("dp", S(p))>>, arg[p])
    /\ UNCHANGED <<disk, cwd, file, ofile>>

isdirempty(i) == \A n \in Names : disk[i].ents[n] = 0

unlink_ip(p) ==
    /\ Ilock(p, "unlink_ip")
    /\ LET ip == S(p)
           dp == Rest(p)[1].s
           dir == Cache(p)[ip].type = "dir"
           c == AddLink(Cache(p), dp, IF dir THEN -1 ELSE 0)
       IN \/ /\ Cache(p)[ip].nlink < 1
             /\ panic' = "unlink: nlink < 1"
             /\ UNCHANGED <<disk, ic, todo, arg>>
          \/ /\ Cache(p)[ip].nlink >= 1
             /\ dir /\ ~isdirempty(ic[ip].inum)
             /\ ic' = Cache(p)
             /\ Goto(p, iput(ip) \o iunlockput(dp), arg[p])
             /\ UNCHANGED <<disk, panic>>
          \/ /\ Cache(p)[ip].nlink >= 1
             /\ dir => isdirempty(ic[ip].inum)
             /\ disk' = dirlink(iupdate(disk, c, dp), dp, arg[p].name, 0)
             /\ ic' = lock(iunlock(c, dp), ip, p)
             /\ Goto(p, iput(dp) \o <<Step("unlink_done", ip)>>, arg[p])
             /\ panic' = panic
    /\ UNCHANGED <<cwd, file, ofile>>

unlink_done(p) ==
    /\ At(p, "unlink_done")
    /\ ic' = iunlock(AddLink(ic, S(p), -1), S(p))
    /\ disk' = iupdate(disk, ic', S(p))
    /\ Goto(p, iput(S(p)), arg[p])
    /\ UNCHANGED <<cwd, file, ofile, panic>>

-----------------------------------------------------------------------------
(* create(), which returns a locked inode, and its callers *)

create(p) ==
    /\ Ilock(p, "create")
    /\ LET i == dirlookup(S(p), arg[p].name)
           free == {j \in Inums : disk[j].type = "free"}
       IN \/ /\ i # 0
             /\ Iget(Cache(p), i)
             /\ Goto(p, iput(S(p)) \o <<Step("create_old", SlotOf(Cache(p), i))>>
                           \o Rest(p), arg[p])
             /\ disk' = disk
          \/ /\ i = 0
             /\ \E j \in free :
                   /\ disk' = [disk EXCEPT ![j] =
                                  [FreeInode EXCEPT !.type = arg[p].type]]
                   /\ Iget(lock(Cache(p), S(p), p), j)
                   /\ Goto(p, <<Step("create_new", SlotOf(Cache(p), j)),
                                Step("dp", S(p))>> \o Rest(p), arg[p])
          \/ /\ i = 0 /\ free = {}
             /\ panic' = "ialloc: no inodes"
             /\ UNCHANGED <<disk, ic, todo, arg>>
    /\ UNCHANGED <<cwd, file, ofile>>

(* Fault: an inode of the wrong type is unlocked but not put back. *)
create_oldLeaks(p) ==
    /\ Ilock(p, "create_old")
    /\ IF arg[p].type = "file" /\ Cache(p)[S(p)].type = "file"
       THEN /\ ic' = lock(Cache(p), S(p), p)
            /\ Goto(p, Return(Rest(p), S(p)), arg[p])
       ELSE /\ ic' = Cache(p)
            /\ Goto(p, Return(Rest(p), 0), arg[p])
    /\ UNCHANGED <<disk, cwd, file, ofile, panic>>

create_old(p) ==
    /\ Ilock(p, "create_old")
    /\ IF arg[p].type = "file" /\ Cache(p)[S(p)].type = "file"
       THEN /\ ic' = lock(Cache(p), S(p), p)
            /\ Goto(p, Return(Rest(p), S(p)), arg[p])
       ELSE /\ ic' = Cache(p)
            /\ Goto(p, iput(S(p)) \o Return(Rest(p), 0), arg[p])
    /\ UNCHANGED <<disk, cwd, file, ofile, panic>>

create_new(p) ==
    /\ Ilock(p, "create_new")
    /\ LET ip == S(p)
           dp == Rest(p)[1].s
           i == ic[ip].inum
           dir == arg[p].type = "dir"
           c == AddLink([Cache(p) EXCEPT ![ip].nlink = 1], dp, IF dir THEN 1 ELSE 0)
           d == iupdate(iupdate(disk, c, ip), c, dp)
           dots == dirlink(dirlink(d, ip, ".", i), ip, "..", ic[dp].inum)
       IN /\ disk' = dirlink(IF dir THEN dots ELSE d, dp, arg[p].name, i)
          /\ ic' = lock(iunlock(c, dp), ip, p)
          /\ Goto(p, iput(dp) \o Return(Tail(Rest(p)), ip), arg[p])
    /\ UNCHANGED <<cwd, file, ofile, panic>>

(* iunlockput(ip) at the end of sys_mkdir() and sys_mknod(). *)
unlockput(p) ==
    /\ At(p, "unlockput")
    /\ ic' = iunlock(ic, S(p))
    /\ Goto(p, iput(S(p)), arg[p])
    /\ UNCHANGED <<disk, cwd, file, ofile, panic>>
-----------------------------------------------------------------------------
(* Open files *)

(* sys_open() without O_CREATE; "open_rd" with O_RDONLY.  The inode stays
   locked.                                                                 *)
open(p) ==
    \E i \in {"open", "open_rd"} :
       /\ Ilock(p, i)
       /\ IF i = "open" /\ Cache(p)[S(p)].type = "dir"
          THEN /\ ic' = Cache(p)
               /\ Goto(p, iput(S(p)) \o Return(Rest(p), 0), arg[p])
          ELSE /\ ic' = lock(Cache(p), S(p), p)
               /\ Goto(p, Return(Rest(p), S(p)), arg[p])
       /\ UNCHANGED <<disk, cwd, file, ofile, panic>>

FreeFile == {f \in Files : file[f].ref = 0}
FreeFd(p) == {fd \in 1 .. NOFILE : ofile[p][fd] = 0}

(* filealloc(), fdalloc() and the rest of sys_open(). *)
open_file(p) ==
    /\ At(p, "open_file")
    /\ ic' = iunlock(ic, S(p))
    /\ IF FreeFile = {} \/ FreeFd(p) = {}
       THEN /\ Goto(p, iput(S(p)), arg[p])
            /\ UNCHANGED <<file, ofile>>
       ELSE /\ file' = [file EXCEPT ![Min(FreeFile)] = [ref |-> 1, ip |-> S(p)]]
            /\ ofile' = [ofile EXCEPT ![p][Min(FreeFd(p))] = Min(FreeFile)]
            /\ Goto(p, Rest(p), arg[p])
    /\ UNCHANGED <<disk, cwd, panic>>

(* The second half of sys_copy_file(), which opens the destination as
   sys_open() does with O_WRONLY; both descriptors stay open.              *)
copy_dest(p) ==
    /\ At(p, "copy_dest")
    /\ ic' = StartCache(p, arg[p].new, ic)
    /\ Goto(p, Start(p, "namei", arg[p].new, ic,
                     <<Step("open", 0), Step("open_file", 0)>>),
            [arg[p] EXCEPT !.path = arg[p].new.elems])
    /\ UNCHANGED <<disk, cwd, file, ofile, panic>>

(* sys_read(), sys_write() and sys_fstat() lock the inode of the file. *)
fileio(p, fd) ==
    /\ panic = "" /\ todo[p] = <<>>
    /\ ofile[p][fd] # 0
    /\ LET s == file[ofile[p][fd]].ip
       IN ic[s].lock = NoProc /\ ic' = Load(ic, s)
    /\ UNCHANGED <<disk, cwd, file, ofile, todo, arg, panic>>

sys_dup(p, fd) ==
    /\ panic = "" /\ todo[p] = <<>>
    /\ ofile[p][fd] # 0 /\ FreeFd(p) # {}
    /\ ofile' = [ofile EXCEPT ![p][Min(FreeFd(p))] = ofile[p][fd]]
    /\ file' = [file EXCEPT ![ofile[p][fd]].ref = @ + 1]
    /\ UNCHANGED <<disk, ic, cwd, todo, arg, panic>>

(* fileclose(): the last reference to the file gives back the inode. *)
fileclose(p, fd, then) ==
    LET f == ofile[p][fd]
    IN /\ ofile' = [ofile EXCEPT ![p][fd] = 0]
       /\ file' = [file EXCEPT ![f] = IF @.ref > 1 THEN [@ EXCEPT !.ref = @ - 1]
                                      ELSE [ref |-> 0, ip |-> 0]]
       /\ Goto(p, (IF file[f].ref > 1 THEN <<>> ELSE iput(file[f].ip)) \o then,
               NoArg)

sys_close(p, fd) ==
    /\ panic = "" /\ todo[p] = <<>>
    /\ ofile[p][fd] # 0
    /\ fileclose(p, fd, <<>>)
    /\ UNCHANGED <<disk, ic, cwd, panic>>

-----------------------------------------------------------------------------
(* Current directories, fork() and exit() *)

chdir(p) ==
    /\ Ilock(p, "chdir")
    /\ ic' = Cache(p)
    /\ Goto(p, IF Cache(p)[S(p)].type # "dir" THEN iput(S(p))
               ELSE iput(cwd[p]) \o <<Step("chdir_set", S(p))>>, arg[p])
    /\ cwd' = [cwd EXCEPT ![p] = IF Cache(p)[S(p)].type # "dir" THEN @ ELSE 0]
    /\ UNCHANGED <<disk, file, ofile, panic>>

chdir_set(p) ==
    /\ At(p, "chdir_set")
    /\ cwd' = [cwd EXCEPT ![p] = S(p)]
    /\ Goto(p, Rest(p), NoArg)
    /\ UNCHANGED <<disk, ic, file, ofile, panic>>

(* The child q gets the files and the directory of p. *)
fork(p, q) ==
    /\ panic = "" /\ todo[p] = <<>> /\ cwd[p] # 0
    /\ todo[q] = <<>> /\ cwd[q] = 0
    /\ ofile' = [ofile EXCEPT ![q] = ofile[p]]
    /\ file' = [f \in Files |-> [file[f] EXCEPT !.ref = @ +
                   Cardinality({fd \in 1 .. NOFILE : ofile[p][fd] = f})]]
    /\ ic' = idup(ic, cwd[p])
    /\ cwd' = [cwd EXCEPT ![q] = cwd[p]]
    /\ UNCHANGED <<disk, todo, arg, panic>>

exit(p) ==
    /\ panic = "" /\ todo[p] = <<>> /\ cwd[p] # 0
    /\ p # Shell
    /\ Goto(p, <<Step("exit", 0)>>, NoArg)
    /\ UNCHANGED <<disk, ic, cwd, file, ofile, panic>>

exit_close(p) ==
    /\ At(p, "exit")
    /\ \/ \E fd \in 1 .. NOFILE :
             /\ ofile[p][fd] # 0 /\ \A e \in 1 .. fd - 1 : ofile[p][e] = 0
             /\ fileclose(p, fd, <<Step("exit", 0)>>)
             /\ cwd' = cwd
       \/ /\ \A fd \in 1 .. NOFILE : ofile[p][fd] = 0
          /\ Goto(p, iput(cwd[p]), NoArg)
          /\ cwd' = [cwd EXCEPT ![p] = 0]
          /\ UNCHANGED <<file, ofile>>
    /\ UNCHANGED <<disk, ic, panic>>

-----------------------------------------------------------------------------
SysCall(p) ==
    /\ ncalls < MaxCalls
    /\ ncalls' = ncalls + 1
    /\ \/ \E call \in Calls \ {"link", "copy_file"}, path \in Paths :
             sys_call(p, call, path, NoPath)
       \/ \E call \in Calls \cap {"link", "copy_file"}, pair \in Pairs :
             sys_call(p, call, pair[1], pair[2])
       \/ \E fd \in 1 .. NOFILE :
             fileio(p, fd) \/ sys_dup(p, fd) \/ sys_close(p, fd)
       \/ \E q \in Procs : fork(p, q)
       \/ exit(p)

Continue(p) ==
    /\ ncalls' = ncalls
    /\ \/ ilock_panic(p) \/ iput_free(p) \/ iput_ref(p) \/ iunlock_step(p)
       \/ namex_step(p)
       \/ link(p) \/ link_dir(p) \/ link_bad(p)
       \/ unlink(p) \/ unlink_ip(p) \/ unlink_done(p)
       \/ create(p) \/ create_old(p) \/ create_new(p) \/ unlockput(p)
       \/ open(p) \/ open_file(p) \/ copy_dest(p) \/ chdir(p) \/ chdir_set(p)
       \/ exit_close(p)

Next == \E p \in Procs : SysCall(p) \/ Continue(p)

Spec == Init /\ [][Next]_vars

-----------------------------------------------------------------------------
(* Properties *)

(* The references to the entry s: current directories, open files, the
   pointers of the system calls under way, and init's to the root.         *)
Refs(s) ==
    Cardinality({p \in Procs : cwd[p] = s})
    + Cardinality({f \in Files : file[f].ref > 0 /\ file[f].ip = s})
    + Cardinality({<<p, k>> \in Procs \X (1 .. 8) :
                      /\ k \in DOMAIN todo[p] /\ todo[p][k].s = s
                      /\ todo[p][k].i \notin {"iput", "iunlock"}})
    + (IF ic[s].inum = ROOTINO /\ s = 1 THEN 1 ELSE 0)

(* "ip->ref tracks the number of in-memory pointers to the entry" (fs.c:123):
   on every path of every call, errors included, each iget() and idup() is
   matched by one iput(), so that no entry is recycled under a user and none
   stays behind.                                                           *)
RefsMatch == panic = "" => \A s \in Slots : ic[s].ref = Refs(s)

(* The cache is write-through (fs.c:216-219) and holds an inode once, so that
   its lock excludes all other users of the inode (fs.c:248-269, 298-308).  *)
CacheCoherent ==
    /\ \A s, t \in Slots : ic[s].ref > 0 /\ ic[t].ref > 0 /\ s # t
                              => ic[s].inum # ic[t].inum
    /\ \A s \in Slots : ic[s].valid /\ ic[s].ref > 0 =>
          /\ ic[s].type = disk[ic[s].inum].type
          /\ ic[s].nlink = disk[ic[s].inum].nlink

(* The entries that name inode i, ".." and "." aside. *)
Entries(i) == {<<d, n>> \in Inums \X Names : disk[d].ents[n] = i}

(* No inode is freed or reused under a name: nlink is never less than the
   number of entries, between the steps of link, unlink and create too.    *)
LinksCoverEntries ==
    \A i \in Inums : Entries(i) # {} =>
       /\ disk[i].type # "free"
       /\ disk[i].type # "dir" => disk[i].nlink >= Cardinality(Entries(i))

(* "If that was the last reference and the inode has no links to it, free the
   inode (and its content) on disk" (fs.c:327-328).                        *)
UnlinkedIsFreed ==
    \A i \in Inums : disk[i].type # "free" /\ disk[i].nlink = 0
                        => \E s \in Slots : ic[s].inum = i /\ ic[s].ref > 0

(* p waits for an inode lock that q holds. *)
WaitsFor(p, q) == /\ todo[p] # <<>> /\ Head(todo[p]).i \in Locking
                  /\ ic[S(p)].lock = q

(* Locking is separate from referencing, which "helps avoid deadlock"
   (fs.c:149-150): processes never wait for each other's inode locks.      *)
NoLockCycle == \A p, q \in Procs : ~(WaitsFor(p, q) /\ WaitsFor(q, p))

NoTypePanic == panic # "ilock: no type"
=============================================================================
