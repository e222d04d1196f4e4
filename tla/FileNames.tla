----------------------------- MODULE FileNames ------------------------------
(***************************************************************************)
(* File names: skipelem() and namecmp() (fs.c) over strncmp() and          *)
(* strncpy() (string.c).  A name has room for DIRSIZ characters and is     *)
(* NUL-terminated only when it is shorter.  The buffer that namex() passes *)
(* from one element to the next is not cleared in between.                 *)
(***************************************************************************)
EXTENDS Integers, Sequences, SequencesExt, FiniteSetsExt, FiniteSets

CONSTANTS DIRSIZ,   \* fs.h, 14
          Letters,  \* characters of names
          MaxPath   \* bound: length of a path

NUL == "NUL"
Slash == "/"
Buffers == [1 .. DIRSIZ -> Letters \cup {NUL}]
CharAt(s, i) == IF i > Len(s) THEN NUL ELSE s[i]

(* Whether strncmp() finds no difference. *)
strncmp_equal(p, q, n) ==
    \A i \in 1 .. n : (\A j \in 1 .. i - 1 : CharAt(p, j) = CharAt(q, j) /\ CharAt(p, j) # NUL)
                         => CharAt(p, i) = CharAt(q, i)

(* Fault: the rest of the entry is left as it was. *)
strncpyUnpadded(s, t, n) == [i \in 1 .. n |-> IF CharAt(t, i) = NUL THEN s[i] ELSE t[i]]

(* The terminator of t and all behind it become NUL. *)
strncpy(s, t, n) ==
    [i \in 1 .. n |-> IF \E j \in 1 .. i : CharAt(t, j) = NUL THEN NUL ELSE t[i]]

namecmp_equal(s, t) == strncmp_equal(s, t, DIRSIZ)

(* skipelem(): the element goes to name, the rest of the path is returned
   without leading slashes.  The caller has skipped none yet.              *)
skipelem(path, name) ==
    LET FirstOr(S, end) == IF S = {} THEN end ELSE Min(S)
        s   == FirstOr({i \in DOMAIN path : path[i] # Slash}, Len(path) + 1)
        e   == FirstOr({i \in s .. Len(path) : path[i] = Slash}, Len(path) + 1)
        r   == FirstOr({i \in e .. Len(path) : path[i] # Slash}, Len(path) + 1)
        len == e - s
    IN  [found |-> s <= Len(path),
         rest  |-> SubSeq(path, r, Len(path)),
         name  |-> [i \in 1 .. DIRSIZ |->
                      IF i <= len THEN path[s + i - 1]
                      ELSE IF i = len + 1 THEN NUL ELSE name[i]]]

(* The names that namex() looks up one after the other. *)
RECURSIVE Lookups(_, _)
Lookups(path, name) ==
    LET r == skipelem(path, name)
    IN  IF ~r.found THEN <<>> ELSE <<r.name>> \o Lookups(r.rest, r.name)

-----------------------------------------------------------------------------
(* The elements of a path, cut to DIRSIZ. *)
Starts(path) == {i \in DOMAIN path : path[i] # Slash /\ (i = 1 \/ path[i - 1] = Slash)}
Element(path, i) ==
    LET e == Min({j \in i .. Len(path) + 1 : CharAt(path, j) \in {Slash, NUL}})
    IN  SubSeq(path, i, Min({e - 1, i + DIRSIZ - 1}))
Elements(path) == [k \in 1 .. Cardinality(Starts(path)) |->
                     Element(path, SetToSortSeq(Starts(path), <)[k])]

PathsTried == UNION {[1 .. n -> Letters \cup {Slash}] : n \in 0 .. MaxPath}
NewNames == UNION {[1 .. n -> Letters] : n \in 1 .. DIRSIZ + 1}

(* A path is looked up element by element, and an element finds the entry that
   dirlink() wrote for a name exactly when the two agree in their first DIRSIZ
   characters, whatever a longer element has left in the buffer and whatever
   was in the entry before (fs.c:517, 572, 596).                           *)
NamesFound ==
    \A path \in PathsTried : \A stale \in Buffers :
       LET names == Lookups(path, stale)
       IN  /\ Len(names) = Len(Elements(path))
           /\ \A k \in DOMAIN names : \A new \in NewNames :
                 LET entry == strncpy(stale, skipelem(new, stale).name, DIRSIZ)
                 IN  namecmp_equal(names[k], entry)
                        <=> Elements(path)[k] = SubSeq(new, 1, Min({DIRSIZ, Len(new)}))
=============================================================================
