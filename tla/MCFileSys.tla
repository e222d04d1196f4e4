------------------------------ MODULE MCFileSys ------------------------------
(* A small instance of FileSys: one file made by mkfs, names "a" and "b". *)
EXTENDS FileSys

Abs(e) == [abs |-> TRUE, elems |-> e]
Rel(e) == [abs |-> FALSE, elems |-> e]

MCMkfsFiles == <<"a">>

MCPaths == {Abs(<<"a">>), Abs(<<"b">>), Abs(<<"b", "a">>), Rel(<<"..">>), Abs(<<>>)}

(* A link or copy to a new name, into the directory b, to an existing name
   and to a dot.                                                           *)
MCPairs == {<<Abs(<<"a">>), Abs(<<"b">>)>>, <<Abs(<<"a">>), Abs(<<"b", "a">>)>>,
            <<Abs(<<"a">>), Rel(<<"a">>)>>, <<Abs(<<"a">>), Abs(<<"b", ".">>)>>}

(* The names of the entries, which FileSys takes as they come.  The property has
   no variables: it is evaluated in the initial state.                     *)
Strings == INSTANCE FileNames WITH DIRSIZ <- 2, Letters <- {"x", "y"}, MaxPath <- 5

(* An element of a path finds the entry with the same first DIRSIZ characters,
   and no other (fs.c).                                                    *)
NamesFound == ncalls = 0 => Strings!NamesFound
=============================================================================
