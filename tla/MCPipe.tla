------------------------------- MODULE MCPipe -------------------------------
(* The pipe, and the shell that connects programs by pipes.  The properties of
   the shell have no variables: they are evaluated in the initial states.   *)
EXTENDS Pipe, Shell, TLC

MCSymmetry == Permutations(Readers) \cup Permutations(Writers)

(* A command line and the tree that sh.c makes of it say the same. *)
LineParsed == Init => ParsesGrammar

(* The programs of a command line start with the pipe ends it gives them, and
   no other (sh.c).                                                        *)
LineWired == Init => PipelineWired
=============================================================================
