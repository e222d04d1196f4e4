----------------------------- MODULE MCConsole ------------------------------
(* Two Ctrl keys, the right one with the E0 prefix, and a few others. *)
EXTENDS Console, TLC

MCKeys == {<<"ctl", FALSE>>, <<"ctl", TRUE>>, <<"d", FALSE>>,
           <<"h", FALSE>>, <<"u", FALSE>>, <<"enter", FALSE>>}
Symmetry == Permutations(Readers)

(* The output side.  The property has no variables: it is evaluated in the
   initial state.                                                          *)
Out == INSTANCE Output WITH WIDTH <- 256, COLS <- 2, ROWS <- 3, MaxText <- 7, MaxFormat <- 4

(* Numbers and text that are printed can be read on the screen (console.c). *)
PrintedIsShown == Init => Out!PrintedIsShown
=============================================================================
