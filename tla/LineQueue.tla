----------------------------- MODULE LineQueue ------------------------------
(* What the console promises its readers: the line being typed can be edited
   until it is finished, and finished lines are read in order.             *)
EXTENDS Integers, Sequences

CONSTANTS Capacity, Chars, Ends

VARIABLES lines, \* finished and not yet read
          edit   \* the line being typed

Init == lines = <<>> /\ edit = <<>>

Type(c) ==
    LET typed == Append(edit, c)
        finished == c \in Ends \/ Len(lines) + Len(typed) = Capacity
    IN /\ Len(lines) + Len(edit) < Capacity
       /\ lines' = IF finished THEN lines \o typed ELSE lines
       /\ edit' = IF finished THEN <<>> ELSE typed

Erase ==
    /\ edit # <<>>
    /\ edit' = SubSeq(edit, 1, Len(edit) - 1)
    /\ lines' = lines

EraseLine == edit' = <<>> /\ lines' = lines

Read ==
    /\ lines # <<>>
    /\ lines' = Tail(lines)
    /\ edit' = edit

Next == (\E c \in Chars : Type(c)) \/ Erase \/ EraseLine \/ Read

Spec == Init /\ [][Next]_<<lines, edit>>
=============================================================================
