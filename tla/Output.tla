------------------------------- MODULE Output -------------------------------
(***************************************************************************)
(* Console output: cprintf(), printint() and cgaputc() (console.c), over   *)
(* memmove() and memset() (string.c), and the printf() of user programs    *)
(* (printf.c).  Characters are one-character strings; text is a sequence.  *)
(***************************************************************************)
EXTENDS Integers, Sequences, SequencesExt, TLC

CONSTANTS WIDTH,     \* 2^32, scaled: ints are -WIDTH/2 .. WIDTH/2 - 1
          COLS,      \* 80
          ROWS,      \* 24 rows in use
          MaxText,   \* bound: characters put on the screen
          MaxFormat  \* bound: length of format strings

Blank == " "
BACKSPACE == "BACKSPACE"
Newline == "NEWLINE"
Ints == -(WIDTH \div 2) .. WIDTH \div 2 - 1
digits == <<"0","1","2","3","4","5","6","7","8","9","a","b","c","d","e","f">>

-----------------------------------------------------------------------------
(* Formatting *)

Digits[base \in {10, 16}, x \in 0 .. WIDTH - 1] ==
    IF x < base THEN <<digits[x + 1]>>
    ELSE Append(Digits[base, x \div base], digits[(x % base) + 1])

(* x = -xx or xx, as a uint. *)
printint(xx, base, sign) ==
    IF sign /\ xx < 0 THEN <<"-">> \o Digits[base, (-xx) % WIDTH]
    ELSE Digits[base, xx % WIDTH]

(* One conversion: what it prints, and whether it takes an argument. *)
Conversion(c, arg) ==
    CASE c = "d" -> printint(arg, 10, TRUE)
      [] c \in {"x", "p"} -> printint(arg, 16, FALSE)
      [] c = "s" -> IF arg = 0 THEN <<"(null)">> ELSE <<"string at", ToString(arg)>>
      [] OTHER -> IF c = "%" THEN <<"%">> ELSE <<"%", c>>
Takes(c) == c \in {"d", "x", "p", "s"}

(* cprintf() looks at the character behind a % at once ... *)
RECURSIVE cprintf(_, _)
cprintf(fmt, args) ==
    IF fmt = <<>> \/ fmt = <<"%">> THEN <<>>
    ELSE IF Head(fmt) # "%" THEN <<Head(fmt)>> \o cprintf(Tail(fmt), args)
    ELSE Conversion(fmt[2], Head(args))
         \o cprintf(SubSeq(fmt, 3, Len(fmt)), IF Takes(fmt[2]) THEN Tail(args) ELSE args)

(* ... and printf() remembers the % as its state.  It also knows %c, and writes
   the hexadecimal digits in capitals, which are not told apart here.      *)
printf(fmt, args) ==
    FoldLeft(LAMBDA r, c :
               IF ~r.state /\ c = "%" THEN [r EXCEPT !.state = TRUE]
               ELSE IF ~r.state THEN [r EXCEPT !.out = Append(@, c)]
               ELSE [state |-> FALSE,
                     out   |-> r.out \o (IF c = "c" THEN <<ToString(Head(r.ap))>>
                                         ELSE Conversion(c, Head(r.ap))),
                     ap    |-> IF Takes(c) \/ c = "c" THEN Tail(r.ap) ELSE r.ap],
             [state |-> FALSE, out |-> <<>>, ap |-> args], fmt).out

-----------------------------------------------------------------------------
(* The screen.  Positions count from 1 here, from 0 in the code. *)

memmove(mem, dst, src, n) ==
    LET up == [i \in 1 .. n |-> i - 1]
    IN  FoldLeft(LAMBDA m, i : [m EXCEPT ![dst + i] = m[src + i]], mem,
                 IF src < dst /\ src + n > dst THEN Reverse(up) ELSE up)

memset(mem, dst, c, n) ==
    [i \in DOMAIN mem |-> IF i \in dst .. dst + n - 1 THEN c ELSE mem[i]]

Screen == [crt |-> [i \in 1 .. (ROWS + 1) * COLS |-> Blank], pos |-> 0, panic |-> FALSE]

(* Fault: one row too few is moved. *)
scrollShort(crt, pos) ==
    memset(memmove(crt, 1, 1 + COLS, (ROWS - 2) * COLS), 1 + pos, Blank, ROWS * COLS - pos)

(* The rows move up, and the last is cleared. *)
scroll(crt, pos) ==
    memset(memmove(crt, 1, 1 + COLS, (ROWS - 1) * COLS), 1 + pos, Blank, ROWS * COLS - pos)

cgaputc(scr, c) ==
    LET pos1 == IF c = Newline THEN scr.pos + COLS - (scr.pos % COLS)
                ELSE IF c = BACKSPACE THEN (IF scr.pos > 0 THEN scr.pos - 1 ELSE 0)
                ELSE scr.pos + 1
        crt1 == IF c \in {Newline, BACKSPACE} THEN scr.crt
                ELSE [scr.crt EXCEPT ![1 + scr.pos] = c]
        full == pos1 \div COLS >= ROWS
        pos2 == IF full THEN pos1 - COLS ELSE pos1
        crt2 == IF full THEN scroll(crt1, pos2) ELSE crt1
    IN  IF scr.panic \/ pos1 > (ROWS + 1) * COLS THEN [scr EXCEPT !.panic = TRUE]
        ELSE [scr EXCEPT !.pos = pos2, !.crt = [crt2 EXCEPT ![1 + pos2] = Blank]]

consputc(text) == FoldLeft(cgaputc, Screen, text)

-----------------------------------------------------------------------------
(* Reference: a sheet of paper without an end, of which the screen has seen the
   rows from top on.  A backspace does not go back above them.             *)
Paper(text) ==
    FoldLeft(LAMBDA p, c :
               LET at  == IF c = Newline THEN p.at + COLS - (p.at % COLS)
                          ELSE IF c = BACKSPACE THEN (IF p.at > p.top THEN p.at - 1 ELSE p.at)
                          ELSE p.at + 1
                   top == IF at - p.top >= ROWS * COLS THEN p.top + COLS ELSE p.top
               IN  [cells |-> [i \in DOMAIN p.cells |->
                                 IF i = at THEN Blank
                                 ELSE IF i = p.at /\ c \notin {Newline, BACKSPACE} THEN c
                                 ELSE p.cells[i]],
                    at |-> at, top |-> top],
             [cells |-> [i \in 0 .. (Len(text) + ROWS + 1) * COLS |-> Blank], at |-> 0, top |-> 0],
             text)

DigitOf(c) == (CHOOSE i \in 1 .. 16 : digits[i] = c) - 1
Value(text, base) == FoldLeft(LAMBDA v, c : base * v + DigitOf(c), 0, text)
CommonChars == {"d", "x", "s", "%", "-"}

(* What is printed is what can be read: a number prints as digits of its value,
   the least one included, whose negation does not fit; cprintf() and printf()
   give the same text for a format that both know; and the screen shows the last rows
   of the text, with the cursor behind it, however often it has scrolled
   (console.c:27-163, printf.c:12-85).                                     *)
PrintedIsShown ==
    /\ \A xx \in Ints :
          /\ Value(printint(xx, 16, FALSE), 16) = xx % WIDTH
          /\ LET t == printint(xx, 10, TRUE)
             IN  IF Head(t) = "-" THEN Value(Tail(t), 10) = -xx ELSE Value(t, 10) = xx
    /\ \A n \in 0 .. MaxFormat : \A fmt \in [1 .. n -> CommonChars] : \A a, b \in {-1, 0} :
          cprintf(fmt, <<a, b, a, b>>) = printf(fmt, <<a, b, a, b>>)
    /\ \A n \in 0 .. MaxText : \A text \in [1 .. n -> {"a", "b", Newline, BACKSPACE}] :
          LET s == consputc(text)
              p == Paper(text)
          IN  /\ ~s.panic /\ s.pos = p.at - p.top
              /\ \A i \in 0 .. ROWS * COLS - 1 : s.crt[1 + i] = p.cells[p.top + i]
=============================================================================
