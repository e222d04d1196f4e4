------------------------------ MODULE Console -------------------------------
(***************************************************************************)
(* The console's input: scan codes of the keyboard (kbd.c), the line that  *)
(* is edited in the input buffer, and the processes that read it           *)
(* (console.c).                                                            *)
(*                                                                         *)
(* consoleintr() and consoleread() share the buffer under cons.lock; a     *)
(* reader keeps the lock from one sleep to the next.  The indexes r, w and *)
(* e are unsigned and wrap around at Wrap.                                 *)
(***************************************************************************)
EXTENDS Integers, Sequences

CONSTANTS Readers,
          Keys,       \* keys on the keyboard, <<name, has the E0 prefix>>
          INPUT_BUF, Wrap,
          MaxCount    \* bound: largest n of a read

(* INPUT_BUF is 128, and Wrap 2^32. *)
ASSUME WrapAssumption == /\ INPUT_BUF \in Nat \ {0} /\ Wrap \in Nat /\ MaxCount \in Nat
                         /\ Wrap % INPUT_BUF = 0 /\ Wrap > INPUT_BUF

(* E0 is a prefix, and no key. *)
ASSUME KeysAssumption == \A key \in Keys : key \in STRING \X BOOLEAN /\ key[1] # "E0"

VARIABLES held,   \* the modifier keys that are down
          wire,   \* scan codes on their way to the CPU
          shift,  \* kbdgetc()'s modifiers
          buf, r, w, e,
          holder, \* of cons.lock
          pc, n, target, killed

kbdVars == <<held, wire, shift>>
inputVars == <<buf, r, w, e>>
readVars == <<holder, pc, n, target, killed>>
vars == <<kbdVars, inputVars, readVars>>

Nobody == "nobody"
ASSUME ReadersAssumption == Nobody \notin Readers

ScanCodes == [key : {"E0"} \cup {key[1] : key \in Keys}, up : BOOLEAN]
Modifiers == {"SHIFT", "CTL", "CAPSLOCK", "E0ESC"}
Chars == {"a", "A", "newline", "^D", "^A"}

TypeOK ==
    /\ shift \subseteq Modifiers /\ held \subseteq Keys /\ wire \in Seq(ScanCodes)
    /\ buf \in [0 .. INPUT_BUF - 1 -> Chars]
    /\ r \in 0 .. Wrap - 1 /\ w \in 0 .. Wrap - 1 /\ e \in 0 .. Wrap - 1
    /\ pc \in [Readers -> {"user", "acquire", "test", "sleep", "asleep"}]
    /\ n \in [Readers -> 0 .. MaxCount] /\ target \in [Readers -> 0 .. MaxCount]
    /\ killed \in [Readers -> BOOLEAN]

Init ==
    /\ held = {} /\ wire = <<>> /\ shift = {}
    /\ buf = [i \in 0 .. INPUT_BUF - 1 |-> "a"] /\ r = 0 /\ w = 0 /\ e = 0
    /\ holder = Nobody
    /\ pc = [p \in Readers |-> "user"]
    /\ n = [p \in Readers |-> 0] /\ target = n /\ killed = [p \in Readers |-> FALSE]

-----------------------------------------------------------------------------
(* The keyboard: a modifier goes down or up and sends its scan code, another
   key is pressed and let go.                                              *)

Codes(key, up) == (IF key[2] THEN <<[key |-> "E0", up |-> FALSE]>> ELSE <<>>)
                   \o <<[key |-> key[1], up |-> up]>>

Modifier(key) == key[1] \in {"shift", "ctl"}

press(key) ==
    /\ wire = <<>> /\ key \notin held
    /\ held' = IF Modifier(key) THEN held \cup {key} ELSE held
    /\ wire' = IF Modifier(key) THEN Codes(key, FALSE)
               ELSE Codes(key, FALSE) \o Codes(key, TRUE)
    /\ UNCHANGED <<shift, inputVars, readVars>>

letgo(key) ==
    /\ wire = <<>> /\ key \in held
    /\ held' = held \ {key}
    /\ wire' = Codes(key, TRUE)
    /\ UNCHANGED <<shift, inputVars, readVars>>

(* shiftcode[] and togglecode[]; after E0 there are other keys. *)
shiftcode(key, e0) ==
    CASE key = "shift" /\ ~e0 -> {"SHIFT"}
      [] key = "ctl" -> {"CTL"}
      [] OTHER -> {}

Toggle(s, key, e0) ==
    IF key # "caps" \/ e0 THEN s
    ELSE IF "CAPSLOCK" \in s THEN s \ {"CAPSLOCK"} ELSE s \cup {"CAPSLOCK"}

Letters == [a |-> "^A", d |-> "^D", h |-> "^H", u |-> "^U"]

(* normalmap, shiftmap and ctlmap.  "NO" is 0, which is no character, and of
   a letter only its case is kept.                                         *)
charcode(s, key, e0) ==
    LET ctl == "CTL" \in s
        upper == ("SHIFT" \in s) # ("CAPSLOCK" \in s)
    IN CASE key = "enter" -> IF ctl THEN "return" ELSE "newline"
         [] key \in DOMAIN Letters /\ ~e0 ->
               IF ctl THEN Letters[key] ELSE IF upper THEN "A" ELSE "a"
         [] OTHER -> "NO"

(* Fault: the escape outlives the release of its key. *)
kbdgetcKeepsEscape(code) ==
    LET e0 == "E0ESC" \in shift
        pressed == Toggle((shift \ {"E0ESC"}) \cup shiftcode(code.key, e0), code.key, e0)
    IN IF code.key = "E0" THEN [shift |-> shift \cup {"E0ESC"}, c |-> "NO"]
       ELSE IF code.up THEN [shift |-> shift \ shiftcode(code.key, e0), c |-> "NO"]
       ELSE [shift |-> pressed, c |-> charcode(pressed, code.key, e0)]

kbdgetc(code) ==
    LET e0 == "E0ESC" \in shift
        pressed == Toggle((shift \ {"E0ESC"}) \cup shiftcode(code.key, e0), code.key, e0)
    IN IF code.key = "E0" THEN [shift |-> shift \cup {"E0ESC"}, c |-> "NO"]
       ELSE IF code.up THEN [shift |-> shift \ (shiftcode(code.key, e0) \cup {"E0ESC"}),
                             c |-> "NO"]
       ELSE [shift |-> pressed, c |-> charcode(pressed, code.key, e0)]

-----------------------------------------------------------------------------
(* consoleintr() for one character, which the lock makes one step. *)

Woken == [p \in Readers |-> IF pc[p] = "asleep" THEN "acquire" ELSE pc[p]]
Minus(a, b) == (a - b) % Wrap

(* Fault: a full buffer ends no line. *)
StoreUnfinished(c) ==
    LET done == c \in {"newline", "^D"}
    IN /\ buf' = [buf EXCEPT ![e % INPUT_BUF] = c]
       /\ e' = (e + 1) % Wrap
       /\ w' = IF done THEN e' ELSE w
       /\ pc' = IF done THEN Woken ELSE pc

(* Fault: the readers are not woken for ^D. *)
StoreSilent(c) ==
    LET done == c \in {"newline", "^D"} \/ Minus(e + 1, r) = INPUT_BUF
    IN /\ buf' = [buf EXCEPT ![e % INPUT_BUF] = c]
       /\ e' = (e + 1) % Wrap
       /\ w' = IF done THEN e' ELSE w
       /\ pc' = IF done /\ c # "^D" THEN Woken ELSE pc

Store(c) ==
    LET done == c \in {"newline", "^D"} \/ Minus(e + 1, r) = INPUT_BUF
    IN /\ buf' = [buf EXCEPT ![e % INPUT_BUF] = c]
       /\ e' = (e + 1) % Wrap
       /\ w' = IF done THEN e' ELSE w
       /\ pc' = IF done THEN Woken ELSE pc

(* Where ^U stops: at w, or after a newline. *)
KillLine ==
    LET back == {k \in 0 .. Minus(e, w) :
                    \A i \in 1 .. k : buf[Minus(e, i) % INPUT_BUF] # "newline"}
    IN Minus(e, CHOOSE k \in back : \A j \in back : j <= k)

consoleintr(c) ==
    CASE c = "^U" -> e' = KillLine /\ UNCHANGED <<buf, r, w, pc>>
      [] c = "^H" -> /\ e' = IF e # w THEN Minus(e, 1) ELSE e
                     /\ UNCHANGED <<buf, r, w, pc>>
      [] OTHER -> IF c # "NO" /\ Minus(e, r) < INPUT_BUF
                  THEN Store(IF c = "return" THEN "newline" ELSE c) /\ r' = r
                  ELSE UNCHANGED <<inputVars, pc>>

kbdintr ==
    LET got == kbdgetc(Head(wire))
    IN /\ wire # <<>> /\ holder = Nobody
       /\ wire' = Tail(wire)
       /\ shift' = got.shift
       /\ consoleintr(got.c)
       /\ UNCHANGED <<held, holder, n, target, killed>>

-----------------------------------------------------------------------------
(* consoleread() *)

Call(p, count) ==
    /\ pc[p] = "user" /\ ~killed[p]
    /\ pc' = [pc EXCEPT ![p] = "acquire"]
    /\ n' = [n EXCEPT ![p] = count] /\ target' = [target EXCEPT ![p] = count]
    /\ UNCHANGED <<kbdVars, inputVars, holder, killed>>

Acquire(p) ==
    /\ pc[p] = "acquire" /\ holder = Nobody
    /\ holder' = p
    /\ pc' = [pc EXCEPT ![p] = "test"]
    /\ UNCHANGED <<kbdVars, inputVars, n, target, killed>>

Return(p) ==
    /\ pc' = [pc EXCEPT ![p] = "user"] /\ holder' = Nobody
    /\ n' = [n EXCEPT ![p] = 0] /\ target' = [target EXCEPT ![p] = 0]

ReadEmpty(p) ==
    /\ pc[p] = "test" /\ n[p] > 0 /\ r = w
    /\ IF killed[p] THEN Return(p)
       ELSE pc' = [pc EXCEPT ![p] = "sleep"] /\ UNCHANGED <<holder, n, target>>
    /\ UNCHANGED <<kbdVars, inputVars, killed>>

(* One character.  ^D stays for the next call unless it comes first. *)
ReadChar(p) ==
    LET c == buf[r % INPUT_BUF]
    IN /\ pc[p] = "test" /\ n[p] > 0 /\ r # w
       /\ r' = IF c = "^D" /\ n[p] < target[p] THEN r ELSE (r + 1) % Wrap
       /\ IF c \in {"^D", "newline"} THEN Return(p)
          ELSE n' = [n EXCEPT ![p] = @ - 1] /\ UNCHANGED <<holder, pc, target>>
       /\ UNCHANGED <<kbdVars, buf, w, e, killed>>

ReadDone(p) ==
    /\ pc[p] = "test" /\ n[p] = 0
    /\ Return(p)
    /\ UNCHANGED <<kbdVars, inputVars, killed>>

(* sleep(&input.r, &cons.lock) *)
Sleep(p) ==
    /\ pc[p] = "sleep"
    /\ pc' = [pc EXCEPT ![p] = "asleep"] /\ holder' = Nobody
    /\ UNCHANGED <<kbdVars, inputVars, n, target, killed>>

kill(p) ==
    /\ ~killed[p]
    /\ killed' = [killed EXCEPT ![p] = TRUE]
    /\ pc' = [pc EXCEPT ![p] = IF @ = "asleep" THEN "acquire" ELSE @]
    /\ UNCHANGED <<kbdVars, inputVars, holder, n, target>>

Next ==
    \/ \E key \in Keys : press(key) \/ letgo(key)
    \/ kbdintr
    \/ \E p \in Readers :
          \/ \E count \in 1 .. MaxCount : Call(p, count)
          \/ Acquire(p) \/ ReadEmpty(p) \/ ReadChar(p) \/ ReadDone(p) \/ Sleep(p)
          \/ kill(p)

Spec == Init /\ [][Next]_vars

-----------------------------------------------------------------------------
(* Properties *)

Between(from, to) == [k \in 1 .. Minus(to, from) |-> buf[(from + k - 1) % INPUT_BUF]]

(* The circular buffer with its three indexes is a queue of finished lines and
   a line under edit: nothing typed is lost or doubled, ^H and ^U reach only
   the unfinished line, and a full buffer ends it, also when the indexes wrap
   around (console.c:201-226, 251-258).                                    *)
Lines == INSTANCE LineQueue WITH lines <- Between(r, w), edit <- Between(w, e),
            Capacity <- INPUT_BUF, Ends <- {"newline", "^D"}
ImplementsLines == Lines!Spec

(* No reader sleeps while there is a finished line (console.c:220-222, 248). *)
SleepsOnEmpty == \A p \in Readers : pc[p] = "asleep" => r = w

(* A modifier is on only while one of its keys is down: releases and E0
   prefixes in any order leave none stuck (kbd.c:21-35).                   *)
NoStuckModifier ==
    wire = <<>> =>
       /\ "E0ESC" \notin shift
       /\ \A m \in {<<"SHIFT", "shift">>, <<"CTL", "ctl">>} :
             m[1] \in shift => \E key \in held : key[1] = m[2]

-----------------------------------------------------------------------------
(* What these rest on.  Of the keyboard: the wire has what remains of the codes
   of one key, the escape is on just after its prefix, and a modifier is on while
   a key of it is held or the release that ends it is on the wire.         *)
Rest(key, up, more) ==
    LET code == Codes(key, up) \o more
    IN \/ wire = code /\ "E0ESC" \notin shift
       \/ key[2] /\ wire = Tail(code) /\ "E0ESC" \in shift

OnTheWire ==
    \/ wire = <<>> /\ "E0ESC" \notin shift
    \/ \E key \in Keys :
          \/ Rest(key, TRUE, <<>>)
          \/ Modifier(key) /\ key \in held /\ Rest(key, FALSE, <<>>)
          \/ ~Modifier(key) /\ Rest(key, FALSE, Codes(key, TRUE))

ModifiersHeld ==
    /\ "SHIFT" \in shift =>
          \/ <<"shift", FALSE>> \in held
          \/ wire = Codes(<<"shift", FALSE>>, TRUE) /\ "E0ESC" \notin shift
    /\ "CTL" \in shift =>
          \/ \E key \in held : key[1] = "ctl"
          \/ wire # <<>> /\ wire[Len(wire)] = [key |-> "ctl", up |-> TRUE]

KbdInv == OnTheWire /\ ModifiersHeld

(* Of the buffer: the indexes are in order and no further apart than its size,
   and the line under edit has no newline.  Of the readers: who has tested the
   buffer and found it empty keeps cons.lock until it sleeps.              *)
InOrder == Minus(w, r) + Minus(e, w) <= INPUT_BUF

Unfinished == \A k \in 1 .. Minus(e, w) : buf[(w + k - 1) % INPUT_BUF] # "newline"

LockOwner == \A p \in Readers : pc[p] \in {"test", "sleep"} <=> holder = p

AboutToSleep == \A p \in Readers : pc[p] = "sleep" => r = w

InputInv == TypeOK /\ InOrder /\ Unfinished /\ LockOwner /\ AboutToSleep /\ SleepsOnEmpty

IInv == KbdInv /\ InputInv
=============================================================================
