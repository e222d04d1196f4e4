--------------------------- MODULE ConsoleProofs ----------------------------
(***************************************************************************)
(* Proofs about the console's input, for every keyboard, every size of the *)
(* buffer and every number of readers.                                     *)
(***************************************************************************)
EXTENDS Console, RingLemmas

-----------------------------------------------------------------------------
(* The keyboard *)

Code(key, up) == [key |-> key[1], up |-> up]
E0 == [key |-> "E0", up |-> FALSE]

LEMMA ConsFacts ==
    ASSUME NEW a \in ScanCodes, NEW s \in Seq(ScanCodes)
    PROVE  /\ <<a>> \o s \in Seq(ScanCodes) /\ <<a>> \o s # <<>>
           /\ Head(<<a>> \o s) = a /\ Tail(<<a>> \o s) = s
           /\ s = <<>> => (<<a>> \o s)[Len(<<a>> \o s)] = a
           /\ s # <<>> => (<<a>> \o s)[Len(<<a>> \o s)] = s[Len(s)]
<1> DEFINE t == <<a>> \o s
<1>1. t \in Seq(ScanCodes) /\ Len(t) = Len(s) + 1 /\ Len(s) \in Nat
  OBVIOUS
<1>2. t[1] = a /\ \A i \in 1 .. Len(s) : t[i + 1] = s[i]
  OBVIOUS
<1> HIDE DEF t
<1>3. t # <<>> /\ Head(t) = a
  BY <1>1, <1>2
<1>4. Tail(t) = s
  BY <1>1, <1>2
<1>5. s = <<>> => t[Len(t)] = a
  BY <1>1, <1>2
<1>6. s # <<>> => t[Len(t)] = s[Len(s)]
  <2> SUFFICES ASSUME s # <<>> PROVE t[Len(t)] = s[Len(s)]
    OBVIOUS
  <2>1. Len(s) \in 1 .. Len(s)
    BY <1>1
  <2> QED
    BY <1>1, <1>2, <2>1
<1> QED
  BY <1>1, <1>3, <1>4, <1>5, <1>6 DEF t

LEMMA CodesCons ==
    ASSUME NEW key \in Keys, NEW up \in BOOLEAN, NEW more \in Seq(ScanCodes)
    PROVE  /\ Code(key, up) \in ScanCodes /\ E0 \in ScanCodes
           /\ ~key[2] => Codes(key, up) \o more = <<Code(key, up)>> \o more
           /\ key[2] => Codes(key, up) \o more = <<E0>> \o (<<Code(key, up)>> \o more)
           /\ Codes(key, up) \in Seq(ScanCodes)
           /\ Codes(key, up) \o <<>> = Codes(key, up)
<1>1. Code(key, up) \in ScanCodes /\ E0 \in ScanCodes
  BY DEF Code, E0, ScanCodes
<1> DEFINE c == Code(key, up)
<1>2. Codes(key, up) = IF key[2] THEN <<E0>> \o <<c>> ELSE <<>> \o <<c>>
  BY Zenon DEF Codes, Code, E0
<1>3. c \in ScanCodes /\ E0 \in ScanCodes
  BY <1>1
<1> HIDE DEF c
<1>4. /\ <<>> \o <<c>> = <<c>> /\ <<c>> \in Seq(ScanCodes) /\ <<E0>> \in Seq(ScanCodes)
      /\ <<E0>> \o <<c>> \in Seq(ScanCodes)
  BY <1>3
<1>5. (<<E0>> \o <<c>>) \o more = <<E0>> \o (<<c>> \o more)
  BY <1>3
<1>6. \A t \in Seq(ScanCodes) : t \o <<>> = t
  OBVIOUS
<1>7. Codes(key, up) \in Seq(ScanCodes)
  BY <1>2, <1>4, Zenon
<1>8. Codes(key, up) \o <<>> = Codes(key, up)
  BY <1>6, <1>7, Zenon
<1> QED
  BY <1>1, <1>2, <1>4, <1>5, <1>7, <1>8, Zenon DEF c

LEMMA PrefixFacts ==
    ASSUME NEW t \in Seq(ScanCodes), t # <<>>
    PROVE  /\ Head(<<E0>> \o t) = E0 /\ Tail(<<E0>> \o t) = t
           /\ (<<E0>> \o t)[Len(<<E0>> \o t)] = t[Len(t)]
<1>1. E0 \in ScanCodes
  BY DEF E0, ScanCodes
<1> QED
  BY <1>1, ConsFacts

(* The codes of a release end with the release. *)
LEMMA LastCode ==
    ASSUME NEW key \in Keys
    PROVE  Codes(key, TRUE)[Len(Codes(key, TRUE))] = Code(key, TRUE)
<1> DEFINE c == Code(key, TRUE)
<1>1. <<>> \in Seq(ScanCodes) /\ TRUE \in BOOLEAN
  OBVIOUS
<1>2. /\ c \in ScanCodes
      /\ ~key[2] => Codes(key, TRUE) = <<c>> \o <<>>
      /\ key[2] => Codes(key, TRUE) = <<E0>> \o (<<c>> \o <<>>)
  BY <1>1, CodesCons, Zenon
<1> HIDE DEF c
<1>3. <<c>> \o <<>> \in Seq(ScanCodes) /\ <<c>> \o <<>> # <<>> /\ (<<c>> \o <<>>)[Len(<<c>> \o <<>>)] = c
  BY <1>1, <1>2, ConsFacts
<1> DEFINE t == <<c>> \o <<>>
<1>4. t \in Seq(ScanCodes) /\ t # <<>> /\ t[Len(t)] = c
  BY <1>3
<1>5. /\ ~key[2] => Codes(key, TRUE) = t
      /\ key[2] => Codes(key, TRUE) = <<E0>> \o t
  BY ZenonT(30), <1>2
<1> HIDE DEF t
<1>6. (<<E0>> \o t)[Len(<<E0>> \o t)] = c
  BY <1>4, PrefixFacts
<1> QED
  BY ZenonT(30), <1>4, <1>5, <1>6 DEF c

CharCodes == {"newline", "return", "^A", "^D", "^H", "^U", "A", "a", "NO"}

(* What a scan code does to the modifiers. *)
LEMMA kbdgetcFacts ==
    ASSUME NEW code \in ScanCodes
    PROVE  LET s == kbdgetc(code).shift
               e0 == "E0ESC" \in shift
           IN  /\ code.key = "E0" => s = shift \cup {"E0ESC"}
               /\ code.key # "E0" => "E0ESC" \notin s
               /\ "SHIFT" \in s => \/ "SHIFT" \in shift
                                   \/ code.key = "shift" /\ ~code.up /\ ~e0
               /\ "CTL" \in s => "CTL" \in shift \/ (code.key = "ctl" /\ ~code.up)
               /\ code.up /\ code.key = "shift" /\ ~e0 => "SHIFT" \notin s
               /\ code.up /\ code.key = "ctl" => "CTL" \notin s
               /\ shift \subseteq Modifiers => s \subseteq Modifiers
               /\ kbdgetc(code).c \in CharCodes
<1> DEFINE e0 == "E0ESC" \in shift
           held1 == shiftcode(code.key, e0)
           pressed == Toggle((shift \ {"E0ESC"}) \cup held1, code.key, e0)
<1>1. /\ code.key = "shift" /\ ~e0 => held1 = {"SHIFT"}
      /\ code.key = "ctl" => held1 = {"CTL"}
      /\ code.key # "ctl" /\ ~(code.key = "shift" /\ ~e0) => held1 = {}
  BY DEF shiftcode
<1>2. \A x \in {"SHIFT", "CTL", "E0ESC"} : x \in pressed <=> x \in (shift \ {"E0ESC"}) \cup held1
  BY DEF Toggle
<1>3. shift \subseteq Modifiers => pressed \subseteq Modifiers
  BY <1>1, ZenonT(30) DEF Toggle, Modifiers
<1>4. charcode(pressed, code.key, e0) \in CharCodes
  BY DEF charcode, CharCodes, Letters
<1>5. kbdgetc(code) = IF code.key = "E0" THEN [shift |-> shift \cup {"E0ESC"}, c |-> "NO"]
                      ELSE IF code.up THEN [shift |-> shift \ (held1 \cup {"E0ESC"}), c |-> "NO"]
                      ELSE [shift |-> pressed, c |-> charcode(pressed, code.key, e0)]
  BY Zenon DEF kbdgetc
<1> HIDE DEF pressed, held1
<1>6. CASE code.key = "E0"
  BY <1>5, <1>6 DEF CharCodes, Modifiers
<1>7. CASE code.key # "E0" /\ code.up
  BY <1>1, <1>5, <1>7 DEF CharCodes
<1>8. CASE code.key # "E0" /\ ~code.up
  BY <1>1, <1>2, <1>3, <1>4, <1>5, <1>8
<1> QED
  BY <1>6, <1>7, <1>8

LEMMA RestFacts ==
    ASSUME NEW key \in Keys, NEW up \in BOOLEAN, NEW more \in Seq(ScanCodes),
           Rest(key, up, more)
    PROVE  \/ /\ key[2] /\ "E0ESC" \notin shift
              /\ wire = <<E0>> \o (<<Code(key, up)>> \o more)
           \/ /\ "E0ESC" \in shift <=> key[2]
              /\ wire = <<Code(key, up)>> \o more
<1> DEFINE t == <<Code(key, up)>> \o more
<1>1. t \in Seq(ScanCodes) /\ E0 \in ScanCodes
  BY CodesCons, ConsFacts, Zenon
<1>2. Tail(<<E0>> \o t) = t
  BY <1>1, ConsFacts, Zenon
<1> QED
  BY <1>2, CodesCons, ZenonT(30) DEF Rest

(* The keyboard interrupt takes one code off the wire. *)
TakesCode ==
    /\ wire # <<>> /\ wire' = Tail(wire) /\ held' = held
    /\ shift' = kbdgetc(Head(wire)).shift

(* The prefix turns the escape on. *)
LEMMA PrefixStep ==
    ASSUME NEW key \in Keys, NEW up \in BOOLEAN, NEW more \in Seq(ScanCodes),
           TakesCode, ModifiersHeld, key[2], "E0ESC" \notin shift,
           wire = <<E0>> \o (<<Code(key, up)>> \o more)
    PROVE  Rest(key, up, more)' /\ ModifiersHeld'
<1> DEFINE t == <<Code(key, up)>> \o more
<1>1. t \in Seq(ScanCodes) /\ E0 \in ScanCodes /\ t # <<>>
  BY CodesCons, ConsFacts
<1>2. wire = <<E0>> \o t
  OBVIOUS
<1>3. Codes(key, up) \o more = <<E0>> \o t
  BY CodesCons, ZenonT(30)
<1> HIDE DEF t
<1>4. Head(wire) = E0 /\ Tail(wire) = t /\ wire[Len(wire)] = t[Len(t)]
  <2>1. /\ Head(<<E0>> \o t) = E0 /\ Tail(<<E0>> \o t) = t
        /\ (<<E0>> \o t)[Len(<<E0>> \o t)] = t[Len(t)]
    BY <1>1, PrefixFacts
  <2> QED
    BY ZenonT(30), <1>2, <2>1
<1>5. shift' = shift \cup {"E0ESC"} /\ wire' = t /\ held' = held
  <2>1. E0.key = "E0"
    BY DEF E0
  <2>2. kbdgetc(E0).shift = shift \cup {"E0ESC"}
    BY <1>1, <2>1, kbdgetcFacts, Zenon
  <2> QED
    BY <1>4, <2>2, Zenon DEF TakesCode
<1>6. Rest(key, up, more)'
  BY <1>2, <1>3, <1>4, <1>5, ZenonT(30) DEF Rest
<1>7. wire # Codes(<<"shift", FALSE>>, TRUE)
  <2>1. Codes(<<"shift", FALSE>>, TRUE) = <<>> \o <<[key |-> "shift", up |-> TRUE]>>
    BY Zenon DEF Codes
  <2>2. Head(<<>> \o <<[key |-> "shift", up |-> TRUE]>>) = [key |-> "shift", up |-> TRUE]
    OBVIOUS
  <2>3. [key |-> "shift", up |-> TRUE] # E0
    BY Zenon DEF E0
  <2> QED
    BY <1>4, <2>1, <2>2, <2>3, Zenon
<1>8. ModifiersHeld'
  BY ZenonT(30), <1>1, <1>4, <1>5, <1>7 DEF ModifiersHeld
<1> QED
  BY <1>6, <1>8

(* The code itself turns the escape off, and its modifier on or off. *)
LEMMA CodeStep ==
    ASSUME NEW key \in Keys, NEW up \in BOOLEAN, NEW more \in Seq(ScanCodes),
           TakesCode, ModifiersHeld, "E0ESC" \in shift <=> key[2],
           wire = <<Code(key, up)>> \o more,
           \/ up /\ more = <<>>
           \/ ~up /\ Modifier(key) /\ key \in held /\ more = <<>>
           \/ ~up /\ ~Modifier(key) /\ more = Codes(key, TRUE)
    PROVE  wire' = more /\ "E0ESC" \notin shift' /\ ModifiersHeld'
<1> DEFINE c == Code(key, up)
<1>1. c \in ScanCodes /\ c.key = key[1] /\ c.up = up /\ key[1] # "E0"
  <2>1. c \in ScanCodes
    BY CodesCons
  <2> QED
    BY <2>1, KeysAssumption DEF Code
<1>2. wire = <<c>> \o more
  OBVIOUS
<1>3. Head(wire) = c /\ wire' = more /\ wire[Len(wire)] = (IF more = <<>> THEN c ELSE more[Len(more)])
  BY <1>1, <1>2, ConsFacts DEF TakesCode
<1> DEFINE e0 == "E0ESC" \in shift
<1>4. /\ "E0ESC" \notin shift'
      /\ "SHIFT" \in shift' => "SHIFT" \in shift \/ (key[1] = "shift" /\ ~up /\ ~e0)
      /\ "CTL" \in shift' => "CTL" \in shift \/ (key[1] = "ctl" /\ ~up)
      /\ up /\ key[1] = "shift" /\ ~e0 => "SHIFT" \notin shift'
      /\ up /\ key[1] = "ctl" => "CTL" \notin shift'
  <2>1. shift' = kbdgetc(c).shift
    BY <1>3, Zenon DEF TakesCode
  <2> HIDE DEF c
  <2> QED
    BY <1>1, <2>1, kbdgetcFacts, Zenon
<1>5. wire = Codes(<<"shift", FALSE>>, TRUE) => key[1] = "shift" /\ up
  <2>1. Codes(<<"shift", FALSE>>, TRUE) = <<>> \o <<[key |-> "shift", up |-> TRUE]>>
    BY Zenon DEF Codes
  <2>2. Head(<<>> \o <<[key |-> "shift", up |-> TRUE]>>) = [key |-> "shift", up |-> TRUE]
    OBVIOUS
  <2>3. c = [key |-> "shift", up |-> TRUE] => key[1] = "shift" /\ up
    BY DEF Code
  <2> QED
    BY <1>3, <2>1, <2>2, <2>3, Zenon
<1>6. more # <<>> => more[Len(more)] = Code(key, TRUE) /\ ~Modifier(key) /\ ~up
  <2> SUFFICES ASSUME more # <<>> PROVE more[Len(more)] = Code(key, TRUE)
    BY Zenon
  <2>1. more = Codes(key, TRUE)
    BY ZenonT(30)
  <2> QED
    BY ZenonT(30), <2>1, LastCode
<1>7. wire[Len(wire)] = [key |-> "ctl", up |-> TRUE] => key[1] = "ctl" /\ up
  <2>1. \A u \in BOOLEAN : Code(key, u) = [key |-> "ctl", up |-> TRUE] => key[1] = "ctl" /\ u
    BY DEF Code
  <2>2. key[1] = "ctl" => Modifier(key)
    BY DEF Modifier
  <2> QED
    BY <1>3, <1>6, <2>1, <2>2, Zenon
<1>8. held' = held
  BY DEF TakesCode
<1> HIDE DEF c
<1>9. "SHIFT" \in shift' => <<"shift", FALSE>> \in held
  <2>1. key = <<key[1], key[2]>> /\ key[2] \in BOOLEAN
    BY KeysAssumption
  <2>2. key[1] = "shift" /\ ~e0 => Modifier(key) /\ key = <<"shift", FALSE>>
    BY <2>1, Zenon DEF Modifier
  <2> QED
    BY <1>4, <1>5, <2>2, Zenon DEF ModifiersHeld
<1>10. "CTL" \in shift' => \E k \in held : k[1] = "ctl"
  <2>1. key[1] = "ctl" => Modifier(key)
    BY DEF Modifier
  <2> QED
    BY <1>4, <1>7, <2>1, Zenon DEF ModifiersHeld
<1> QED
  BY <1>3, <1>4, <1>8, <1>9, <1>10, Zenon DEF ModifiersHeld

LEMMA CodeTaken ==
    ASSUME KbdInv, TakesCode
    PROVE  KbdInv'
<1>1. PICK key \in Keys : \/ Rest(key, TRUE, <<>>)
                          \/ Modifier(key) /\ key \in held /\ Rest(key, FALSE, <<>>)
                          \/ ~Modifier(key) /\ Rest(key, FALSE, Codes(key, TRUE))
  BY Zenon DEF KbdInv, OnTheWire, TakesCode
<1>2. ModifiersHeld /\ held' = held
  BY DEF KbdInv, TakesCode
<1>3. /\ <<>> \in Seq(ScanCodes) /\ TRUE \in BOOLEAN /\ FALSE \in BOOLEAN
      /\ Codes(key, TRUE) \in Seq(ScanCodes)
  <2>1. <<>> \in Seq(ScanCodes) /\ TRUE \in BOOLEAN /\ FALSE \in BOOLEAN
    OBVIOUS
  <2> QED
    BY ZenonT(30), <2>1, CodesCons
<1>4. PICK up \in BOOLEAN, more \in Seq(ScanCodes) :
         /\ Rest(key, up, more)
         /\ \/ up /\ more = <<>>
            \/ ~up /\ Modifier(key) /\ key \in held /\ more = <<>>
            \/ ~up /\ ~Modifier(key) /\ more = Codes(key, TRUE)
  BY <1>1, <1>3, Zenon
<1>5. CASE key[2] /\ "E0ESC" \notin shift /\ wire = <<E0>> \o (<<Code(key, up)>> \o more)
  <2>1. Rest(key, up, more)' /\ ModifiersHeld'
    BY <1>2, <1>5, PrefixStep, ZenonT(30)
  <2>2. OnTheWire'
    BY <1>2, <1>4, <2>1, Zenon DEF OnTheWire
  <2> QED
    BY <2>1, <2>2 DEF KbdInv
<1>6. CASE ("E0ESC" \in shift <=> key[2]) /\ wire = <<Code(key, up)>> \o more
  <2>1. wire' = more /\ "E0ESC" \notin shift' /\ ModifiersHeld'
    BY ZenonT(30), <1>2, <1>4, <1>6, CodeStep
  <2>2. CASE more = <<>>
    BY ZenonT(30), <2>1, <2>2 DEF KbdInv, OnTheWire
  <2>3. CASE more = Codes(key, TRUE)
    <3>1. Codes(key, TRUE) \o <<>> = Codes(key, TRUE)
      BY <1>3, CodesCons
    <3>2. Rest(key, TRUE, <<>>)'
      BY <2>1, <2>3, <3>1, Zenon DEF Rest
    <3> QED
      BY <2>1, <3>2, Zenon DEF KbdInv, OnTheWire
  <2> QED
    BY ZenonT(30), <1>4, <2>2, <2>3
<1> QED
  BY <1>4, <1>5, <1>6, RestFacts

(* When all codes are taken, a modifier that is on has a key that is down. *)
LEMMA EmptyWire ==
    ASSUME KbdInv, wire = <<>>
    PROVE  /\ "E0ESC" \notin shift
           /\ "SHIFT" \in shift => <<"shift", FALSE>> \in held
           /\ "CTL" \in shift => \E key \in held : key[1] = "ctl"
<1>1. ASSUME NEW key \in Keys, NEW up \in BOOLEAN, NEW more \in Seq(ScanCodes)
      PROVE  ~Rest(key, up, more)
  <2>1. Code(key, up) \in ScanCodes /\ E0 \in ScanCodes
    BY ZenonT(30), <1>1, CodesCons
  <2>2. <<Code(key, up)>> \o more \in Seq(ScanCodes) /\ <<Code(key, up)>> \o more # <<>>
    BY <2>1, ConsFacts
  <2>3. <<E0>> \o (<<Code(key, up)>> \o more) # <<>>
    BY <2>1, <2>2, ConsFacts
  <2> QED
    BY ZenonT(30), <2>2, <2>3, RestFacts
<1>2. "E0ESC" \notin shift
  <2>1. <<>> \in Seq(ScanCodes) /\ TRUE \in BOOLEAN /\ FALSE \in BOOLEAN
    OBVIOUS
  <2>2. \A key \in Keys : Codes(key, TRUE) \in Seq(ScanCodes)
    BY ZenonT(30), <2>1, CodesCons
  <2> QED
    BY <1>1, <2>1, <2>2, Zenon DEF KbdInv, OnTheWire
<1>3. Codes(<<"shift", FALSE>>, TRUE) # <<>>
  BY DEF Codes
<1> QED
  BY <1>2, <1>3, Zenon DEF KbdInv, ModifiersHeld

(* A key that goes down or up puts its codes on the empty wire. *)
LEMMA pressKbd ==
    ASSUME KbdInv, NEW key \in Keys, press(key)
    PROVE  KbdInv'
<1>1. /\ wire = <<>> /\ shift' = shift
      /\ Modifier(key) => wire' = Codes(key, FALSE) /\ held' = held \cup {key}
      /\ ~Modifier(key) => wire' = Codes(key, FALSE) \o Codes(key, TRUE) /\ held' = held
  BY Zenon DEF press
<1>2. /\ "E0ESC" \notin shift
      /\ "SHIFT" \in shift => <<"shift", FALSE>> \in held
      /\ "CTL" \in shift => \E k \in held : k[1] = "ctl"
  BY <1>1, EmptyWire
<1>3. held \subseteq held'
  BY ZenonT(30), <1>1
<1>4. ModifiersHeld'
  BY <1>1, <1>2, <1>3, Zenon DEF ModifiersHeld
<1>5. Codes(key, FALSE) \o <<>> = Codes(key, FALSE)
  <2>1. <<>> \in Seq(ScanCodes) /\ FALSE \in BOOLEAN
    OBVIOUS
  <2> QED
    BY <2>1, CodesCons
<1>6. Modifier(key) => Rest(key, FALSE, <<>>)' /\ key \in held'
  BY ZenonT(30), <1>1, <1>2, <1>5 DEF Rest
<1>7. ~Modifier(key) => Rest(key, FALSE, Codes(key, TRUE))'
  BY <1>1, <1>2, Zenon DEF Rest
<1> QED
  BY <1>4, <1>6, <1>7, Zenon DEF KbdInv, OnTheWire

LEMMA letgoKbd ==
    ASSUME KbdInv, NEW key \in Keys, letgo(key)
    PROVE  KbdInv'
<1>1. /\ wire = <<>> /\ shift' = shift
      /\ wire' = Codes(key, TRUE) /\ held' = held \ {key}
  BY DEF letgo
<1>2. /\ "E0ESC" \notin shift
      /\ "SHIFT" \in shift => <<"shift", FALSE>> \in held
      /\ "CTL" \in shift => \E k \in held : k[1] = "ctl"
  BY <1>1, EmptyWire
<1>3. Codes(key, TRUE) \o <<>> = Codes(key, TRUE)
  <2>1. <<>> \in Seq(ScanCodes) /\ TRUE \in BOOLEAN
    OBVIOUS
  <2> QED
    BY <2>1, CodesCons
<1>4. Rest(key, TRUE, <<>>)'
  BY ZenonT(30), <1>1, <1>2, <1>3 DEF Rest
<1>5. "SHIFT" \in shift' => <<"shift", FALSE>> \in held' \/ wire' = Codes(<<"shift", FALSE>>, TRUE)
  BY <1>1, <1>2, Zenon
<1>6. key[1] = "ctl" => wire'[Len(wire')] = [key |-> "ctl", up |-> TRUE]
  BY <1>1, LastCode, Zenon DEF Code
<1>7. wire' # <<>>
  BY <1>1 DEF Codes
<1>8. "CTL" \in shift' => (\E k \in held' : k[1] = "ctl") \/ key[1] = "ctl"
  BY <1>1, <1>2, Zenon
<1>9. ModifiersHeld'
  BY <1>1, <1>2, <1>5, <1>6, <1>7, <1>8, Zenon DEF ModifiersHeld
<1> QED
  BY <1>4, <1>9, Zenon DEF KbdInv, OnTheWire

-----------------------------------------------------------------------------
(* The ring *)

Indexes == 0 .. Wrap - 1

LEMMA Distance ==
    ASSUME NEW x \in Indexes, NEW y \in Indexes
    PROVE  /\ Minus(y, x) \in 0 .. Wrap - 1
           /\ y >= x => Minus(y, x) = y - x
           /\ y < x => Minus(y, x) = y - x + Wrap
<1>1. Wrap \in Nat \ {0} /\ y - x \in -Wrap .. 2 * Wrap - 1
  BY WrapAssumption DEF Indexes
<1>2. /\ y - x \in 0 .. Wrap - 1 => (y - x) % Wrap = y - x
      /\ y - x < 0 => (y - x) % Wrap = y - x + Wrap
  BY <1>1, ModCases, ZenonT(30)
<1> DEFINE d == (y - x) % Wrap
<1> HIDE DEF d
<1>3. /\ y - x \in 0 .. Wrap - 1 => d = y - x
      /\ y - x < 0 => d = y - x + Wrap
  BY <1>2 DEF d
<1> QED
  BY <1>1, <1>3 DEF Indexes, d, Minus

(* One step forward, and one back. *)
LEMMA Succ ==
    ASSUME NEW y \in Indexes
    PROVE  /\ (y + 1) % Wrap \in Indexes
           /\ y + 1 < Wrap => (y + 1) % Wrap = y + 1
           /\ y + 1 >= Wrap => (y + 1) % Wrap = 0
<1>1. Wrap \in Nat \ {0} /\ y + 1 \in -Wrap .. 2 * Wrap - 1
  BY WrapAssumption DEF Indexes
<1> DEFINE a == y + 1
<1> HIDE DEF a
<1>2. /\ a \in 0 .. Wrap - 1 => a % Wrap = a
      /\ a >= Wrap => a % Wrap = a - Wrap
  <2>1. a \in -Wrap .. 2 * Wrap - 1
    BY <1>1 DEF a
  <2> QED
    BY <1>1, <2>1, ModCases, ZenonT(30)
<1> QED
  BY <1>1, <1>2 DEF a, Indexes

LEMMA Pred ==
    ASSUME NEW y \in Indexes
    PROVE  /\ Minus(y, 1) \in Indexes
           /\ y >= 1 => Minus(y, 1) = y - 1
           /\ y = 0 => Minus(y, 1) = Wrap - 1
<1>1. Wrap \in Nat \ {0} /\ 1 \in Indexes
  BY WrapAssumption DEF Indexes
<1>2. /\ Minus(y, 1) \in 0 .. Wrap - 1
      /\ y >= 1 => Minus(y, 1) = y - 1
      /\ y < 1 => Minus(y, 1) = y - 1 + Wrap
  BY <1>1, Distance
<1> QED
  BY <1>1, <1>2 DEF Indexes

LEMMA Further ==
    ASSUME NEW x \in Indexes, NEW y \in Indexes, Minus(y, x) < Wrap - 1
    PROVE  /\ Minus((y + 1) % Wrap, x) = Minus(y, x) + 1
           /\ Minus(y + 1, x) = Minus(y, x) + 1
<1> DEFINE z == (y + 1) % Wrap
           d == Minus(y, x)
           f == Minus(z, x)
<1>1. Wrap \in Nat /\ Wrap > 0
  BY WrapAssumption
<1>2. z \in Indexes /\ (y + 1 < Wrap => z = y + 1) /\ (y + 1 >= Wrap => z = 0)
  BY Succ
<1>3. /\ d \in 0 .. Wrap - 1
      /\ y >= x => d = y - x
      /\ y < x => d = y - x + Wrap
  BY Distance
<1> HIDE DEF z
<1>4. /\ f \in 0 .. Wrap - 1
      /\ z >= x => f = z - x
      /\ z < x => f = z - x + Wrap
  BY <1>2, Distance
<1>5. d < Wrap - 1
  OBVIOUS
<1> HIDE DEF d, f
<1>6. f = d + 1
  BY <1>1, <1>2, <1>3, <1>4, <1>5 DEF Indexes
<1>7. ((y + 1) - x) % Wrap = d + 1
  <2> DEFINE a == (y + 1) - x
  <2>1. Wrap \in Nat \ {0} /\ a \in -Wrap .. 2 * Wrap - 1
    BY <1>1 DEF Indexes
  <2>2. (y >= x => a = d + 1) /\ (y < x => a + Wrap = d + 1) /\ a \in Int
    BY <1>1, <1>3 DEF Indexes
  <2> HIDE DEF a
  <2>3. /\ a \in 0 .. Wrap - 1 => a % Wrap = a
        /\ a >= Wrap => a % Wrap = a - Wrap
        /\ a < 0 => a % Wrap = a + Wrap
    BY <2>1, ModCases, ZenonT(30)
  <2>4. a % Wrap = d + 1
    BY <1>1, <1>3, <1>5, <2>2, <2>3 DEF Indexes
  <2> QED
    BY <2>4 DEF a
<1>8. Minus(y + 1, x) = d + 1
  BY <1>7, Zenon DEF Minus
<1> QED
  BY <1>6, <1>8, Zenon DEF d, f, z

LEMMA Closer ==
    ASSUME NEW x \in Indexes, NEW y \in Indexes, x # y
    PROVE  /\ Minus(y, x) >= 1
           /\ Minus(Minus(y, 1), x) = Minus(y, x) - 1
           /\ Minus(y, (x + 1) % Wrap) = Minus(y, x) - 1
<1> DEFINE z == (x + 1) % Wrap
           b == Minus(y, 1)
           d == Minus(y, x)
           f == Minus(b, x)
           g == Minus(y, z)
<1>1. Wrap \in Nat /\ Wrap > 0
  BY WrapAssumption
<1>2. /\ z \in Indexes /\ (x + 1 < Wrap => z = x + 1) /\ (x + 1 >= Wrap => z = 0)
      /\ b \in Indexes /\ (y >= 1 => b = y - 1) /\ (y = 0 => b = Wrap - 1)
  BY Succ, Pred
<1>3. /\ d \in 0 .. Wrap - 1
      /\ y >= x => d = y - x
      /\ y < x => d = y - x + Wrap
  BY Distance
<1> HIDE DEF z, b
<1>4. /\ f \in 0 .. Wrap - 1
      /\ b >= x => f = b - x
      /\ b < x => f = b - x + Wrap
  BY <1>2, Distance
<1>5. /\ g \in 0 .. Wrap - 1
      /\ y >= z => g = y - z
      /\ y < z => g = y - z + Wrap
  BY <1>2, Distance
<1> HIDE DEF d, f, g
<1>6. d >= 1
  BY <1>1, <1>3 DEF Indexes
<1>7. f = d - 1
  BY <1>1, <1>2, <1>3, <1>4 DEF Indexes
<1>8. g = d - 1
  BY <1>1, <1>2, <1>3, <1>5 DEF Indexes
<1> QED
  BY <1>6, <1>7, <1>8 DEF d, f, g, z, b

LEMMA Sum ==
    ASSUME NEW x \in Indexes, NEW y \in Indexes, NEW z \in Indexes,
           Minus(y, x) + Minus(z, y) < Wrap
    PROVE  Minus(z, x) = Minus(y, x) + Minus(z, y)
<1> DEFINE d == Minus(y, x)
           f == Minus(z, y)
           g == Minus(z, x)
<1>1. Wrap \in Nat /\ Wrap > 0
  BY WrapAssumption
<1>2. d \in 0 .. Wrap - 1 /\ (y >= x => d = y - x) /\ (y < x => d = y - x + Wrap)
  BY Distance
<1>3. f \in 0 .. Wrap - 1 /\ (z >= y => f = z - y) /\ (z < y => f = z - y + Wrap)
  BY Distance
<1>4. g \in 0 .. Wrap - 1 /\ (z >= x => g = z - x) /\ (z < x => g = z - x + Wrap)
  BY Distance
<1>5. d + f < Wrap
  OBVIOUS
<1> HIDE DEF d, f, g
<1> QED
  BY <1>1, <1>2, <1>3, <1>4, <1>5 DEF d, f, g, Indexes

LEMMA Place ==
    ASSUME NEW x \in Int
    PROVE  x % INPUT_BUF \in 0 .. INPUT_BUF - 1
<1>1. INPUT_BUF \in Int /\ INPUT_BUF > 0
  BY WrapAssumption
<1> QED
  BY <1>1, DivMod, Zenon

LEMMA SamePlace ==
    ASSUME NEW x \in Int
    PROVE  (x - Wrap) % INPUT_BUF = x % INPUT_BUF /\ (x + Wrap) % INPUT_BUF = x % INPUT_BUF
<1>1. INPUT_BUF \in Nat \ {0} /\ Wrap \in Nat /\ Wrap % INPUT_BUF = 0
  BY WrapAssumption, Zenon
<1> QED
  BY <1>1, ModWrap, Zenon

(* Counting from y, or on from x, leads to the same place. *)
LEMMA Reach ==
    ASSUME NEW x \in Indexes, NEW y \in Indexes, NEW k \in Int
    PROVE  (y + k) % INPUT_BUF = (x + (Minus(y, x) + k)) % INPUT_BUF
<1> DEFINE d == Minus(y, x)
           a == x + (d + k)
<1>1. d \in 0 .. Wrap - 1 /\ (y >= x => d = y - x) /\ (y < x => d = y - x + Wrap)
  BY Distance
<1> HIDE DEF d
<1>2. a \in Int /\ (y + k = a \/ y + k = a - Wrap)
  BY <1>1, WrapAssumption DEF Indexes
<1> HIDE DEF a
<1>3. (a - Wrap) % INPUT_BUF = a % INPUT_BUF
  BY <1>2, SamePlace
<1>4. (y + k) % INPUT_BUF = a % INPUT_BUF
  BY <1>2, <1>3, Zenon
<1> QED
  BY <1>4, Zenon DEF a, d

Buffers == [0 .. INPUT_BUF - 1 -> Chars]

LEMMA BetweenSeq ==
    ASSUME buf \in Buffers, NEW x \in Indexes, NEW y \in Indexes
    PROVE  Between(x, y) \in Seq(Chars) /\ Len(Between(x, y)) = Minus(y, x)
<1> DEFINE d == Minus(y, x)
           f(k) == buf[(x + k - 1) % INPUT_BUF]
<1>1. d \in Nat
  BY Distance, WrapAssumption
<1>2. ASSUME NEW k \in 1 .. d PROVE f(k) \in Chars
  <2>1. x + k - 1 \in Int
    BY <1>1 DEF Indexes
  <2>2. (x + k - 1) % INPUT_BUF \in 0 .. INPUT_BUF - 1
    BY <2>1, Place
  <2> QED
    BY <2>2 DEF Buffers
<1>3. Between(x, y) = [k \in 1 .. d |-> f(k)]
  BY Zenon DEF Between
<1> HIDE DEF d, f
<1>4. [k \in 1 .. d |-> f(k)] \in Seq(Chars) /\ Len([k \in 1 .. d |-> f(k)]) = d
  BY <1>1, <1>2
<1> QED
  BY ZenonT(30), <1>3, <1>4 DEF d

(* A character stored at e changes nothing between x and e. *)
LEMMA PutPlaces ==
    ASSUME buf \in Buffers, NEW x \in Indexes, e \in Indexes, Minus(e, x) < INPUT_BUF,
           NEW c \in Chars, buf' = [buf EXCEPT ![e % INPUT_BUF] = c]
    PROVE  /\ \A k \in 1 .. Minus(e, x) :
                 buf'[(x + k - 1) % INPUT_BUF] = buf[(x + k - 1) % INPUT_BUF]
           /\ buf'[(x + (Minus(e, x) + 1) - 1) % INPUT_BUF] = c
           /\ buf' \in Buffers
<1> DEFINE d == Minus(e, x)
<1>1. d \in 0 .. INPUT_BUF - 1 /\ INPUT_BUF \in Nat \ {0}
  BY Distance, WrapAssumption
<1>2. e % INPUT_BUF = (x + d) % INPUT_BUF
  <2>1. (e + 0) % INPUT_BUF = (x + (Minus(e, x) + 0)) % INPUT_BUF
    BY Reach
  <2>2. e + 0 = e /\ d + 0 = d
    BY <1>1 DEF Indexes
  <2> QED
    BY <2>1, <2>2, Zenon DEF d
<1>3. e % INPUT_BUF \in 0 .. INPUT_BUF - 1
  <2>1. e \in Int
    BY DEF Indexes
  <2> QED
    BY <2>1, Place
<1> HIDE DEF d
<1>4. ASSUME NEW k \in 1 .. d
      PROVE  buf'[(x + k - 1) % INPUT_BUF] = buf[(x + k - 1) % INPUT_BUF]
  <2> DEFINE a == x + k - 1
             b == d - k + 1
  <2>1. a \in Int /\ b \in 1 .. INPUT_BUF - 1 /\ a + b = x + d
    BY <1>1 DEF Indexes
  <2> HIDE DEF a, b
  <2>2. (a + b) % INPUT_BUF # a % INPUT_BUF
    BY ZenonT(30), <1>1, <2>1, ModDistinct
  <2>3. a % INPUT_BUF \in 0 .. INPUT_BUF - 1
    BY <2>1, Place
  <2>4. a % INPUT_BUF # e % INPUT_BUF
    BY <1>2, <2>1, <2>2, Zenon
  <2>5. buf'[a % INPUT_BUF] = buf[a % INPUT_BUF]
    BY <2>3, <2>4 DEF Buffers
  <2> QED
    BY <2>5, Zenon DEF a
<1>5. buf'[(x + (d + 1) - 1) % INPUT_BUF] = c
  <2>1. x + (d + 1) - 1 = x + d
    BY <1>1 DEF Indexes
  <2>2. buf'[e % INPUT_BUF] = c
    BY <1>3 DEF Buffers
  <2> QED
    BY <1>2, <2>1, <2>2, Zenon
<1>6. buf' \in Buffers
  BY ZenonT(30) DEF Buffers
<1> QED
  BY <1>4, <1>5, <1>6 DEF d

RingInv ==
    /\ buf \in Buffers /\ r \in Indexes /\ w \in Indexes /\ e \in Indexes
    /\ InOrder /\ Unfinished

(* The lengths of the two parts. *)
LEMMA Parts ==
    ASSUME RingInv
    PROVE  /\ Minus(w, r) \in 0 .. INPUT_BUF /\ Minus(e, w) \in 0 .. INPUT_BUF
           /\ Minus(e, r) = Minus(w, r) + Minus(e, w) /\ Minus(e, r) \in 0 .. INPUT_BUF
           /\ INPUT_BUF \in Nat \ {0} /\ INPUT_BUF <= Wrap - 1
<1> DEFINE m == Minus(w, r)
           d == Minus(e, w)
<1>1. m \in 0 .. Wrap - 1 /\ d \in 0 .. Wrap - 1
  BY Distance DEF RingInv
<1>2. m + d <= INPUT_BUF /\ INPUT_BUF < Wrap /\ INPUT_BUF \in Nat \ {0} /\ Wrap \in Nat
  BY WrapAssumption DEF RingInv, InOrder
<1>3. m + d < Wrap => Minus(e, r) = m + d
  BY Sum DEF RingInv
<1> HIDE DEF m, d
<1>4. m \in 0 .. INPUT_BUF /\ d \in 0 .. INPUT_BUF /\ Minus(e, r) = m + d
  BY <1>1, <1>2, <1>3
<1> QED
  BY <1>2, <1>4 DEF m, d

(* The part from x to e grows by the character that is stored. *)
LEMMA Grown ==
    ASSUME buf \in Buffers, NEW x \in Indexes, e \in Indexes, Minus(e, x) < INPUT_BUF,
           NEW c \in Chars, buf' = [buf EXCEPT ![e % INPUT_BUF] = c]
    PROVE  LET d == Minus(e, x)
           IN  [k \in 1 .. d + 1 |-> buf'[(x + k - 1) % INPUT_BUF]] = Append(Between(x, e), c)
<1> DEFINE d == Minus(e, x)
           f(k) == buf'[(x + k - 1) % INPUT_BUF]
           g(k) == buf[(x + k - 1) % INPUT_BUF]
<1>1. d \in Nat
  BY Distance, WrapAssumption
<1>2. (\A k \in 1 .. d : f(k) = g(k)) /\ f(d + 1) = c
  BY PutPlaces, Zenon
<1>3. Between(x, e) = [k \in 1 .. d |-> g(k)]
  BY Zenon DEF Between
<1>4. Between(x, e) \in Seq(Chars) /\ Len(Between(x, e)) = d
  BY BetweenSeq
<1> HIDE DEF f, g, d
<1>5. [k \in 1 .. d + 1 |-> f(k)] = Append(Between(x, e), c)
  BY <1>1, <1>2, <1>3, <1>4
<1> QED
  BY <1>5, Zenon DEF f, d

(* The finished lines and the line under edit, one after the other. *)
LEMMA Joined ==
    ASSUME RingInv
    PROVE  Between(r, e) = Between(r, w) \o Between(w, e)
<1> DEFINE m == Minus(w, r)
           d == Minus(e, w)
           f(k) == buf[(r + k - 1) % INPUT_BUF]
           g(k) == buf[(w + k - 1) % INPUT_BUF]
<1>1. m \in Nat /\ d \in Nat /\ Minus(e, r) = m + d
  BY Parts
<1>2. /\ Between(r, w) \in Seq(Chars) /\ Len(Between(r, w)) = m
      /\ Between(w, e) \in Seq(Chars) /\ Len(Between(w, e)) = d
  BY BetweenSeq DEF RingInv
<1>3. /\ Between(r, e) = [k \in 1 .. m + d |-> f(k)]
      /\ Between(r, w) = [k \in 1 .. m |-> f(k)]
      /\ Between(w, e) = [k \in 1 .. d |-> g(k)]
  BY <1>1, Zenon DEF Between
<1>4. ASSUME NEW k \in 1 .. d PROVE g(k) = f(m + k)
  <2>1. k - 1 \in Int /\ m + (k - 1) = m + k - 1
    BY <1>1
  <2>2. (w + (k - 1)) % INPUT_BUF = (r + (m + (k - 1))) % INPUT_BUF
    BY <2>1, Reach, Zenon DEF RingInv
  <2>3. r + (m + k) - 1 = r + (m + (k - 1)) /\ w + k - 1 = w + (k - 1)
    BY <1>1 DEF RingInv, Indexes
  <2> QED
    BY <2>2, <2>3, Zenon
<1> HIDE DEF f, g, m, d
<1> QED
  BY <1>1, <1>2, <1>3, <1>4

(* A typed character is added to the line under edit, and ends it or not. *)
LEMMA TypeStep ==
    ASSUME RingInv, NEW c \in Chars, Minus(e, r) < INPUT_BUF, Store(c), r' = r
    PROVE  RingInv' /\ Lines!Type(c)
<1> DEFINE m == Minus(w, r)
           d == Minus(e, w)
           e2 == (e + 1) % Wrap
           done == c \in {"newline", "^D"} \/ Minus(e + 1, r) = INPUT_BUF
<1>1. /\ m \in 0 .. INPUT_BUF /\ d \in 0 .. INPUT_BUF /\ Minus(e, r) = m + d
      /\ INPUT_BUF \in Nat \ {0} /\ INPUT_BUF <= Wrap - 1 /\ Wrap \in Nat
  BY Parts, WrapAssumption
<1>2. m + d < INPUT_BUF /\ d < INPUT_BUF /\ d < Wrap - 1 /\ m + d < Wrap - 1
  <2>1. Minus(e, r) < INPUT_BUF
    OBVIOUS
  <2> HIDE DEF m, d
  <2> QED
    BY <1>1, <2>1
<1>3. /\ buf \in Buffers /\ r \in Indexes /\ w \in Indexes /\ e \in Indexes /\ e2 \in Indexes
  BY Succ DEF RingInv
<1>4. Minus(e2, r) = (m + d) + 1 /\ Minus(e + 1, r) = (m + d) + 1 /\ Minus(e2, w) = d + 1
  <2>1. Minus(e, r) < Wrap - 1 /\ Minus(e, w) < Wrap - 1
    BY <1>1, <1>2
  <2>2. Minus(e2, r) = Minus(e, r) + 1 /\ Minus(e + 1, r) = Minus(e, r) + 1
    BY <1>3, <2>1, Further, Zenon
  <2>3. Minus(e2, w) = Minus(e, w) + 1
    BY <1>3, <2>1, Further, Zenon
  <2> QED
    BY <1>1, <2>2, <2>3, Zenon
<1>5. /\ buf' = [buf EXCEPT ![e % INPUT_BUF] = c] /\ e' = e2 /\ r' = r
      /\ done => w' = e2
      /\ ~done => w' = w
  BY Zenon DEF Store
<1>6. buf' \in Buffers
  BY ZenonT(30), <1>3, <1>2, <1>5, PutPlaces
<1>7. /\ Between(r, w) \in Seq(Chars) /\ Len(Between(r, w)) = m
      /\ Between(w, e) \in Seq(Chars) /\ Len(Between(w, e)) = d
  BY <1>3, BetweenSeq
<1>8. /\ [k \in 1 .. d + 1 |-> buf'[(w + k - 1) % INPUT_BUF]] = Append(Between(w, e), c)
      /\ [k \in 1 .. (m + d) + 1 |-> buf'[(r + k - 1) % INPUT_BUF]] = Append(Between(r, e), c)
  <2>1. Minus(e, w) < INPUT_BUF /\ Minus(e, r) < INPUT_BUF
    BY <1>2
  <2>2. [k \in 1 .. Minus(e, w) + 1 |-> buf'[(w + k - 1) % INPUT_BUF]] = Append(Between(w, e), c)
    BY <1>3, <1>5, <2>1, Grown, Zenon
  <2>3. [k \in 1 .. Minus(e, r) + 1 |-> buf'[(r + k - 1) % INPUT_BUF]] = Append(Between(r, e), c)
    BY <1>3, <1>5, <2>1, Grown, Zenon
  <2> QED
    BY <1>1, <2>2, <2>3, Zenon
<1>9. ASSUME NEW k \in 1 .. m + d
      PROVE  buf'[(r + k - 1) % INPUT_BUF] = buf[(r + k - 1) % INPUT_BUF]
  <2>1. k \in 1 .. Minus(e, r) /\ Minus(e, r) < INPUT_BUF
    BY <1>1
  <2> QED
    BY <1>3, <1>5, <2>1, PutPlaces, Zenon
<1>10. done <=> c \in {"newline", "^D"} \/ (m + (d + 1)) = INPUT_BUF
  BY <1>1, <1>4
<1> HIDE DEF m, d, e2, done
<1>11. CASE done
  <2>1. w' = e2 /\ e' = e2
    BY <1>5, <1>11
  <2>2. Minus(e2, e2) = 0
    BY <1>3, Distance, SMT DEF Indexes
  <2>3. Between(r, w)' = [k \in 1 .. (m + d) + 1 |-> buf'[(r + k - 1) % INPUT_BUF]]
    BY <1>4, <1>5, <2>1 DEF Between
  <2>4. Between(r, e) = Between(r, w) \o Between(w, e)
    BY Joined
  <2>5. Between(r, w)' = Between(r, w) \o Append(Between(w, e), c)
    <3>1. Between(r, w)' = Append(Between(r, w) \o Between(w, e), c)
      BY <1>8, <2>3, <2>4, Zenon
    <3>2. \A s, t \in Seq(Chars) : Append(s \o t, c) = s \o Append(t, c)
      OBVIOUS
    <3> QED
      BY <1>7, <3>1, <3>2, Zenon
  <2>6. Between(w, e)' = <<>>
    <3>1. Between(w, e)' = [k \in 1 .. 0 |-> buf'[(w' + k - 1) % INPUT_BUF]]
      BY <2>1, <2>2, Zenon DEF Between
    <3> QED
      BY <3>1
  <2>7. RingInv'
    <3>1. InOrder'
      BY <1>1, <1>2, <1>4, <1>5, <2>1, <2>2 DEF InOrder
    <3>2. Unfinished'
      BY <2>1, <2>2 DEF Unfinished
    <3> QED
      BY <1>3, <1>5, <1>6, <2>1, <3>1, <3>2, Zenon DEF RingInv
  <2>8. Lines!Type(c)
    <3>1. Len(Append(Between(w, e), c)) = d + 1
      BY <1>1, <1>7
    <3> QED
      BY <1>2, <1>7, <1>10, <1>11, <2>5, <2>6, <3>1, Zenon DEF Lines!Type
  <2> QED
    BY <2>7, <2>8
<1>12. CASE ~done
  <2>1. w' = w /\ e' = e2
    BY <1>5, <1>12
  <2>2. Between(r, w)' = Between(r, w)
    <3>1. /\ Between(r, w)' = [k \in 1 .. m |-> buf'[(r + k - 1) % INPUT_BUF]]
          /\ Between(r, w) = [k \in 1 .. m |-> buf[(r + k - 1) % INPUT_BUF]]
      BY <1>5, <2>1 DEF Between, m
    <3>2. \A k \in 1 .. m : k \in 1 .. m + d
      BY <1>1
    <3>3. \A k \in 1 .. m : buf'[(r + k - 1) % INPUT_BUF] = buf[(r + k - 1) % INPUT_BUF]
      BY <1>9, <3>2, Zenon
    <3> QED
      BY <3>1, <3>3, Zenon
  <2>3. Between(w, e)' = Append(Between(w, e), c)
    <3>1. Between(w, e)' = [k \in 1 .. d + 1 |-> buf'[(w + k - 1) % INPUT_BUF]]
      BY <1>4, <2>1, Zenon DEF Between
    <3> QED
      BY <1>8, <3>1, Zenon
  <2>4. RingInv'
    <3>1. InOrder'
      BY <1>1, <1>2, <1>4, <1>5, <2>1 DEF InOrder, m
    <3>2. Unfinished'
      <4>1. c # "newline"
        BY <1>10, <1>12
      <4>2. \A k \in 1 .. d : buf[(w + k - 1) % INPUT_BUF] # "newline"
        BY Zenon DEF RingInv, Unfinished, d
      <4>3. Minus(e, w) < INPUT_BUF
        BY <1>2 DEF d
      <4>4. /\ \A k \in 1 .. d : buf'[(w + k - 1) % INPUT_BUF] = buf[(w + k - 1) % INPUT_BUF]
            /\ buf'[(w + (d + 1) - 1) % INPUT_BUF] = c
        BY <1>3, <1>5, <4>3, PutPlaces, Zenon DEF d
      <4>5. ASSUME NEW k \in 1 .. d + 1 PROVE buf'[(w + k - 1) % INPUT_BUF] # "newline"
        <5>1. k \in 1 .. d \/ k = d + 1
          BY <1>1
        <5> QED
          BY <4>1, <4>2, <4>4, <5>1, Zenon
      <4>6. Minus(e', w') = d + 1 /\ w' = w
        BY <1>4, <2>1
      <4> QED
        BY <4>5, <4>6, Zenon DEF Unfinished
    <3> QED
      BY <1>3, <1>5, <1>6, <2>1, <3>1, <3>2, Zenon DEF RingInv
  <2>5. Lines!Type(c)
    <3>1. Len(Append(Between(w, e), c)) = d + 1
      BY <1>1, <1>7
    <3> QED
      BY <1>2, <1>7, <1>10, <1>12, <2>2, <2>3, <3>1, Zenon DEF Lines!Type
  <2> QED
    BY <2>4, <2>5
<1> QED
  BY <1>11, <1>12

(* ^H takes the last character off the line under edit. *)
LEMMA EraseStep ==
    ASSUME RingInv, e # w, e' = Minus(e, 1), UNCHANGED <<buf, r, w>>
    PROVE  RingInv' /\ Lines!Erase
<1> DEFINE m == Minus(w, r)
           d == Minus(e, w)
           g(k) == buf[(w + k - 1) % INPUT_BUF]
<1>1. /\ m \in 0 .. INPUT_BUF /\ d \in 0 .. INPUT_BUF /\ m + d <= INPUT_BUF
      /\ INPUT_BUF \in Nat \ {0}
  BY Parts DEF RingInv, InOrder
<1>2. buf \in Buffers /\ r \in Indexes /\ w \in Indexes /\ e \in Indexes
  BY DEF RingInv
<1>3. e' \in Indexes
  BY <1>2, Pred
<1>4. d >= 1 /\ Minus(e', w) = d - 1
  <2>1. Minus(e, w) >= 1 /\ Minus(Minus(e, 1), w) = Minus(e, w) - 1
    BY <1>2, Closer, Zenon
  <2> QED
    BY <2>1, Zenon
<1>5. Between(w, e) \in Seq(Chars) /\ Len(Between(w, e)) = d
  BY <1>2, BetweenSeq
<1>6. Between(w, e) = [k \in 1 .. d |-> g(k)] /\ Between(w, e)' = [k \in 1 .. d - 1 |-> g(k)]
  BY <1>4 DEF Between
<1>7. Between(r, w)' = Between(r, w)
  BY DEF Between
<1>8. \A k \in 1 .. d : g(k) # "newline"
  BY Zenon DEF RingInv, Unfinished
<1> HIDE DEF m, d
<1>9. RingInv'
  <2>1. InOrder'
    <3>1. Minus(w', r') = m
      BY DEF m
    <3> QED
      BY <1>1, <1>4, <3>1 DEF InOrder
  <2>2. Unfinished'
    <3>1. \A k \in 1 .. d - 1 : k \in 1 .. d
      BY <1>1
    <3> QED
      BY <1>4, <1>8, <3>1 DEF Unfinished
  <2> QED
    BY <1>2, <1>3, <2>1, <2>2 DEF RingInv
<1> HIDE DEF g
<1>10. Between(w, e)' = SubSeq(Between(w, e), 1, Len(Between(w, e)) - 1) /\ Between(w, e) # <<>>
  BY <1>1, <1>4, <1>5, <1>6
<1> QED
  BY <1>7, <1>9, <1>10, Zenon DEF Lines!Erase

(* The line under edit has no newline, so ^U goes back to its start. *)
LEMMA KillsLine ==
    ASSUME RingInv
    PROVE  KillLine = w
<1> DEFINE d == Minus(e, w)
           back == {k \in 0 .. d : \A i \in 1 .. k : buf[Minus(e, i) % INPUT_BUF] # "newline"}
<1>1. d \in 0 .. Wrap - 1 /\ (e >= w => d = e - w) /\ (e < w => d = e - w + Wrap)
  BY Distance DEF RingInv
<1>2. /\ d \in 0 .. INPUT_BUF /\ INPUT_BUF \in Nat \ {0} /\ INPUT_BUF <= Wrap - 1 /\ Wrap \in Nat \ {0}
      /\ Wrap % INPUT_BUF = 0
  BY Parts, WrapAssumption
<1>3. w \in Indexes /\ e \in Indexes
  BY DEF RingInv
<1>4. ASSUME NEW i \in 1 .. d PROVE buf[Minus(e, i) % INPUT_BUF] # "newline"
  <2> DEFINE a == e - i
             k == d - i + 1
  <2>1. a \in -Wrap .. 2 * Wrap - 1
    BY <1>2, <1>3 DEF Indexes
  <2>2. Minus(e, i) % INPUT_BUF = a % INPUT_BUF
    <3>1. (a % Wrap) % INPUT_BUF = a % INPUT_BUF
      <4> HIDE DEF a
      <4> QED
        BY ZenonT(30), <1>2, <2>1, ModMod
    <3> QED
      BY <3>1, Zenon DEF Minus
  <2>3. a = e + (0 - i) /\ 0 - i \in Int /\ d + (0 - i) = k - 1 /\ k \in 1 .. d
    BY <1>2, <1>3 DEF Indexes
  <2>4. (e + (0 - i)) % INPUT_BUF = (w + (d + (0 - i))) % INPUT_BUF
    BY <1>3, <2>3, Reach, Zenon
  <2>5. w + (d + (0 - i)) = w + k - 1
    BY <1>2, <1>3 DEF Indexes
  <2>6. Minus(e, i) % INPUT_BUF = (w + k - 1) % INPUT_BUF
    BY <2>2, <2>3, <2>4, <2>5, Zenon
  <2>7. buf[(w + k - 1) % INPUT_BUF] # "newline"
    BY <2>3, Zenon DEF RingInv, Unfinished
  <2> QED
    BY <2>6, <2>7, Zenon
<1>5. d \in back
  BY <1>2, <1>4
<1>6. \A j \in back : j \in Int /\ j <= d
  BY <1>2
<1>7. KillLine = Minus(e, CHOOSE k \in back : \A j \in back : j <= k)
  BY Zenon DEF KillLine
<1> DEFINE best == CHOOSE k \in back : \A j \in back : j <= k
<1> HIDE DEF back, d
<1>8. best \in back /\ \A j \in back : j <= best
  BY <1>5, <1>6
<1> HIDE DEF best
<1>9. best = d
  <2>1. d <= best /\ best <= d /\ best \in Int /\ d \in Int
    BY <1>2, <1>5, <1>6, <1>8
  <2> QED
    BY <2>1
<1>10. Minus(e, d) = w
  <2> DEFINE a == e - d
  <2>1. Wrap \in Nat \ {0} /\ a \in -Wrap .. 2 * Wrap - 1 /\ (a = w \/ (a < 0 /\ a + Wrap = w))
    BY <1>1, <1>2, <1>3 DEF Indexes
  <2>2. w \in 0 .. Wrap - 1
    BY <1>3 DEF Indexes
  <2> HIDE DEF a
  <2>3. /\ a \in 0 .. Wrap - 1 => a % Wrap = a
        /\ a < 0 => a % Wrap = a + Wrap
    BY <2>1, ModCases, ZenonT(30)
  <2>4. a % Wrap = w
    BY <2>1, <2>2, <2>3, Zenon
  <2> QED
    BY <2>4, Zenon DEF Minus, a
<1> QED
  BY <1>7, <1>9, <1>10, Zenon DEF best

LEMMA EraseLineStep ==
    ASSUME RingInv, e' = KillLine, UNCHANGED <<buf, r, w>>
    PROVE  RingInv' /\ Lines!EraseLine
<1>1. e' = w /\ w \in Indexes /\ w' = w
  BY KillsLine DEF RingInv
<1>2. Minus(w, w) = 0
  BY <1>1, Distance, SMT DEF Indexes
<1>3. Between(w, e)' = <<>>
  <2>1. Minus(e', w') = 0
    BY <1>1, <1>2, Zenon
  <2>2. Between(w, e)' = [k \in 1 .. 0 |-> buf'[(w' + k - 1) % INPUT_BUF]]
    BY <2>1, Zenon DEF Between
  <2> QED
    BY <2>2
<1>4. Between(r, w)' = Between(r, w)
  BY DEF Between
<1>5. RingInv'
  <2>1. Minus(w, r) \in 0 .. INPUT_BUF /\ INPUT_BUF \in Nat
    BY Parts
  <2>2. Minus(w', r') = Minus(w, r) /\ Minus(e', w') = 0
    BY <1>1, <1>2, Zenon
  <2>3. InOrder' /\ Unfinished'
    BY <2>1, <2>2 DEF InOrder, Unfinished
  <2> QED
    BY <1>1, <2>3 DEF RingInv
<1> QED
  BY <1>3, <1>4, <1>5, Zenon DEF Lines!EraseLine

(* consoleread() takes the first character. *)
LEMMA ReadStep ==
    ASSUME RingInv, r # w, r' = (r + 1) % Wrap, UNCHANGED <<buf, w, e>>
    PROVE  RingInv' /\ Lines!Read
<1> DEFINE m == Minus(w, r)
           f(k) == buf[(r + k - 1) % INPUT_BUF]
           g(k) == buf[(r' + k - 1) % INPUT_BUF]
<1>1. /\ m \in 0 .. INPUT_BUF /\ Minus(e, w) \in 0 .. INPUT_BUF /\ m + Minus(e, w) <= INPUT_BUF
      /\ INPUT_BUF \in Nat \ {0} /\ Wrap \in Nat
  BY Parts, WrapAssumption DEF RingInv, InOrder
<1>2. buf \in Buffers /\ r \in Indexes /\ w \in Indexes /\ e \in Indexes
  BY DEF RingInv
<1>3. r' \in Indexes /\ (r' = r + 1 \/ r' = (r + 1) - Wrap)
  <2>1. /\ (r + 1) % Wrap \in Indexes
        /\ r + 1 < Wrap => (r + 1) % Wrap = r + 1
        /\ r + 1 >= Wrap => (r + 1) % Wrap = 0
    BY <1>2, Succ
  <2>2. r + 1 < Wrap \/ r + 1 = Wrap
    BY <1>1, <1>2 DEF Indexes
  <2> QED
    BY <1>1, <1>2, <2>1, <2>2 DEF Indexes
<1>4. m >= 1 /\ Minus(w, r') = m - 1
  BY <1>2, Closer, Zenon
<1>5. Between(r, w) \in Seq(Chars) /\ Len(Between(r, w)) = m
  BY <1>2, BetweenSeq
<1>6. Between(r, w) = [k \in 1 .. m |-> f(k)] /\ Between(r, w)' = [k \in 1 .. m - 1 |-> g(k)]
  BY <1>4 DEF Between
<1>7. Between(w, e)' = Between(w, e)
  BY DEF Between
<1>8. ASSUME NEW k \in 1 .. m - 1 PROVE g(k) = f(k + 1)
  <2> DEFINE a == r + (k + 1) - 1
  <2>1. a \in Int /\ (r' + k - 1 = a \/ r' + k - 1 = a - Wrap)
    BY <1>1, <1>2, <1>3 DEF Indexes
  <2> HIDE DEF a
  <2>2. (a - Wrap) % INPUT_BUF = a % INPUT_BUF
    BY <2>1, SamePlace
  <2>3. (r' + k - 1) % INPUT_BUF = a % INPUT_BUF
    BY <2>1, <2>2, Zenon
  <2> QED
    BY <2>3, Zenon DEF a
<1>9. RingInv'
  <2>1. InOrder'
    <3>1. Minus(w', r') = m - 1 /\ Minus(e', w') = Minus(e, w)
      BY <1>4, Zenon
    <3> HIDE DEF m
    <3> QED
      BY <1>1, <3>1 DEF InOrder
  <2>2. Unfinished'
    BY DEF RingInv, Unfinished
  <2> QED
    BY <1>2, <1>3, <2>1, <2>2 DEF RingInv
<1> HIDE DEF m, f, g
<1>10. Between(r, w) # <<>> /\ m \in Nat
  BY <1>1, <1>4, <1>5
<1>11. Tail(Between(r, w)) = [k \in 1 .. m - 1 |-> f(k + 1)]
  BY <1>4, <1>5, <1>6, <1>10
<1>12. Between(r, w)' = Tail(Between(r, w))
  BY ZenonT(30), <1>6, <1>8, <1>11
<1> QED
  BY <1>7, <1>9, <1>10, <1>12, ZenonT(30) DEF Lines!Read

-----------------------------------------------------------------------------
(* The readers *)

KbdType == shift \subseteq Modifiers /\ held \subseteq Keys /\ wire \in Seq(ScanCodes)

PCs == {"user", "acquire", "test", "sleep", "asleep"}
ReadType ==
    /\ pc \in [Readers -> PCs]
    /\ n \in [Readers -> 0 .. MaxCount] /\ target \in [Readers -> 0 .. MaxCount]
    /\ killed \in [Readers -> BOOLEAN]

ReaderInv == ReadType /\ LockOwner /\ AboutToSleep /\ SleepsOnEmpty

LEMMA InputParts == InputInv <=> KbdType /\ RingInv /\ ReaderInv
  BY DEF InputInv, TypeOK, KbdType, RingInv, ReaderInv, ReadType, PCs, Buffers, Indexes

(* The lines do not change. *)
SameLines == Between(r, w)' = Between(r, w) /\ Between(w, e)' = Between(w, e)

LEMMA SameRing ==
    ASSUME UNCHANGED inputVars
    PROVE  SameLines /\ (RingInv => RingInv')
<1>1. buf' = buf /\ r' = r /\ w' = w /\ e' = e
  BY DEF inputVars
<1> QED
  BY <1>1 DEF SameLines, RingInv, Between, InOrder, Unfinished

(* While cons.lock is free nobody is about to sleep, and w only moves when those
   who sleep are woken.                                                    *)
LEMMA ReadersAtIntr ==
    ASSUME ReaderInv, holder = Nobody, UNCHANGED <<holder, n, target, killed>>,
           r' = r, pc' = Woken \/ (pc' = pc /\ w' = w)
    PROVE  ReaderInv'
<1>1. \A p \in Readers : pc[p] \in PCs /\ pc[p] \notin {"test", "sleep"}
  BY ReadersAssumption DEF ReaderInv, ReadType, LockOwner
<1>2. pc' \in [Readers -> PCs]
  BY <1>1 DEF ReaderInv, ReadType, Woken, PCs
<1>3. \A p \in Readers : /\ pc'[p] \notin {"test", "sleep"}
                         /\ pc'[p] = "asleep" => pc' = pc /\ w' = w /\ pc[p] = "asleep"
  BY <1>1 DEF Woken
<1>4. ReadType'
  BY <1>2 DEF ReaderInv, ReadType
<1>5. LockOwner' /\ AboutToSleep'
  BY <1>3, ReadersAssumption DEF LockOwner, AboutToSleep
<1>6. SleepsOnEmpty'
  BY <1>3 DEF ReaderInv, SleepsOnEmpty
<1> QED
  BY <1>4, <1>5, <1>6 DEF ReaderInv

LEMMA consoleintrStep ==
    ASSUME RingInv, ReaderInv, holder = Nobody, UNCHANGED <<holder, n, target, killed>>,
           NEW c \in CharCodes, consoleintr(c)
    PROVE  RingInv' /\ ReaderInv' /\ (Lines!Next \/ SameLines)
<1>1. CASE c = "^U"
  <2>1. e' = KillLine /\ UNCHANGED <<buf, r, w, pc>>
    BY <1>1 DEF consoleintr
  <2>2. RingInv' /\ Lines!EraseLine
    BY <2>1, EraseLineStep
  <2> QED
    BY <2>1, <2>2, ReadersAtIntr DEF Lines!Next
<1>2. CASE c = "^H"
  <2>1. (e' = IF e # w THEN Minus(e, 1) ELSE e) /\ UNCHANGED <<buf, r, w, pc>>
    BY <1>2 DEF consoleintr
  <2>2. ReaderInv'
    BY <2>1, ReadersAtIntr
  <2>3. CASE e # w
    <3>1. RingInv' /\ Lines!Erase
      BY <2>1, <2>3, EraseStep
    <3> QED
      BY <2>2, <3>1 DEF Lines!Next
  <2>4. CASE e = w
    <3>1. UNCHANGED inputVars
      BY <2>1, <2>4 DEF inputVars
    <3> QED
      BY <2>2, <3>1, SameRing
  <2> QED
    BY <2>3, <2>4
<1>3. CASE c \notin {"^U", "^H"}
  <2>1. CASE c # "NO" /\ Minus(e, r) < INPUT_BUF
    <3> DEFINE x == IF c = "return" THEN "newline" ELSE c
    <3>1. x \in Chars
      BY <1>3, <2>1 DEF CharCodes, Chars
    <3>2. Store(x) /\ r' = r
      BY <1>3, <2>1, Zenon DEF consoleintr
    <3> HIDE DEF x
    <3>3. RingInv' /\ Lines!Type(x)
      BY <2>1, <3>1, <3>2, TypeStep
    <3>4. pc' = Woken \/ (pc' = pc /\ w' = w)
      BY <3>2 DEF Store
    <3>5. ReaderInv'
      BY <3>2, <3>4, ReadersAtIntr
    <3> QED
      BY <3>1, <3>3, <3>5, Zenon DEF Lines!Next
  <2>2. CASE ~(c # "NO" /\ Minus(e, r) < INPUT_BUF)
    <3>1. UNCHANGED <<inputVars, pc>>
      BY <1>3, <2>2, Zenon DEF consoleintr
    <3>2. UNCHANGED inputVars /\ r' = r /\ w' = w /\ pc' = pc
      BY <3>1 DEF inputVars
    <3> QED
      BY <3>2, SameRing, ReadersAtIntr
  <2> QED
    BY <2>1, <2>2
<1> QED
  BY <1>1, <1>2, <1>3

(* A step that only moves reader p. *)
LEMMA ReaderMoves ==
    ASSUME ReaderInv, ReadType', NEW p \in Readers, UNCHANGED <<r, w>>,
           \A q \in Readers : q # p => pc'[q] = pc[q],
           pc'[p] \in {"test", "sleep"} <=> holder' = p,
           \A q \in Readers : q # p => (holder' = q <=> holder = q),
           pc'[p] \in {"sleep", "asleep"} => r = w
    PROVE  ReaderInv'
<1>1. LockOwner'
  BY DEF ReaderInv, LockOwner
<1>2. AboutToSleep' /\ SleepsOnEmpty'
  BY DEF ReaderInv, AboutToSleep, SleepsOnEmpty
<1> QED
  BY <1>1, <1>2 DEF ReaderInv

LEMMA CallStep ==
    ASSUME ReaderInv, NEW p \in Readers, NEW count \in 1 .. MaxCount, Call(p, count)
    PROVE  ReaderInv'
<1>1. ReadType'
  BY WrapAssumption DEF ReaderInv, ReadType, Call, PCs
<1>2. /\ \A q \in Readers : q # p => pc'[q] = pc[q]
      /\ pc'[p] = "acquire" /\ pc[p] = "user" /\ holder' = holder
      /\ UNCHANGED <<r, w>>
  BY DEF ReaderInv, ReadType, Call, inputVars
<1> QED
  BY <1>1, <1>2, ReaderMoves DEF ReaderInv, LockOwner

LEMMA AcquireStep ==
    ASSUME ReaderInv, NEW p \in Readers, Acquire(p)
    PROVE  ReaderInv'
<1>1. ReadType'
  BY DEF ReaderInv, ReadType, Acquire, PCs
<1>2. /\ \A q \in Readers : q # p => pc'[q] = pc[q]
      /\ pc'[p] = "test" /\ holder' = p /\ holder = Nobody
      /\ UNCHANGED <<r, w>>
  BY DEF ReaderInv, ReadType, Acquire, inputVars
<1> QED
  BY <1>1, <1>2, ReaderMoves, ReadersAssumption

(* The caller has cons.lock. *)
LEMMA ReturnFacts ==
    ASSUME ReaderInv, NEW p \in Readers, pc[p] = "test", Return(p), killed' = killed
    PROVE  /\ ReadType'
           /\ \A q \in Readers : q # p => pc'[q] = pc[q]
           /\ pc'[p] = "user" /\ holder' = Nobody /\ holder = p
<1>1. ReadType'
  BY WrapAssumption DEF ReaderInv, ReadType, Return, PCs
<1> QED
  BY <1>1 DEF ReaderInv, ReadType, LockOwner, Return

LEMMA ReturnStep ==
    ASSUME ReaderInv, NEW p \in Readers, pc[p] = "test", Return(p), killed' = killed,
           UNCHANGED <<r, w>>
    PROVE  ReaderInv'
  BY ReturnFacts, ReaderMoves, ReadersAssumption

LEMMA ReadEmptyStep ==
    ASSUME ReaderInv, NEW p \in Readers, ReadEmpty(p)
    PROVE  ReaderInv'
<1>1. UNCHANGED <<r, w>> /\ r = w /\ pc[p] = "test" /\ killed' = killed
  BY DEF ReadEmpty, inputVars
<1>2. CASE killed[p]
  BY <1>1, <1>2, ReturnStep DEF ReadEmpty
<1>3. CASE ~killed[p]
  <2>1. pc' = [pc EXCEPT ![p] = "sleep"] /\ UNCHANGED <<holder, n, target>>
    BY <1>3 DEF ReadEmpty
  <2>2. ReadType'
    BY <1>1, <2>1 DEF ReaderInv, ReadType, PCs
  <2>3. (\A q \in Readers : q # p => pc'[q] = pc[q]) /\ pc'[p] = "sleep" /\ holder' = p /\ holder = p
    BY <1>1, <2>1 DEF ReaderInv, ReadType, LockOwner
  <2> QED
    BY <1>1, <2>2, <2>3, ReaderMoves
<1> QED
  BY <1>2, <1>3

(* While there is a line nobody sleeps, so it may be read to its end. *)
LEMMA ReadCharStep ==
    ASSUME RingInv, ReaderInv, NEW p \in Readers, ReadChar(p)
    PROVE  RingInv' /\ ReaderInv' /\ (Lines!Read \/ SameLines)
<1>1. /\ pc[p] = "test" /\ n[p] > 0 /\ r # w /\ UNCHANGED <<buf, w, e>>
      /\ r' = r \/ r' = (r + 1) % Wrap
      /\ killed' = killed
      /\ Return(p) \/ (n' = [n EXCEPT ![p] = @ - 1] /\ UNCHANGED <<holder, pc, target>>)
  BY DEF ReadChar
<1>2. RingInv' /\ (Lines!Read \/ SameLines)
  <2>1. CASE r' = r
    <3>1. UNCHANGED inputVars
      BY <1>1, <2>1 DEF inputVars
    <3> QED
      BY <3>1, SameRing
  <2>2. CASE r' = (r + 1) % Wrap
    BY <1>1, <2>2, ReadStep
  <2> QED
    BY <1>1, <2>1, <2>2
<1>3. \A q \in Readers : pc[q] \notin {"sleep", "asleep"}
  BY <1>1 DEF ReaderInv, AboutToSleep, SleepsOnEmpty
<1>4. /\ ReadType' /\ LockOwner'
      /\ \A q \in Readers : pc'[q] \notin {"sleep", "asleep"}
  <2>1. CASE Return(p)
    <3>1. /\ ReadType' /\ \A q \in Readers : q # p => pc'[q] = pc[q]
          /\ pc'[p] = "user" /\ holder' = Nobody /\ holder = p
      BY <1>1, <2>1, ReturnFacts
    <3> QED
      BY <1>3, <3>1, ReadersAssumption DEF ReaderInv, LockOwner
  <2>2. CASE n' = [n EXCEPT ![p] = @ - 1] /\ UNCHANGED <<holder, pc, target>>
    <3>1. n[p] - 1 \in 0 .. MaxCount
      BY <1>1, WrapAssumption DEF ReaderInv, ReadType
    <3>2. n' \in [Readers -> 0 .. MaxCount]
      BY <2>2, <3>1 DEF ReaderInv, ReadType
    <3> QED
      BY <1>1, <1>3, <2>2, <3>2 DEF ReaderInv, ReadType, LockOwner
  <2> QED
    BY <1>1, <2>1, <2>2
<1> QED
  BY <1>2, <1>4 DEF ReaderInv, AboutToSleep, SleepsOnEmpty

LEMMA ReadDoneStep ==
    ASSUME ReaderInv, NEW p \in Readers, ReadDone(p)
    PROVE  ReaderInv'
<1>1. UNCHANGED <<r, w>> /\ pc[p] = "test" /\ killed' = killed /\ Return(p)
  BY DEF ReadDone, inputVars
<1> QED
  BY <1>1, ReturnStep

LEMMA SleepStep ==
    ASSUME ReaderInv, NEW p \in Readers, Sleep(p)
    PROVE  ReaderInv'
<1>1. ReadType'
  BY DEF ReaderInv, ReadType, Sleep, PCs
<1>2. /\ \A q \in Readers : q # p => pc'[q] = pc[q]
      /\ pc'[p] = "asleep" /\ pc[p] = "sleep" /\ holder' = Nobody
      /\ UNCHANGED <<r, w>>
  BY DEF ReaderInv, ReadType, Sleep, inputVars
<1>3. holder = p /\ r = w
  BY <1>2 DEF ReaderInv, LockOwner, AboutToSleep
<1> QED
  BY <1>1, <1>2, <1>3, ReaderMoves, ReadersAssumption

LEMMA killStep ==
    ASSUME ReaderInv, NEW p \in Readers, kill(p)
    PROVE  ReaderInv'
<1>1. /\ pc' = [pc EXCEPT ![p] = IF pc[p] = "asleep" THEN "acquire" ELSE pc[p]]
      /\ UNCHANGED <<holder, n, target, r, w>> /\ killed' = [killed EXCEPT ![p] = TRUE]
  BY DEF kill, inputVars
<1>2. pc'[p] = IF pc[p] = "asleep" THEN "acquire" ELSE pc[p]
  BY <1>1 DEF ReaderInv, ReadType
<1>3. \A q \in Readers : q # p => pc'[q] = pc[q]
  BY <1>1 DEF ReaderInv, ReadType
<1>4. ReadType'
  BY <1>1 DEF ReaderInv, ReadType, PCs
<1>5. pc'[p] \in {"test", "sleep"} <=> holder' = p
  BY <1>1, <1>2 DEF ReaderInv, LockOwner
<1>6. pc'[p] \in {"sleep", "asleep"} => r = w
  BY <1>2 DEF ReaderInv, AboutToSleep
<1> QED
  BY <1>1, <1>3, <1>4, <1>5, <1>6, ReaderMoves

-----------------------------------------------------------------------------
(* The invariant *)

LEMMA InitIInv == Init => IInv /\ Lines!Init
<1> SUFFICES ASSUME Init PROVE IInv /\ Lines!Init
  OBVIOUS
<1>1. KbdInv
  BY DEF Init, KbdInv, OnTheWire, ModifiersHeld
<1>2. 0 \in Indexes /\ INPUT_BUF \in Nat
  BY WrapAssumption DEF Indexes
<1>3. Minus(0, 0) = 0
  BY <1>2, Distance DEF Indexes
<1>4. Minus(w, r) = 0 /\ Minus(e, w) = 0 /\ r = 0 /\ w = 0 /\ e = 0
  BY <1>3, Zenon DEF Init
<1>5. InOrder /\ Unfinished
  BY <1>2, <1>4 DEF InOrder, Unfinished
<1>6. "a" \in Chars
  BY DEF Chars
<1>7. buf \in Buffers
  BY <1>6 DEF Init, Buffers
<1>8. RingInv
  BY <1>2, <1>4, <1>5, <1>7 DEF RingInv
<1>9. KbdType
  BY DEF Init, KbdType
<1>10. ReadType
  BY WrapAssumption DEF Init, ReadType, PCs
<1>11. ReaderInv
  BY <1>10, ReadersAssumption DEF Init, ReaderInv, LockOwner, AboutToSleep, SleepsOnEmpty
<1>12. Between(r, w) = <<>> /\ Between(w, e) = <<>>
  BY <1>4 DEF Between
<1> QED
  BY <1>1, <1>8, <1>9, <1>11, <1>12, InputParts DEF IInv, Lines!Init

(* What a step of the keyboard or of a reader leaves alone. *)
LEMMA SameKbd ==
    ASSUME KbdInv, KbdType, UNCHANGED kbdVars
    PROVE  KbdInv' /\ KbdType'
<1>1. held' = held /\ wire' = wire /\ shift' = shift
  BY DEF kbdVars
<1>2. KbdType'
  BY <1>1 DEF KbdType
<1>3. ModifiersHeld'
  BY ZenonT(30), <1>1 DEF KbdInv, ModifiersHeld
<1>4. OnTheWire'
  BY <1>1, Zenon DEF KbdInv, OnTheWire, Rest
<1> QED
  BY <1>2, <1>3, <1>4 DEF KbdInv

LEMMA SameReaders ==
    ASSUME ReaderInv, UNCHANGED inputVars, UNCHANGED readVars
    PROVE  ReaderInv'
<1>1. UNCHANGED <<r, w, holder, pc, n, target, killed>>
  BY DEF inputVars, readVars
<1> QED
  BY <1>1 DEF ReaderInv, ReadType, LockOwner, AboutToSleep, SleepsOnEmpty

LEMMA HeadCode ==
    ASSUME NEW s \in Seq(ScanCodes), s # <<>>
    PROVE  Head(s) \in ScanCodes /\ Tail(s) \in Seq(ScanCodes)
  OBVIOUS

LEMMA JoinCodes ==
    ASSUME NEW s \in Seq(ScanCodes), NEW t \in Seq(ScanCodes)
    PROVE  s \o t \in Seq(ScanCodes)
  OBVIOUS

LEMMA KeyType ==
    ASSUME KbdType, NEW key \in Keys, press(key) \/ letgo(key)
    PROVE  KbdType'
<1>1. \A up \in BOOLEAN : Codes(key, up) \in Seq(ScanCodes)
  <2>1. <<>> \in Seq(ScanCodes)
    OBVIOUS
  <2> QED
    BY ZenonT(30), <2>1, CodesCons
<1>2. Codes(key, FALSE) \o Codes(key, TRUE) \in Seq(ScanCodes)
  <2>1. Codes(key, FALSE) \in Seq(ScanCodes) /\ Codes(key, TRUE) \in Seq(ScanCodes)
    BY <1>1, Zenon
  <2> QED
    BY <2>1, JoinCodes, Zenon
<1>3. wire' \in {Codes(key, FALSE), Codes(key, TRUE), Codes(key, FALSE) \o Codes(key, TRUE)}
  BY Zenon DEF press, letgo
<1>4. wire' \in Seq(ScanCodes)
  BY <1>1, <1>2, <1>3, Zenon
<1>5. held' \in {held, held \cup {key}, held \ {key}} /\ shift' = shift
  BY Zenon DEF press, letgo
<1>6. held' \subseteq Keys
  BY <1>5 DEF KbdType
<1> QED
  BY <1>4, <1>5, <1>6 DEF KbdType

(* kbdintr() takes one code and hands its character to the console. *)
LEMMA kbdintrStep ==
    ASSUME IInv, kbdintr
    PROVE  IInv' /\ (Lines!Next \/ SameLines)
<1> DEFINE code == Head(wire)
<1>1. KbdInv /\ KbdType /\ RingInv /\ ReaderInv
  BY InputParts DEF IInv
<1>2. /\ wire # <<>> /\ holder = Nobody /\ wire' = Tail(wire)
      /\ shift' = kbdgetc(code).shift /\ consoleintr(kbdgetc(code).c)
      /\ held' = held /\ UNCHANGED <<holder, n, target, killed>>
  BY DEF kbdintr
<1>3. code \in ScanCodes /\ Tail(wire) \in Seq(ScanCodes)
  BY <1>1, <1>2, HeadCode, Zenon DEF KbdType
<1> HIDE DEF code
<1>4. kbdgetc(code).c \in CharCodes /\ kbdgetc(code).shift \subseteq Modifiers
  BY <1>1, <1>3, kbdgetcFacts, Zenon DEF KbdType
<1>5. KbdInv'
  <2>1. TakesCode
    BY <1>2, Zenon DEF TakesCode, code
  <2> QED
    BY <1>1, <2>1, CodeTaken
<1>6. KbdType'
  BY <1>1, <1>2, <1>3, <1>4, ZenonT(30) DEF KbdType
<1>7. RingInv' /\ ReaderInv' /\ (Lines!Next \/ SameLines)
  BY <1>1, <1>2, <1>4, consoleintrStep
<1> QED
  BY <1>5, <1>6, <1>7, InputParts, PTL DEF IInv

LEMMA NextIInv ==
    ASSUME IInv, [Next]_vars
    PROVE  IInv' /\ (Lines!Next \/ SameLines)
<1>1. KbdInv /\ KbdType /\ RingInv /\ ReaderInv
  BY InputParts DEF IInv
<1>2. KbdInv' /\ KbdType' /\ RingInv' /\ ReaderInv' => IInv'
  BY InputParts, PTL DEF IInv
<1>3. ASSUME NEW key \in Keys, press(key) \/ letgo(key)
      PROVE  IInv' /\ SameLines
  <2>1. UNCHANGED inputVars /\ UNCHANGED readVars
    BY ZenonT(30), <1>3 DEF press, letgo
  <2>2. RingInv' /\ ReaderInv' /\ SameLines
    BY <1>1, <2>1, SameRing, SameReaders
  <2>3. KbdInv'
    BY <1>1, <1>3, pressKbd, letgoKbd
  <2>4. KbdType'
    BY <1>1, <1>3, KeyType
  <2> QED
    BY <1>2, <2>2, <2>3, <2>4
<1>4. CASE kbdintr
  BY <1>4, kbdintrStep
<1>5. ASSUME NEW p \in Readers,
             \/ \E count \in 1 .. MaxCount : Call(p, count)
             \/ Acquire(p) \/ ReadEmpty(p) \/ ReadDone(p) \/ Sleep(p) \/ kill(p)
      PROVE  IInv' /\ SameLines
  <2>1. UNCHANGED kbdVars /\ UNCHANGED inputVars
    BY <1>5, Zenon DEF Call, Acquire, ReadEmpty, ReadDone, Sleep, kill
  <2>2. ReaderInv'
    BY <1>1, <1>5, CallStep, AcquireStep, ReadEmptyStep, ReadDoneStep, SleepStep, killStep
  <2>3. KbdInv' /\ KbdType' /\ RingInv' /\ SameLines
    BY <1>1, <2>1, SameKbd, SameRing
  <2> QED
    BY <1>2, <2>2, <2>3
<1>6. ASSUME NEW p \in Readers, ReadChar(p)
      PROVE  IInv' /\ (Lines!Next \/ SameLines)
  <2>1. UNCHANGED kbdVars
    BY <1>6 DEF ReadChar
  <2>2. RingInv' /\ ReaderInv' /\ (Lines!Read \/ SameLines)
    BY <1>1, <1>6, ReadCharStep
  <2>3. KbdInv' /\ KbdType'
    BY <1>1, <2>1, SameKbd
  <2>4. Lines!Read => Lines!Next
    BY DEF Lines!Next
  <2> QED
    BY <1>2, <2>2, <2>3, <2>4
<1>7. CASE UNCHANGED vars
  <2>1. UNCHANGED kbdVars /\ UNCHANGED inputVars /\ UNCHANGED readVars
    BY <1>7 DEF vars
  <2> QED
    BY <1>1, <1>2, <2>1, SameKbd, SameRing, SameReaders
<1> QED
  BY <1>3, <1>4, <1>5, <1>6, <1>7, Zenon DEF Next

(* Whatever is typed and read, the indexes of the input buffer stay in order and
   no further apart than its size, the line under edit has no newline, a reader
   that found the buffer empty keeps cons.lock until it sleeps, and the wire and
   the modifiers agree (console.c:189-268, kbd.c:10-45).                   *)
THEOREM Invariance == Spec => []IInv
<1>1. Init => IInv
  BY InitIInv
<1>2. IInv /\ [Next]_vars => IInv'
  BY NextIInv
<1> QED
  BY <1>1, <1>2, PTL DEF Spec

(* The variables keep their types: consoleintr() stores only characters, within
   the buffer, and consoleread()'s n never gets below 0 (console.c:189-268). *)
THEOREM TypeTheorem == Spec => []TypeOK
<1>1. IInv => TypeOK
  BY DEF IInv, InputInv
<1> QED
  BY <1>1, Invariance, PTL

(* For every size of the buffer and any number of readers, nobody sleeps on
   input.r while a line is there: between the test for an empty buffer and the
   sleep no interrupt gets cons.lock (console.c:220-222, 241-248).         *)
THEOREM SleepTheorem == Spec => []SleepsOnEmpty
<1>1. IInv => SleepsOnEmpty
  BY DEF IInv, InputInv
<1> QED
  BY <1>1, Invariance, PTL

(* For every keyboard, when all scan codes are taken no escape is left and a
   modifier that is on has a key that is down (kbd.c:21-35).               *)
THEOREM ModifierTheorem == Spec => []NoStuckModifier
<1>1. IInv => NoStuckModifier
  <2> SUFFICES ASSUME KbdInv, wire = <<>>
               PROVE  /\ "E0ESC" \notin shift
                      /\ \A m \in {<<"SHIFT", "shift">>, <<"CTL", "ctl">>} :
                            m[1] \in shift => \E key \in held : key[1] = m[2]
    BY Zenon DEF IInv, NoStuckModifier
  <2>1. /\ "E0ESC" \notin shift
        /\ "SHIFT" \in shift => <<"shift", FALSE>> \in held
        /\ "CTL" \in shift => \E key \in held : key[1] = "ctl"
    BY EmptyWire
  <2>2. "SHIFT" \in shift => \E key \in held : key[1] = "shift"
    BY <2>1
  <2> QED
    BY <2>1, <2>2
<1> QED
  BY <1>1, Invariance, PTL

(* For every size of the buffer and every range of the indexes that is a larger
   multiple of it, the buffer is a queue of finished lines and a line under edit:
   what is typed is read once and in order, ^H and ^U change only the line under
   edit, and a full buffer ends it (console.c:198-226, 240-262).           *)
THEOREM LinesTheorem == Spec => ImplementsLines
<1>1. Init => Lines!Init
  BY InitIInv
<1>2. IInv /\ [Next]_vars => [Lines!Next]_<<Between(r, w), Between(w, e)>>
  BY NextIInv DEF SameLines
<1> QED
  BY <1>1, <1>2, Invariance, PTL DEF Spec, ImplementsLines, Lines!Spec
=============================================================================
