------------------------------- MODULE Shell --------------------------------
(***************************************************************************)
(* The shell (sh.c): the parser, from a line of characters to a tree of    *)
(* commands, and runcmd(), from the tree to the programs it starts and the *)
(* descriptors they start with.  The line is a sequence of characters of   *)
(* which the words, the blank and the symbols matter; its end is a NUL.    *)
(* A panic() of the shell makes the result Bad.                            *)
(***************************************************************************)
EXTENDS Integers, Sequences, FiniteSets, SequencesExt, FiniteSetsExt

CONSTANTS MAXARGS,   \* sh.c:13
          WordChars, \* characters that words are made of
          MaxLine,   \* bound: length of the lines that are tried
          MaxNest    \* bound: nesting of the trees that are tried

NUL == "NUL"
symbols == {"<", "|", ">", "&", ";", "(", ")"}
Bad == [type |-> "BAD"]

execcmd(argv) == [type |-> "EXEC", argv |-> argv]
redircmd(cmd, file, fd) == [type |-> "REDIR", cmd |-> cmd, file |-> file, fd |-> fd]
pipecmd(left, right) == [type |-> "PIPE", left |-> left, right |-> right]
listcmd(left, right) == [type |-> "LIST", left |-> left, right |-> right]
backcmd(cmd) == [type |-> "BACK", cmd |-> cmd]

-----------------------------------------------------------------------------
(* Tokens.  A position is an index of buf; a word is its first position and
   the one behind its last, as q and eq in the code.                       *)
CharAt(buf, s) == IF s > Len(buf) THEN NUL ELSE buf[s]
First(buf, s, Stops) == Min({i \in s .. Len(buf) + 1 : CharAt(buf, i) \in Stops})
skip(buf, s) == First(buf, s, symbols \cup WordChars \cup {NUL})

gettoken(buf, s) ==
    LET q  == skip(buf, s)
        c  == CharAt(buf, q)
        eq == IF c = NUL THEN q
              ELSE IF c = ">" /\ CharAt(buf, q + 1) = ">" THEN q + 2
              ELSE IF c \in symbols THEN q + 1
              ELSE First(buf, q, symbols \cup {" ", NUL})
    IN  [tok  |-> IF eq = q + 2 /\ c = ">" THEN "+" ELSE IF c \in WordChars THEN "a" ELSE c,
         word |-> <<q, eq>>,
         s    |-> skip(buf, eq)]

-----------------------------------------------------------------------------
(* The parser: one operator for the functions of the code, which call each other.
   r is what the caller has parsed: its command and the position behind it.  *)
Result(cmd, s) == [cmd |-> cmd, s |-> s]

(* The execcmd is filled after redirections have been wrapped round it. *)
RECURSIVE Fill(_, _)
Fill(cmd, argv) == IF cmd.type = "EXEC" THEN execcmd(argv)
                   ELSE [cmd EXCEPT !.cmd = Fill(cmd.cmd, argv)]

RECURSIVE Args(_)
Args(cmd) == IF cmd.type = "EXEC" THEN cmd.argv ELSE Args(cmd.cmd)

RECURSIVE parse(_, _, _)
parse(what, buf, r) ==
    LET t    == gettoken(buf, r.s)
        rest == Result(r.cmd, t.s)                       \* the token is taken
        Join(p, combine(_, _)) ==
            IF p.cmd = Bad THEN p ELSE Result(combine(r.cmd, p.cmd), p.s)
    IN  CASE r.cmd = Bad -> r
          [] what = "parseline" -> parse("line2", buf, parse("parsepipe", buf, r))
          [] what = "line2" ->
               IF t.tok = "&" THEN parse("line2", buf, Result(backcmd(r.cmd), t.s))
               ELSE IF t.tok = ";" THEN Join(parse("parseline", buf, rest), listcmd)
               ELSE r
          [] what = "parsepipe" -> parse("pipe2", buf, parse("parseexec", buf, r))
          [] what = "pipe2" ->
               IF t.tok = "|" THEN Join(parse("parsepipe", buf, rest), pipecmd) ELSE r
          [] what = "parseexec" ->
               IF t.tok = "(" THEN parse("parseblock", buf, parse("parseline", buf, rest))
               ELSE parse("args", buf, parse("parseredirs", buf, Result(execcmd(<<>>), r.s)))
          [] what = "parseblock" ->
               IF t.tok = ")" THEN parse("parseredirs", buf, rest) ELSE Result(Bad, r.s)
          [] what = "parseredirs" ->
               IF t.tok \notin {"<", ">", "+"} THEN r
               ELSE LET f == gettoken(buf, t.s)
                    IN  IF f.tok # "a" THEN Result(Bad, f.s)
                        ELSE parse("parseredirs", buf,
                                   Result(redircmd(r.cmd, f.word, IF t.tok = "<" THEN 0 ELSE 1), f.s))
          [] what = "args" ->
               IF t.tok \in {"|", ")", "&", ";", NUL} THEN r
               ELSE IF t.tok # "a" \/ Len(Args(r.cmd)) + 1 >= MAXARGS THEN Result(Bad, t.s)
               ELSE parse("args", buf, parse("parseredirs", buf,
                            Result(Fill(r.cmd, Append(Args(r.cmd), t.word)), t.s)))

(* Fault: the file of a redirection is not terminated. *)
RECURSIVE nulterminateArgs(_)
nulterminateArgs(cmd) ==
    CASE cmd.type = "EXEC" -> {w[2] : w \in Range(cmd.argv)}
      [] cmd.type \in {"REDIR", "BACK"} -> nulterminateArgs(cmd.cmd)
      [] OTHER -> nulterminateArgs(cmd.left) \cup nulterminateArgs(cmd.right)

(* The positions that nulterminate() overwrites with a NUL. *)
RECURSIVE nulterminate(_)
nulterminate(cmd) ==
    CASE cmd.type = "EXEC" -> {w[2] : w \in Range(cmd.argv)}
      [] cmd.type = "REDIR" -> nulterminate(cmd.cmd) \cup {cmd.file[2]}
      [] cmd.type = "BACK" -> nulterminate(cmd.cmd)
      [] OTHER -> nulterminate(cmd.left) \cup nulterminate(cmd.right)

(* The tree, and the line as it is left for the strings in it. *)
parsecmd(buf) ==
    LET p == parse("parseline", buf, Result(execcmd(<<>>), 1))
    IN  IF p.cmd = Bad \/ skip(buf, p.s) # Len(buf) + 1 THEN [cmd |-> Bad, buf |-> buf]
        ELSE [cmd |-> p.cmd,
              buf |-> [i \in 1 .. Len(buf) |->
                         IF i \in nulterminate(p.cmd) THEN NUL ELSE buf[i]]]

(* The tree with the strings that its pointers point at. *)
CString(buf, w) == SubSeq(buf, w[1], First(buf, w[1], {NUL}) - 1)
RECURSIVE Strings(_, _)
Strings(buf, cmd) ==
    CASE cmd.type = "EXEC" -> execcmd([i \in DOMAIN cmd.argv |-> CString(buf, cmd.argv[i])])
      [] cmd.type = "REDIR" -> [cmd EXCEPT !.cmd = Strings(buf, @), !.file = CString(buf, @)]
      [] cmd.type = "BACK" -> [cmd EXCEPT !.cmd = Strings(buf, @)]
      [] OTHER -> [cmd EXCEPT !.left = Strings(buf, @), !.right = Strings(buf, @)]

-----------------------------------------------------------------------------
(* runcmd().  A process is its descriptor table; a pipe is named by the place
   of its PIPE command in the tree.                                        *)
lowest(fds) == Min(0 .. Cardinality(DOMAIN fds) \ DOMAIN fds)
sys_close(fds, fd) == Restrict(fds, DOMAIN fds \ {fd})
sys_open(fds, file) == [fd \in DOMAIN fds \cup {lowest(fds)} |->
                      IF fd \in DOMAIN fds THEN fds[fd] ELSE file]
sys_dup(fds, fd) == sys_open(fds, fds[fd])

(* Fault: the child keeps the end it does not use. *)
ChildLeaks(fds, fd, p, q) == sys_close(sys_dup(sys_close(fds, fd), p), p)

(* The child of a PIPE: fd becomes p, and p and q are closed. *)
Child(fds, fd, p, q) == sys_close(sys_close(sys_dup(sys_close(fds, fd), p), p), q)

RECURSIVE runcmd(_, _, _)
runcmd(cmd, fds, at) ==
    CASE cmd.type = "EXEC" -> IF cmd.argv = <<>> THEN {}
                              ELSE {[argv |-> cmd.argv, fds |-> fds]}
      [] cmd.type = "REDIR" -> runcmd(cmd.cmd, sys_open(sys_close(fds, cmd.fd), cmd.file), at)
      [] cmd.type = "LIST" -> runcmd(cmd.left, fds, Append(at, 1))
                              \cup runcmd(cmd.right, fds, Append(at, 2))
      [] cmd.type = "BACK" -> runcmd(cmd.cmd, fds, at)
      [] cmd.type = "PIPE" ->
           LET p0   == lowest(fds)
               fds0 == sys_open(fds, <<"read end", at>>)
               p1   == lowest(fds0)
               fds1 == sys_open(fds0, <<"write end", at>>)
           IN  runcmd(cmd.left, Child(fds1, 1, p1, p0), Append(at, 1))
               \cup runcmd(cmd.right, Child(fds1, 0, p0, p1), Append(at, 2))

-----------------------------------------------------------------------------
(* The language, and what its commands mean *)

Words == {<<c>> : c \in WordChars}
Execs == {execcmd(<<w>>) : w \in Words} \cup {execcmd(<<w, w>>) : w \in Words}
Redirs(Cmds) == Cmds \cup {redircmd(c, w, fd) : c \in Cmds, w \in Words, fd \in {0, 1}}

(* Commands up to a nesting, as records that the parser should build. *)
RECURSIVE Trees(_)
Trees(n) ==
    IF n = 0 THEN Redirs(Execs)
    ELSE LET T == Trees(n - 1)
         IN  T \cup {backcmd(t) : t \in T}
               \cup {pipecmd(e, e2) : e \in Redirs(Execs), e2 \in T}
               \cup {listcmd(t, e) : t \in T, e \in Execs}

(* The line that writes a tree, with parentheses where it needs them. *)
RECURSIVE Line(_)
Parens(t, Plain) == IF t.type \in Plain THEN Line(t) ELSE <<"(">> \o Line(t) \o <<")">>
Line(t) ==
    CASE t.type = "EXEC" -> FlattenSeq([i \in 1 .. Len(t.argv) |-> <<" ">> \o t.argv[i]])
      [] t.type = "REDIR" -> Parens(t.cmd, {"EXEC", "REDIR"})
                             \o <<IF t.fd = 0 THEN "<" ELSE ">">> \o t.file
      [] t.type = "BACK" -> Parens(t.cmd, {"EXEC", "REDIR", "PIPE", "BACK"}) \o <<"&">>
      [] t.type = "PIPE" -> Parens(t.left, {"EXEC", "REDIR"}) \o <<"|">>
                            \o Parens(t.right, {"EXEC", "REDIR", "PIPE"})
      [] t.type = "LIST" -> Parens(t.left, {"EXEC", "REDIR", "PIPE", "BACK"}) \o <<";">>
                            \o Line(t.right)

(* parsecmd() undoes the writing of a command: pipes bind tighter than & and
   both tighter than ;, redirections belong to the command before them, and
   every string in the tree ends where its word does, although the line is cut
   up in place after it is parsed.  What it accepts, it accounts for: no word
   of the line is lost (sh.c:326-493).                                     *)
ParsesGrammar ==
    /\ \A t \in Trees(MaxNest) :
          LET r == parsecmd(Line(t)) IN r.cmd # Bad /\ Strings(r.buf, r.cmd) = t
    /\ \A n \in 0 .. MaxLine : \A buf \in [1 .. n -> WordChars \cup symbols \cup {" "}] :
          LET r    == parsecmd(buf)
              Ends == {i \in 2 .. n + 1 : /\ buf[i - 1] \in WordChars
                                         /\ CharAt(buf, i) \notin WordChars}
          IN  r.cmd # Bad => nulterminate(r.cmd) = Ends

(* The programs of a command with their input and output. *)
RECURSIVE Wired(_, _, _, _)
Wired(cmd, in, out, at) ==
    CASE cmd.type = "EXEC" -> {[argv |-> cmd.argv, in |-> in, out |-> out]}
      [] cmd.type = "REDIR" -> IF cmd.fd = 0 THEN Wired(cmd.cmd, cmd.file, out, at)
                               ELSE Wired(cmd.cmd, in, cmd.file, at)
      [] cmd.type = "BACK" -> Wired(cmd.cmd, in, out, at)
      [] cmd.type = "LIST" -> Wired(cmd.left, in, out, Append(at, 1))
                              \cup Wired(cmd.right, in, out, Append(at, 2))
      [] cmd.type = "PIPE" -> Wired(cmd.left, in, <<"write end", at>>, Append(at, 1))
                              \cup Wired(cmd.right, <<"read end", at>>, out, Append(at, 2))

(* Every program starts with descriptors 0, 1 and 2 and no other, connected as
   the command says: an end of a pipe that is left open anywhere else would
   keep its reader from ever seeing the end of the input (sh.c:57-130).    *)
PipelineWired ==
    \A t \in Trees(MaxNest) :
       runcmd(t, [fd \in 0 .. 2 |-> <<"console">>], <<>>)
         = {[argv |-> w.argv, fds |-> [fd \in 0 .. 2 |-> IF fd = 0 THEN w.in ELSE
                                         IF fd = 1 THEN w.out ELSE <<"console">>]] :
              w \in Wired(t, <<"console">>, <<"console">>, <<>>)}
=============================================================================
