---------------------------- MODULE AbstractFile ----------------------------
(* Files as sequences of bytes: what readi(), writei() and itrunc() promise. *)
EXTENDS Integers, Sequences

CONSTANT Inodes

VARIABLE content

Overwrite(s, o, t) ==
    [k \in 1 .. (IF o + Len(t) > Len(s) THEN o + Len(t) ELSE Len(s)) |->
        IF k > o /\ k <= o + Len(t) THEN t[k - o] ELSE s[k]]

Init == content \in [Inodes -> Seq(Nat)]

Write(ip, o, n) ==
    /\ o <= Len(content[ip])
    /\ Len(content'[ip]) >= o + n
    /\ content' = [content EXCEPT ![ip] =
                      Overwrite(@, o, SubSeq(content'[ip], o + 1, o + n))]
    /\ \A k \in o + 1 .. o + n : content'[ip][k] = content'[ip][o + 1]

Truncate(ip) == content' = [content EXCEPT ![ip] = <<>>]

Next ==
    \E ip \in Inodes :
       \/ Truncate(ip)
       \/ \E o \in 0 .. Len(content[ip]), n \in 1 .. Len(content'[ip]) :
             Write(ip, o, n)

Spec == Init /\ [][Next]_content
=============================================================================
