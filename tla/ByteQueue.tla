---- MODULE ByteQueue ----
(***************************************************************************)
(* What a Buffer promises its users: a sequence of bytes that is extended  *)
(* and cut at both ends.  Where the bytes lie is not its user's business.  *)
(***************************************************************************)
EXTENDS Integers, Sequences

CONSTANTS CR, LF

VARIABLE content

PutBack(s) == content' = content \o s

PutFront(s) == content' = s \o content

RemoveFront(n) == content' = SubSeq(content, n + 1, Len(content))

RemoveBack(n) == content' = SubSeq(content, 1, Len(content) - n)

ReplacedBy(s) == content' = s

EndsLine(i) == content[i] = CR /\ content[i + 1] = LF

\* Removes the first line, which CR LF ends.
RemoveLine ==
  \E i \in 1..Len(content) - 1 :
    /\ EndsLine(i)
    /\ \A j \in 1..i - 1 : ~EndsLine(j)
    /\ RemoveFront(i + 1)
====
