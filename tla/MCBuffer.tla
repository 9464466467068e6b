---- MODULE MCBuffer ----
(* Byte sequences and integers for Buffer.cfg: pieces of lines, CR LF together and apart, an input *)
(* longer than the first vector, and a negative integer that peekInt16 accepts. *)
EXTENDS Buffer

SomeInputs == {<<2>>, <<3, 1>>, <<1, 2, 3, 1>>}
SomeInts == {-7}
====
