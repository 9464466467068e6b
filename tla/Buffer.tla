---- MODULE Buffer ----
(***************************************************************************)
(* Buffer.h, Buffer.cc: bytes in a vector, between readerIndex_ and        *)
(* writerIndex_, with room to prepend before and to append after.  Each    *)
(* operation runs beside the ByteQueue operation it is to have the effect  *)
(* of; the assertions on arguments are the user's contract, as guards.     *)
(*                                                                         *)
(* A byte has Base values, and an integer two bytes; the four and eight    *)
(* byte operations are the same code.  Indices are the code's, from 0; the *)
(* vector is a sequence, so that index i is its element i + 1.             *)
(***************************************************************************)
EXTENDS Integers, Sequences

CONSTANTS
  CheapPrepend,  \* kCheapPrepend
  InitialSize,   \* kInitialSize
  ExtraSize,     \* of extrabuf in readFd
  Base,          \* values of a byte
  CR, LF,
  Inputs,        \* the sequences of bytes that users append and prepend and peers send
  Ints,          \* the integers that they append
  MaxSize        \* bound: the vector

ASSUME SizesAssumption ==
  /\ CheapPrepend \in Nat /\ InitialSize \in Nat /\ ExtraSize \in Nat /\ MaxSize \in Nat
  /\ Base \in Nat /\ Base >= 2

Byte == 0..Base - 1

ASSUME InputsAssumption == Inputs \subseteq Seq(Byte) /\ Ints \subseteq Int /\ {CR, LF} \subseteq Byte

VARIABLES
  buf,     \* buffer_ as data, readerIndex_ as r, writerIndex_ as w
  content  \* what the ByteQueue beside it holds

vars == <<buf, content>>

Queue == INSTANCE ByteQueue

readableBytes(x) == x.w - x.r
writableBytes(x) == Len(x.data) - x.w
prependableBytes(x) == x.r
Contents(x) == SubSeq(x.data, x.r + 1, x.w)

\* The constructor.
NewBuffer ==
  [data |-> [i \in 1..CheapPrepend + InitialSize |-> 0], r |-> CheapPrepend, w |-> CheapPrepend]

Init ==
  /\ buf = NewBuffer
  /\ content = <<>>

----
(* The members, as functions of a buffer *)

\* std::copy of s to position at of the vector.
CopyTo(data, at, s) == [i \in 1..Len(data) |-> IF i \in at + 1..at + Len(s) THEN s[i - at] ELSE data[i]]

Resize(data, n) == [i \in 1..n |-> IF i <= Len(data) THEN data[i] ELSE 0]

Grows(x, len) == writableBytes(x) + prependableBytes(x) < len + CheapPrepend

MakeSpaceForgetsHeader(x, len) ==  \* a mutant: leaves no room to prepend
  IF writableBytes(x) + prependableBytes(x) < len
    THEN [x EXCEPT !.data = Resize(x.data, x.w + len)]
    ELSE [data |-> CopyTo(x.data, CheapPrepend, Contents(x)),
          r |-> CheapPrepend, w |-> CheapPrepend + readableBytes(x)]

\* makeSpace(): grow the vector, or move the bytes to its front.
MakeSpace(x, len) ==
  IF Grows(x, len)
    THEN [x EXCEPT !.data = Resize(x.data, x.w + len)]
    ELSE [data |-> CopyTo(x.data, CheapPrepend, Contents(x)),
          r |-> CheapPrepend, w |-> CheapPrepend + readableBytes(x)]

EnsureWritableBytes(x, len) == IF writableBytes(x) < len THEN MakeSpace(x, len) ELSE x

\* Writing at beginWrite(), and hasWritten().
HasWritten(x, s) == [data |-> CopyTo(x.data, x.w, s), r |-> x.r, w |-> x.w + Len(s)]

Appended(x, s) == HasWritten(EnsureWritableBytes(x, Len(s)), s)

RetrievedKeepsIndices(x, n) == [x EXCEPT !.r = @ + n + 1]  \* a mutant: one byte too many

Retrieved(x, n) ==
  IF n < readableBytes(x)
    THEN [x EXCEPT !.r = @ + n]
    ELSE [data |-> x.data, r |-> CheapPrepend, w |-> CheapPrepend]

Prepended(x, s) == [data |-> CopyTo(x.data, x.r - Len(s), s), r |-> x.r - Len(s), w |-> x.w]

\* shrink(): a new buffer, swapped for the old.
Shrunk(x, reserve) == Appended(EnsureWritableBytes(NewBuffer, readableBytes(x) + reserve), Contents(x))

\* readFd(): how much readv() may return, and where it goes.
ReadLimit(x) == writableBytes(x) + (IF writableBytes(x) < ExtraSize THEN ExtraSize ELSE 0)

ReadNoExtra(x, s) ==  \* a mutant: what extrabuf received overwrites what the vector did
  IF Len(s) <= writableBytes(x)
    THEN HasWritten(x, s)
    ELSE Appended(x, SubSeq(s, writableBytes(x) + 1, Len(s)))

ReadFrom(x, s) ==
  IF Len(s) <= writableBytes(x)
    THEN HasWritten(x, s)
    ELSE Appended(HasWritten(x, SubSeq(s, 1, writableBytes(x))), SubSeq(s, writableBytes(x) + 1, Len(s)))

\* std::search for CR LF between peek() and beginWrite(), as an index of the vector, or -1.
FindCRLF(x) ==
  LET found == {i \in x.r..x.w - 2 : x.data[i + 1] = CR /\ x.data[i + 2] = LF}
  IN IF found = {} THEN -1 ELSE CHOOSE i \in found : \A j \in found : i <= j

(* Integers.  The host is little endian: memory holds the low byte first. *)

HostToNetwork(u) == (u % Base) * Base + u \div Base
Unsigned(v) == v % (Base * Base)
Signed(u) == IF 2 * u < Base * Base THEN u ELSE u - Base * Base
Memory(u) == <<u % Base, u \div Base>>
Loaded(x) == x.data[x.r + 1] + x.data[x.r + 2] * Base

\* The bytes that appendInt16 and prependInt16 copy.
IntBytes(v) == Memory(HostToNetwork(Unsigned(v)))

\* What the peer is to find.
NetworkOrder(v) == <<Unsigned(v) \div Base, v % Base>>

\* peekInt16(), and its assertion that the big-endian value is not negative on this host.
PeekInt(x) == Signed(HostToNetwork(Loaded(x)))
PeekIntAsserts(x) == Signed(Loaded(x)) >= 0

----
(* Operations *)

Becomes(x) ==
  /\ Len(x.data) <= MaxSize
  /\ buf' = x

AppendBytes(s) ==
  /\ Becomes(Appended(buf, s))
  /\ Queue!PutBack(s)

ReadFd(s) ==
  /\ Len(s) <= ReadLimit(buf)
  /\ Becomes(ReadFrom(buf, s))
  /\ Queue!PutBack(s)

PrependBytes(s) ==
  /\ Len(s) <= prependableBytes(buf)
  /\ Becomes(Prepended(buf, s))
  /\ Queue!PutFront(s)

AppendInt(v) ==
  /\ Becomes(Appended(buf, IntBytes(v)))
  /\ Queue!PutBack(NetworkOrder(v))

PrependInt(v) ==
  /\ 2 <= prependableBytes(buf)
  /\ Becomes(Prepended(buf, IntBytes(v)))
  /\ Queue!PutFront(NetworkOrder(v))

ReadInt ==
  /\ 2 <= readableBytes(buf)
  /\ PeekIntAsserts(buf)
  /\ Becomes(Retrieved(buf, 2))
  /\ Queue!RemoveFront(2)

\* retrieve(), retrieveAsString() and, with n = readableBytes(), retrieveAll().
Retrieve(n) ==
  /\ n <= readableBytes(buf)
  /\ Becomes(Retrieved(buf, n))
  /\ Queue!RemoveFront(n)

\* retrieveUntil(findCRLF() + 2)
RetrieveLine ==
  /\ FindCRLF(buf) # -1
  /\ Becomes(Retrieved(buf, FindCRLF(buf) + 2 - buf.r))
  /\ Queue!RemoveLine

Unwrite(n) ==
  /\ n <= readableBytes(buf)
  /\ Becomes([buf EXCEPT !.w = @ - n])
  /\ Queue!RemoveBack(n)

Shrink(reserve) ==
  /\ Becomes(Shrunk(buf, reserve))
  /\ UNCHANGED content

\* swap() with a buffer to which s was appended.
Swap(s) ==
  /\ Becomes(Appended(NewBuffer, s))
  /\ Queue!ReplacedBy(s)

Next ==
  \/ \E s \in Inputs : AppendBytes(s) \/ ReadFd(s) \/ PrependBytes(s) \/ Swap(s)
  \/ \E v \in Ints : AppendInt(v) \/ PrependInt(v)
  \/ \E n \in 0..MaxSize : Retrieve(n) \/ Unwrite(n) \/ Shrink(n)
  \/ ReadInt
  \/ RetrieveLine

Spec == Init /\ [][Next]_vars

----
(* Properties *)

IsBuffer(x) ==
  /\ x \in [data : Seq(Byte), r : Nat, w : Nat]
  /\ x.r <= x.w /\ x.w <= Len(x.data)

\* The indices stay in order and within the vector, as the picture at Buffer.h:36 has them, after prepend()
\* went below kCheapPrepend, unwrite() came back to readerIndex_ and readFd() ran over the end.
TypeOK ==
  /\ IsBuffer(buf)
  /\ content \in Seq(Byte)

\* Whatever room is asked of ensureWritableBytes(), it finds (assert of Buffer.h:201), moving the bytes only
\* to the left (341), keeping them, and leaving the header of kCheapPrepend bytes if it moved them.
SpaceFound ==
  \A len \in 0..MaxSize :
    LET y == EnsureWritableBytes(buf, len)
    IN /\ writableBytes(y) >= len
       /\ Contents(y) = Contents(buf)
       /\ y.r <= buf.r
       /\ y.r # buf.r => y.r = CheapPrepend

\* What lies between the indices is what the operations put there and have not taken out, however often
\* the vector was grown, moved, shrunk, swapped or read into; and an integer in front of it reads as its
\* bytes in network order.
ContentsKept ==
  /\ Contents(buf) = content
  /\ Len(content) >= 2 => PeekInt(buf) = Signed(content[1] * Base + content[2])
====
