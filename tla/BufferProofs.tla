---- MODULE BufferProofs ----
(***************************************************************************)
(* Theorems about Buffer, for every size of vector, header and byte, and   *)
(* every set of inputs: the indices stay in order, room that is asked for  *)
(* is found, and the bytes are those of the byte queue.                    *)
(***************************************************************************)
EXTENDS Buffer, SequenceTheorems, TLAPS

\* The bytes c lie between r and w of the vector data.
Bytes(data, r, w, c) ==
  /\ data \in Seq(Byte) /\ c \in Seq(Byte)
  /\ r \in Nat /\ w \in Nat
  /\ r <= w /\ w <= Len(data)
  /\ Len(c) = w - r
  /\ \A i \in 1..w - r : c[i] = data[r + i]

\* The buffer x holds the bytes c, and its vector the header that retrieveAll() returns the indices to.
Shows(x, c) ==
  /\ x = [data |-> x.data, r |-> x.r, w |-> x.w]
  /\ CheapPrepend <= Len(x.data)
  /\ Bytes(x.data, x.r, x.w, c)

USE SizesAssumption

----
(* Vectors *)

\* A copy into a vector is a vector of the same size.
LEMMA CopyToProperties ==
  ASSUME NEW data \in Seq(Byte), NEW at \in Nat, NEW s \in Seq(Byte)
  PROVE  /\ CopyTo(data, at, s) \in Seq(Byte)
         /\ Len(CopyTo(data, at, s)) = Len(data)
         /\ \A i \in 1..Len(data) :
              CopyTo(data, at, s)[i] = IF i \in at + 1..at + Len(s) THEN s[i - at] ELSE data[i]
<1> DEFINE f == CopyTo(data, at, s)
<1>1. \A i \in 1..Len(data) : data[i] \in Byte
  BY ElementOfSeq
<1>2. \A i \in at + 1..at + Len(s) : s[i - at] \in Byte
  BY ElementOfSeq, LenProperties
<1>3. Len(data) \in Nat
  BY LenProperties
<1>4. f \in [1..Len(data) -> Byte]
  BY <1>1, <1>2 DEF CopyTo
<1>5. f \in Seq(Byte) /\ DOMAIN f = 1..Len(data)
  BY <1>3, <1>4, SeqDef
<1>6. Len(f) = Len(data)
  BY <1>3, <1>5, LenProperties
<1> QED
  BY <1>5, <1>6 DEF CopyTo

\* A resized vector keeps its bytes; new ones are 0.
LEMMA ResizeProperties ==
  ASSUME NEW data \in Seq(Byte), NEW n \in Nat
  PROVE  /\ Resize(data, n) \in Seq(Byte)
         /\ Len(Resize(data, n)) = n
         /\ \A i \in 1..n : Resize(data, n)[i] = IF i <= Len(data) THEN data[i] ELSE 0
<1> DEFINE f == Resize(data, n)
<1>1. \A i \in 1..n : i <= Len(data) => data[i] \in Byte
  BY ElementOfSeq, LenProperties
<1>2. 0 \in Byte
  BY DEF Byte
<1>3. f \in [1..n -> Byte]
  BY <1>1, <1>2 DEF Resize
<1>4. f \in Seq(Byte) /\ DOMAIN f = 1..n
  BY <1>3, SeqDef
<1>5. Len(f) = n
  BY <1>4, LenProperties
<1> QED
  BY <1>4, <1>5 DEF Resize

----
(* Bytes in vectors *)

\* No bytes lie between an index and itself.
LEMMA BytesEmpty ==
  ASSUME NEW data \in Seq(Byte), NEW k \in Nat, k <= Len(data)
  PROVE  Bytes(data, k, k, <<>>)
BY EmptySeq DEF Bytes

\* A vector that grows.
LEMMA BytesResized ==
  ASSUME NEW data, NEW r, NEW w, NEW c, Bytes(data, r, w, c), NEW n \in Nat, w <= n
  PROVE  Bytes(Resize(data, n), r, w, c) /\ Len(Resize(data, n)) = n
<1> DEFINE d == Resize(data, n)
<1>1. d \in Seq(Byte) /\ Len(d) = n /\ \A i \in 1..n : d[i] = IF i <= Len(data) THEN data[i] ELSE 0
  BY ResizeProperties DEF Bytes
<1> HIDE DEF d
<1>2. ASSUME NEW i \in 1..w - r
      PROVE  d[r + i] = data[r + i]
  <2>1. r + i \in 1..n /\ r + i <= Len(data)
    BY LenProperties DEF Bytes
  <2> QED BY <1>1, <2>1
<1>3. Bytes(d, r, w, c) /\ Len(d) = n
  BY <1>1, <1>2 DEF Bytes
<1> QED BY <1>3 DEF d

\* Bytes that move to the left.
LEMMA BytesMoved ==
  ASSUME NEW data, NEW r, NEW w, NEW c, Bytes(data, r, w, c), NEW k \in Nat, k <= r
  PROVE  /\ Bytes(CopyTo(data, k, c), k, k + (w - r), c)
         /\ Len(CopyTo(data, k, c)) = Len(data)
<1> DEFINE d == CopyTo(data, k, c)
<1>1. /\ d \in Seq(Byte) /\ Len(d) = Len(data)
      /\ \A i \in 1..Len(data) : d[i] = IF i \in k + 1..k + Len(c) THEN c[i - k] ELSE data[i]
  BY CopyToProperties DEF Bytes
<1> HIDE DEF d
<1>2. ASSUME NEW i \in 1..w - r
      PROVE  d[k + i] = c[i]
  <2>1. k + i \in 1..Len(data) /\ k + i \in k + 1..k + Len(c) /\ (k + i) - k = i
    BY LenProperties DEF Bytes
  <2> QED BY <1>1, <2>1
<1>3. Bytes(d, k, k + (w - r), c)
  <2>1. k + (w - r) \in Nat /\ (k + (w - r)) - k = w - r /\ k + (w - r) <= Len(data)
    BY LenProperties DEF Bytes
  <2> QED BY <1>1, <1>2, <2>1 DEF Bytes
<1> QED BY <1>1, <1>3 DEF d

\* Bytes written behind.
LEMMA BytesWritten ==
  ASSUME NEW data, NEW r, NEW w, NEW c, Bytes(data, r, w, c), NEW s \in Seq(Byte), w + Len(s) <= Len(data)
  PROVE  /\ Bytes(CopyTo(data, w, s), r, w + Len(s), c \o s)
         /\ Len(CopyTo(data, w, s)) = Len(data)
<1> DEFINE d == CopyTo(data, w, s)
<1>1. /\ d \in Seq(Byte) /\ Len(d) = Len(data)
      /\ \A i \in 1..Len(data) : d[i] = IF i \in w + 1..w + Len(s) THEN s[i - w] ELSE data[i]
  BY CopyToProperties DEF Bytes
<1>2. /\ c \o s \in Seq(Byte) /\ Len(c \o s) = Len(c) + Len(s)
      /\ \A i \in 1..Len(c) + Len(s) : (c \o s)[i] = IF i <= Len(c) THEN c[i] ELSE s[i - Len(c)]
  BY ConcatProperties DEF Bytes
<1>3. Len(s) \in Nat /\ Len(data) \in Nat
  BY LenProperties DEF Bytes
<1> HIDE DEF d
<1>4. ASSUME NEW i \in 1..(w + Len(s)) - r
      PROVE  (c \o s)[i] = d[r + i]
  <2>1. r + i \in 1..Len(data) /\ i \in 1..Len(c) + Len(s)
    BY <1>3 DEF Bytes
  <2>2. CASE i <= w - r
    <3>1. i \in 1..w - r /\ r + i \notin w + 1..w + Len(s) /\ i <= Len(c)
      BY <1>3, <2>2 DEF Bytes
    <3>2. c[i] = data[r + i]
      BY <3>1 DEF Bytes
    <3> QED BY <1>1, <1>2, <2>1, <3>1, <3>2
  <2>3. CASE ~(i <= w - r)
    <3>1. r + i \in w + 1..w + Len(s) /\ (r + i) - w = i - Len(c) /\ ~(i <= Len(c))
      BY <1>3, <2>3 DEF Bytes
    <3> QED BY <1>1, <1>2, <2>1, <3>1
  <2> QED BY <2>2, <2>3
<1>5. w + Len(s) \in Nat /\ r <= w + Len(s) /\ Len(c \o s) = (w + Len(s)) - r
  BY <1>2, <1>3 DEF Bytes
<1>6. Bytes(d, r, w + Len(s), c \o s)
  BY <1>1, <1>2, <1>4, <1>5 DEF Bytes
<1> QED BY <1>1, <1>6 DEF d

\* Bytes written in front.
LEMMA BytesPrepended ==
  ASSUME NEW data, NEW r, NEW w, NEW c, Bytes(data, r, w, c), NEW s \in Seq(Byte), Len(s) <= r
  PROVE  Bytes(CopyTo(data, r - Len(s), s), r - Len(s), w, s \o c)
<1> DEFINE k == r - Len(s)
           d == CopyTo(data, k, s)
<1>1. Len(s) \in Nat /\ Len(data) \in Nat /\ k \in Nat /\ k + Len(s) = r
  BY LenProperties DEF Bytes
<1> HIDE DEF k
<1>2. /\ d \in Seq(Byte) /\ Len(d) = Len(data)
      /\ \A i \in 1..Len(data) : d[i] = IF i \in k + 1..k + Len(s) THEN s[i - k] ELSE data[i]
  BY <1>1, CopyToProperties DEF Bytes
<1>3. /\ s \o c \in Seq(Byte) /\ Len(s \o c) = Len(s) + Len(c)
      /\ \A i \in 1..Len(s) + Len(c) : (s \o c)[i] = IF i <= Len(s) THEN s[i] ELSE c[i - Len(s)]
  BY ConcatProperties DEF Bytes
<1> HIDE DEF d
<1>4. ASSUME NEW i \in 1..w - k
      PROVE  (s \o c)[i] = d[k + i]
  <2>1. k + i \in 1..Len(data) /\ i \in 1..Len(s) + Len(c)
    BY <1>1 DEF Bytes
  <2>2. CASE i <= Len(s)
    <3>1. k + i \in k + 1..k + Len(s) /\ (k + i) - k = i
      BY <1>1, <2>2
    <3> QED BY <1>2, <1>3, <2>1, <2>2, <3>1
  <2>3. CASE ~(i <= Len(s))
    <3>1. r \in Nat /\ w \in Nat /\ r <= w /\ i \in Nat
      BY DEF Bytes
    <3>3. k + i \notin k + 1..k + Len(s) /\ i - Len(s) \in 1..w - r /\ r + (i - Len(s)) = k + i
      BY <1>1, <2>3, <3>1
    <3>2. c[i - Len(s)] = data[k + i]
      BY <3>3 DEF Bytes
    <3> QED BY <1>2, <1>3, <2>1, <2>3, <3>3, <3>2
  <2> QED BY <2>2, <2>3
<1>5. k <= w /\ Len(s \o c) = w - k
  <2>1. r \in Nat /\ w \in Nat /\ r <= w /\ Len(c) = w - r
    BY DEF Bytes
  <2> QED BY <1>1, <1>3, <2>1
<1>6. Bytes(d, k, w, s \o c)
  BY <1>1, <1>2, <1>3, <1>4, <1>5 DEF Bytes
<1> QED BY <1>6 DEF d, k

\* Bytes taken from the front.
LEMMA BytesTakenFront ==
  ASSUME NEW data, NEW r, NEW w, NEW c, Bytes(data, r, w, c), NEW n \in Nat, n <= w - r
  PROVE  Bytes(data, r + n, w, SubSeq(c, n + 1, Len(c)))
<1> DEFINE t == SubSeq(c, n + 1, Len(c))
<1>1. r \in Nat /\ w \in Nat /\ Len(c) = w - r /\ w <= Len(data) /\ c \in Seq(Byte) /\ data \in Seq(Byte)
  BY DEF Bytes
<1>2. \A i \in n + 1..Len(c) : c[i] \in Byte
  BY <1>1, ElementOfSeq
<1>3. /\ t \in Seq(Byte)
      /\ Len(t) = IF n + 1 <= Len(c) THEN Len(c) - (n + 1) + 1 ELSE 0
      /\ \A i \in 1..Len(c) - (n + 1) + 1 : t[i] = c[(n + 1) + i - 1]
  <2> DEFINE m == n + 1
             l == Len(c)
  <2>1. m \in Int /\ l \in Int /\ \A i \in m..l : c[i] \in Byte
    BY <1>1, <1>2
  <2> HIDE DEF m, l
  <2>2. /\ SubSeq(c, m, l) \in Seq(Byte)
        /\ Len(SubSeq(c, m, l)) = IF m <= l THEN l - m + 1 ELSE 0
        /\ \A i \in 1..l - m + 1 : SubSeq(c, m, l)[i] = c[m + i - 1]
    BY <2>1, SubSeqProperties
  <2> QED BY <2>2 DEF m, l
<1> HIDE DEF t
<1>4. Len(t) = w - (r + n) /\ r + n \in Nat /\ r + n <= w
  BY <1>1, <1>3
<1>5. ASSUME NEW i \in 1..w - (r + n)
      PROVE  t[i] = data[(r + n) + i]
  <2>1. /\ i \in 1..Len(c) - (n + 1) + 1 /\ (n + 1) + i - 1 = n + i
        /\ n + i \in 1..w - r /\ r + (n + i) = (r + n) + i
    BY <1>1
  <2>2. t[i] = c[n + i]
    BY <1>3, <2>1
  <2>3. c[n + i] = data[r + (n + i)]
    BY <2>1 DEF Bytes
  <2> QED BY <2>1, <2>2, <2>3
<1>6. Bytes(data, r + n, w, t)
  BY <1>1, <1>3, <1>4, <1>5 DEF Bytes
<1> QED BY <1>6 DEF t

\* Bytes taken from the back.
LEMMA BytesTakenBack ==
  ASSUME NEW data, NEW r, NEW w, NEW c, Bytes(data, r, w, c), NEW n \in Nat, n <= w - r
  PROVE  Bytes(data, r, w - n, SubSeq(c, 1, Len(c) - n))
<1> DEFINE t == SubSeq(c, 1, Len(c) - n)
<1>1. r \in Nat /\ w \in Nat /\ Len(c) = w - r /\ w <= Len(data) /\ c \in Seq(Byte) /\ data \in Seq(Byte)
  BY DEF Bytes
<1>2. Len(c) - n \in Int /\ \A i \in 1..Len(c) - n : c[i] \in Byte
  BY <1>1, ElementOfSeq
<1>3. /\ t \in Seq(Byte)
      /\ Len(t) = IF 1 <= Len(c) - n THEN Len(c) - n - 1 + 1 ELSE 0
      /\ \A i \in 1..(Len(c) - n) - 1 + 1 : t[i] = c[1 + i - 1]
  <2> DEFINE l == Len(c) - n
  <2>1. l \in Int /\ \A i \in 1..l : c[i] \in Byte
    BY <1>2
  <2> HIDE DEF l
  <2>2. /\ SubSeq(c, 1, l) \in Seq(Byte)
        /\ Len(SubSeq(c, 1, l)) = IF 1 <= l THEN l - 1 + 1 ELSE 0
        /\ \A i \in 1..l - 1 + 1 : SubSeq(c, 1, l)[i] = c[1 + i - 1]
    BY <2>1, SubSeqProperties
  <2> QED BY <2>2 DEF l
<1> HIDE DEF t
<1>4. Len(t) = (w - n) - r /\ w - n \in Nat /\ r <= w - n /\ w - n <= Len(data)
  BY <1>1, <1>3, LenProperties
<1>5. ASSUME NEW i \in 1..(w - n) - r
      PROVE  t[i] = data[r + i]
  <2>1. i \in 1..(Len(c) - n) - 1 + 1 /\ 1 + i - 1 = i /\ i \in 1..w - r
    BY <1>1
  <2>2. t[i] = c[i]
    BY <1>3, <2>1
  <2>3. c[i] = data[r + i]
    BY <2>1 DEF Bytes
  <2> QED BY <2>2, <2>3
<1>6. Bytes(data, r, w - n, t)
  BY <1>1, <1>3, <1>4, <1>5 DEF Bytes
<1> QED BY <1>6 DEF t

\* The bytes between two indices are those of the subsequence, and no others.
LEMMA BytesBetween ==
  ASSUME NEW data \in Seq(Byte), NEW r \in Nat, NEW w \in Nat, r <= w, w <= Len(data)
  PROVE  /\ Bytes(data, r, w, SubSeq(data, r + 1, w))
         /\ \A c : Bytes(data, r, w, c) => c = SubSeq(data, r + 1, w)
<1> DEFINE t == SubSeq(data, r + 1, w)
<1>1. Len(data) \in Nat
  BY LenProperties
<1>2. \A i \in r + 1..w : data[i] \in Byte
  BY <1>1, ElementOfSeq
<1>3. /\ t \in Seq(Byte)
      /\ Len(t) = IF r + 1 <= w THEN w - (r + 1) + 1 ELSE 0
      /\ \A i \in 1..w - (r + 1) + 1 : t[i] = data[(r + 1) + i - 1]
  <2> DEFINE m == r + 1
  <2>1. m \in Int /\ w \in Int /\ \A i \in m..w : data[i] \in Byte
    BY <1>2
  <2> HIDE DEF m
  <2>2. /\ SubSeq(data, m, w) \in Seq(Byte)
        /\ Len(SubSeq(data, m, w)) = IF m <= w THEN w - m + 1 ELSE 0
        /\ \A i \in 1..w - m + 1 : SubSeq(data, m, w)[i] = data[m + i - 1]
    BY <2>1, SubSeqProperties
  <2> QED BY <2>2 DEF m
<1> HIDE DEF t
<1>4. Len(t) = w - r
  BY <1>3
<1>5. ASSUME NEW i \in 1..w - r
      PROVE  t[i] = data[r + i]
  <2>1. i \in 1..w - (r + 1) + 1 /\ (r + 1) + i - 1 = r + i
    OBVIOUS
  <2> QED BY <1>3, <2>1
<1>6. Bytes(data, r, w, t)
  BY <1>3, <1>4, <1>5 DEF Bytes
<1>7. ASSUME NEW c, Bytes(data, r, w, c)
      PROVE  c = t
  <2>1. c \in Seq(Byte) /\ Len(c) = Len(t) /\ \A i \in 1..w - r : c[i] = t[i]
    BY <1>4, <1>5, <1>7 DEF Bytes
  <2> QED BY <1>3, <1>4, <2>1, SeqEqual
<1> QED BY <1>6, <1>7 DEF t

----
(* Buffers *)

\* A buffer that shows c is one, and c is what Contents() reads from it.
LEMMA ShownContents ==
  ASSUME NEW x, NEW c, Shows(x, c)
  PROVE  IsBuffer(x) /\ Contents(x) = c
<1>1. /\ x.data \in Seq(Byte) /\ x.r \in Nat /\ x.w \in Nat /\ x.r <= x.w /\ x.w <= Len(x.data)
      /\ Bytes(x.data, x.r, x.w, c)
  BY DEF Shows, Bytes
<1>2. x \in [data : Seq(Byte), r : Nat, w : Nat]
  BY <1>1 DEF Shows
<1>3. c = SubSeq(x.data, x.r + 1, x.w)
  BY <1>1, BytesBetween
<1> QED BY <1>1, <1>2, <1>3 DEF IsBuffer, Contents

\* The constructor: a buffer that holds nothing.
LEMMA NewBufferShows == Shows(NewBuffer, <<>>)
<1> DEFINE d == [i \in 1..CheapPrepend + InitialSize |-> 0]
<1>1. CheapPrepend + InitialSize \in Nat /\ CheapPrepend <= CheapPrepend + InitialSize
  OBVIOUS
<1>2. d \in Seq(Byte) /\ DOMAIN d = 1..CheapPrepend + InitialSize
  BY <1>1, SeqDef DEF Byte
<1>3. Len(d) = CheapPrepend + InitialSize
  BY <1>1, <1>2, LenProperties
<1> HIDE DEF d
<1>4. Bytes(d, CheapPrepend, CheapPrepend, <<>>)
  BY <1>1, <1>2, <1>3, BytesEmpty
<1>5. NewBuffer = [data |-> d, r |-> CheapPrepend, w |-> CheapPrepend]
  BY DEF NewBuffer, d
<1> QED BY <1>1, <1>3, <1>4, <1>5 DEF Shows

\* makeSpace() finds the room that it is asked for and keeps the bytes.
LEMMA EnsureShows ==
  ASSUME NEW x, NEW c, Shows(x, c), NEW len \in Nat
  PROVE  LET y == EnsureWritableBytes(x, len)
         IN /\ Shows(y, c)
            /\ writableBytes(y) >= len
            /\ y.r <= x.r
            /\ y.r # x.r => y.r = CheapPrepend
<1> DEFINE y == EnsureWritableBytes(x, len)
<1>1. /\ x.r \in Nat /\ x.w \in Nat /\ x.r <= x.w /\ x.w <= Len(x.data) /\ Len(x.data) \in Nat
      /\ CheapPrepend <= Len(x.data)
      /\ Bytes(x.data, x.r, x.w, c) /\ c = Contents(x) /\ Len(c) = x.w - x.r
  BY ShownContents, LenProperties DEF Shows, Bytes
<1>2. CASE writableBytes(x) >= len
  <2>1. y = x
    BY <1>1, <1>2 DEF EnsureWritableBytes, writableBytes
  <2> QED BY <1>1, <1>2, <2>1
<1>3. CASE writableBytes(x) < len /\ Grows(x, len)
  <2> DEFINE d == Resize(x.data, x.w + len)
  <2>1. y = [data |-> d, r |-> x.r, w |-> x.w]
    BY <1>3 DEF EnsureWritableBytes, MakeSpace, Shows
  <2>2. x.w + len \in Nat /\ x.w <= x.w + len /\ CheapPrepend <= x.w + len
    BY <1>1, <1>3 DEF writableBytes
  <2>3. Bytes(d, x.r, x.w, c) /\ Len(d) = x.w + len
    BY <1>1, <2>2, BytesResized
  <2> HIDE DEF d, y
  <2>4. writableBytes(y) >= len
    BY <1>1, <2>1, <2>3 DEF writableBytes
  <2>5. Shows(y, c)
    BY <2>1, <2>2, <2>3 DEF Shows
  <2> QED BY <1>1, <2>1, <2>4, <2>5 DEF y
<1>4. CASE writableBytes(x) < len /\ ~Grows(x, len)
  <2> DEFINE d == CopyTo(x.data, CheapPrepend, c)
             w == CheapPrepend + (x.w - x.r)
  <2>1. y = [data |-> d, r |-> CheapPrepend, w |-> w]
    BY <1>1, <1>4 DEF EnsureWritableBytes, MakeSpace, readableBytes
  <2>2. CheapPrepend <= x.r
    BY <1>1, <1>4 DEF writableBytes, prependableBytes, Grows
  <2>3. Bytes(d, CheapPrepend, w, c) /\ Len(d) = Len(x.data)
    BY <1>1, <2>2, BytesMoved
  <2> HIDE DEF d, y
  <2>4. writableBytes(y) >= len
    BY <1>1, <1>4, <2>1, <2>3 DEF writableBytes, prependableBytes, Grows
  <2>5. Shows(y, c)
    BY <1>1, <2>1, <2>3 DEF Shows
  <2> QED BY <2>1, <2>2, <2>4, <2>5 DEF y
<1> QED BY <1>1, <1>2, <1>3, <1>4 DEF writableBytes

\* Writing into the room that there is.
LEMMA HasWrittenShows ==
  ASSUME NEW x, NEW c, Shows(x, c), NEW s \in Seq(Byte), Len(s) <= writableBytes(x)
  PROVE  Shows(HasWritten(x, s), c \o s)
<1> DEFINE d == CopyTo(x.data, x.w, s)
<1>1. Bytes(x.data, x.r, x.w, c) /\ CheapPrepend <= Len(x.data)
  BY DEF Shows
<1>2. x.w + Len(s) <= Len(x.data)
  BY <1>1, LenProperties DEF writableBytes, Bytes
<1>3. Bytes(d, x.r, x.w + Len(s), c \o s) /\ Len(d) = Len(x.data)
  BY <1>1, <1>2, BytesWritten
<1>4. HasWritten(x, s) = [data |-> d, r |-> x.r, w |-> x.w + Len(s)]
  BY DEF HasWritten
<1> HIDE DEF d
<1> QED BY <1>1, <1>3, <1>4 DEF Shows

\* append(): room first, and then the bytes.
LEMMA AppendedShows ==
  ASSUME NEW x, NEW c, Shows(x, c), NEW s \in Seq(Byte)
  PROVE  Shows(Appended(x, s), c \o s)
<1> DEFINE y == EnsureWritableBytes(x, Len(s))
<1>1. Len(s) \in Nat
  BY LenProperties
<1>2. Shows(y, c) /\ writableBytes(y) >= Len(s)
  BY <1>1, EnsureShows
<1>3. Len(s) <= writableBytes(y)
  <2>1. y.w \in Nat /\ Len(y.data) \in Nat
    BY <1>2, LenProperties DEF Shows, Bytes
  <2> QED BY <1>1, <1>2, <2>1 DEF writableBytes
<1>4. Appended(x, s) = HasWritten(y, s)
  BY DEF Appended
<1> HIDE DEF y
<1> QED BY <1>2, <1>3, <1>4, HasWrittenShows

\* retrieve(), which resets the indices when it takes all.
LEMMA RetrievedShows ==
  ASSUME NEW x, NEW c, Shows(x, c), NEW n \in Nat, n <= readableBytes(x)
  PROVE  Shows(Retrieved(x, n), SubSeq(c, n + 1, Len(c)))
<1>1. /\ x.r \in Nat /\ x.w \in Nat /\ x.data \in Seq(Byte) /\ Len(c) = x.w - x.r
      /\ CheapPrepend <= Len(x.data) /\ Bytes(x.data, x.r, x.w, c) /\ n <= x.w - x.r
  BY DEF Shows, Bytes, readableBytes
<1>2. CASE n < x.w - x.r
  <2>1. Retrieved(x, n) = [data |-> x.data, r |-> x.r + n, w |-> x.w]
    BY <1>2 DEF Retrieved, readableBytes, Shows
  <2>2. Bytes(x.data, x.r + n, x.w, SubSeq(c, n + 1, Len(c)))
    BY <1>1, BytesTakenFront
  <2> QED BY <1>1, <2>1, <2>2 DEF Shows
<1>3. CASE ~(n < x.w - x.r)
  <2>1. Retrieved(x, n) = [data |-> x.data, r |-> CheapPrepend, w |-> CheapPrepend]
    BY <1>3 DEF Retrieved, readableBytes
  <2>2. n + 1 \in Int /\ Len(c) \in Int /\ Len(c) < n + 1
    BY <1>1, <1>3
  <2>3. SubSeq(c, n + 1, Len(c)) = <<>>
    BY <2>2, SubSeqEmpty
  <2>4. Bytes(x.data, CheapPrepend, CheapPrepend, SubSeq(c, n + 1, Len(c)))
    BY <1>1, <2>3, BytesEmpty
  <2> QED BY <1>1, <2>1, <2>4 DEF Shows
<1> QED BY <1>2, <1>3

\* unwrite() takes bytes back from the end.
LEMMA UnwrittenShows ==
  ASSUME NEW x, NEW c, Shows(x, c), NEW n \in Nat, n <= readableBytes(x)
  PROVE  Shows([x EXCEPT !.w = @ - n], SubSeq(c, 1, Len(c) - n))
<1>1. CheapPrepend <= Len(x.data) /\ Bytes(x.data, x.r, x.w, c) /\ n <= x.w - x.r
  BY DEF Shows, readableBytes
<1>2. Bytes(x.data, x.r, x.w - n, SubSeq(c, 1, Len(c) - n))
  BY <1>1, BytesTakenBack
<1>3. [x EXCEPT !.w = @ - n] = [data |-> x.data, r |-> x.r, w |-> x.w - n]
  BY DEF Shows
<1> QED BY <1>1, <1>2, <1>3 DEF Shows

\* prepend() puts bytes in front, into the room of the header.
LEMMA PrependedShows ==
  ASSUME NEW x, NEW c, Shows(x, c), NEW s \in Seq(Byte), Len(s) <= prependableBytes(x)
  PROVE  Shows(Prepended(x, s), s \o c)
<1> DEFINE k == x.r - Len(s)
           d == CopyTo(x.data, k, s)
<1>1. /\ x.r \in Nat /\ x.data \in Seq(Byte) /\ CheapPrepend <= Len(x.data)
      /\ Bytes(x.data, x.r, x.w, c) /\ Len(s) <= x.r
  BY DEF Shows, Bytes, prependableBytes
<1>2. Bytes(d, k, x.w, s \o c)
  BY <1>1, BytesPrepended
<1>3. k \in Nat
  BY <1>1, LenProperties
<1>4. Len(d) = Len(x.data)
  BY <1>1, <1>3, CopyToProperties
<1>5. Prepended(x, s) = [data |-> d, r |-> k, w |-> x.w]
  BY DEF Prepended
<1> HIDE DEF d, k
<1> QED BY <1>1, <1>2, <1>4, <1>5 DEF Shows

\* readFd(): what the vector has no room for goes through extrabuf, and behind the rest.
LEMMA ReadFromShows ==
  ASSUME NEW x, NEW c, Shows(x, c), NEW s \in Seq(Byte)
  PROVE  Shows(ReadFrom(x, s), c \o s)
<1> DEFINE k == writableBytes(x)
           first == SubSeq(s, 1, k)
           rest == SubSeq(s, k + 1, Len(s))
<1>1. k \in Nat /\ Len(s) \in Nat /\ c \in Seq(Byte)
  BY LenProperties DEF Shows, Bytes, writableBytes
<1>2. CASE Len(s) <= k
  <2>1. ReadFrom(x, s) = HasWritten(x, s)
    BY <1>2 DEF ReadFrom
  <2> QED BY <1>2, <2>1, HasWrittenShows
<1>3. CASE ~(Len(s) <= k)
  <2>1. ReadFrom(x, s) = Appended(HasWritten(x, first), rest)
    BY <1>3 DEF ReadFrom
  <2> HIDE DEF k
  <2>2. k \in 0..Len(s)
    BY <1>1, <1>3
  <2>3. first \in Seq(Byte) /\ Len(first) <= k /\ rest \in Seq(Byte)
    <3>1. (\A i \in 1..k : s[i] \in Byte) /\ (\A i \in k + 1..Len(s) : s[i] \in Byte)
      BY <1>1, <2>2, ElementOfSeq
    <3>2. first \in Seq(Byte) /\ Len(first) = IF 1 <= k THEN k - 1 + 1 ELSE 0
      BY <1>1, <3>1, SubSeqProperties
    <3>3. rest \in Seq(Byte)
      <4>1. k + 1 \in Int /\ Len(s) \in Int
        BY <1>1
      <4> QED BY <3>1, <4>1, SubSeqProperties
    <3> HIDE DEF first
    <3> QED BY <1>1, <3>2, <3>3
  <2>4. first \o rest = s
    <3>1. 1 \in 1..Len(s) + 1 /\ k \in 1 - 1..Len(s) /\ Len(s) \in k..Len(s)
      BY <1>1, <2>2
    <3>2. first \o rest = SubSeq(s, 1, Len(s))
      BY <3>1, ConcatAdjacentSubSeq
    <3> QED BY <3>2, SubSeqFull
  <2> HIDE DEF first, rest
  <2>5. Shows(HasWritten(x, first), c \o first)
    BY <2>3, HasWrittenShows DEF k
  <2>6. Shows(Appended(HasWritten(x, first), rest), (c \o first) \o rest)
    BY <2>3, <2>5, AppendedShows
  <2>7. (c \o first) \o rest = c \o (first \o rest)
    BY <1>1, <2>3, ConcatAssociative
  <2> QED BY <2>1, <2>4, <2>6, <2>7
<1> QED BY <1>2, <1>3

\* shrink() copies the bytes into a new buffer.
LEMMA ShrunkShows ==
  ASSUME NEW x, NEW c, Shows(x, c), NEW reserve \in Nat
  PROVE  Shows(Shrunk(x, reserve), c)
<1> DEFINE y == EnsureWritableBytes(NewBuffer, readableBytes(x) + reserve)
<1>0. x.r \in Nat /\ x.w \in Nat /\ x.r <= x.w /\ c \in Seq(Byte)
  BY DEF Shows, Bytes
<1>1. readableBytes(x) + reserve \in Nat /\ c \in Seq(Byte) /\ Contents(x) = c
  BY <1>0, ShownContents DEF readableBytes
<1>2. Shows(y, <<>>)
  BY <1>1, NewBufferShows, EnsureShows
<1>3. Shrunk(x, reserve) = Appended(y, c)
  BY <1>1 DEF Shrunk
<1> HIDE DEF y
<1>4. Shows(Appended(y, c), <<>> \o c)
  BY <1>1, <1>2, AppendedShows
<1>5. <<>> \o c = c
  BY <1>1, ConcatEmptySeq
<1> QED BY <1>3, <1>4, <1>5

----
(* Integers *)

\* A number has one last digit and one rest.
LEMMA DigitsUnique ==
  ASSUME NEW B \in Nat, B >= 2, NEW a \in 0..B - 1, NEW b \in Int, NEW c \in 0..B - 1, NEW d \in Int,
         a + b * B = c + d * B
  PROVE  a = c /\ b = d
<1>0. ASSUME NEW k \in Int, k >= 1 PROVE k * B >= B
  BY <1>0
<1>1. ~(b - d >= 1)
  <2> SUFFICES ASSUME b - d >= 1 PROVE FALSE OBVIOUS
  <2>1. (b - d) * B >= B BY <1>0
  <2> QED BY <2>1
<1>2. ~(d - b >= 1)
  <2> SUFFICES ASSUME d - b >= 1 PROVE FALSE OBVIOUS
  <2>1. (d - b) * B >= B BY <1>0
  <2> QED BY <2>1
<1> QED BY <1>1, <1>2

\* Quotient and remainder.
LEMMA Division ==
  ASSUME NEW B \in Nat, B >= 1, NEW u \in Int
  PROVE  u = B * (u \div B) + (u % B) /\ u % B \in 0..B - 1 /\ u \div B \in Int
OBVIOUS

\* The last digit and the rest, read off by division.
LEMMA DivisionOfDigits ==
  ASSUME NEW B \in Nat, B >= 2, NEW a \in 0..B - 1, NEW b \in Int
  PROVE  (a + b * B) \div B = b /\ (a + b * B) % B = a
OBVIOUS

\* The two digits of the unsigned value of an integer.
LEMMA DigitsOfUnsigned ==
  ASSUME NEW B \in Nat, B >= 2, NEW v \in Int
  PROVE  /\ (v % (B * B)) \div B \in 0..B - 1
         /\ v % B \in 0..B - 1
         /\ (v % (B * B)) % B = v % B
<1> DEFINE u == v % (B * B)
           q == v \div (B * B)
           b == u % B
           a == u \div B
           p == q * B + a
           c == v % B
           d == v \div B
<1>1. B * B \in Nat /\ B * B >= 1
  OBVIOUS
<1>2. v = (B * B) * q + u /\ u \in 0..B * B - 1 /\ q \in Int
  BY <1>1, Division
<1> HIDE DEF u, q
<1>3. u = B * a + b /\ a \in Int /\ b \in 0..B - 1
  BY <1>2, Division
<1>4. v = B * d + c /\ c \in 0..B - 1 /\ d \in Int
  BY Division
<1>5. a \in 0..B - 1
  <2>1. ~(a >= B)
    <3> SUFFICES ASSUME a >= B PROVE FALSE OBVIOUS
    <3>1. a - B \in Nat BY <1>3
    <3>2. B * (a - B) >= 0 BY <3>1
    <3> QED BY <1>2, <1>3, <3>2
  <2>2. ~(a <= -1)
    <3> SUFFICES ASSUME a <= -1 PROVE FALSE OBVIOUS
    <3>1. -a \in Nat /\ -a >= 1 BY <1>3
    <3>2. B * (-a) >= B BY <3>1
    <3> QED BY <1>2, <1>3, <3>2
  <2> QED BY <1>3, <2>1, <2>2
<1> HIDE DEF a, b, c, d
<1>6. p \in Int /\ b + p * B = c + d * B
  BY <1>2, <1>3, <1>4
<1> HIDE DEF p
<1>7. b = c
  BY <1>3, <1>4, <1>6, DigitsUnique
<1> QED BY <1>3, <1>4, <1>5, <1>7 DEF u, a, b, c

\* appendInt16() and prependInt16() copy the bytes that the peer is to find.
LEMMA IntBytesInOrder ==
  ASSUME NEW v \in Int
  PROVE  IntBytes(v) = NetworkOrder(v) /\ IntBytes(v) \in Seq(Byte) /\ Len(IntBytes(v)) = 2
<1> DEFINE u == v % (Base * Base)
           a == u \div Base
           b == v % Base
<1>1. a \in 0..Base - 1 /\ b \in 0..Base - 1 /\ u % Base = b
  BY DigitsOfUnsigned
<1>2. HostToNetwork(Unsigned(v)) = b * Base + a /\ NetworkOrder(v) = <<a, b>>
  BY <1>1 DEF HostToNetwork, Unsigned, NetworkOrder
<1> HIDE DEF u, a, b
<1>3. b * Base + a = a + b * Base
  BY <1>1
<1>4. (a + b * Base) % Base = a /\ (a + b * Base) \div Base = b
  BY <1>1, DivisionOfDigits
<1>5. IntBytes(v) = <<a, b>>
  BY <1>2, <1>3, <1>4 DEF IntBytes, Memory
<1>6. <<a, b>> \in Seq(Byte) /\ Len(<<a, b>>) = 2
  BY <1>1 DEF Byte
<1> QED BY <1>2, <1>5, <1>6

\* peekInt16() reads them as the number they are in network order.
LEMMA PeekShows ==
  ASSUME NEW x, NEW c, Shows(x, c), Len(c) >= 2
  PROVE  PeekInt(x) = Signed(c[1] * Base + c[2])
<1>1. c \in Seq(Byte) /\ Len(c) \in Nat /\ Len(c) = x.w - x.r /\ 1 \in 1..Len(c) /\ 2 \in 1..Len(c)
  BY LenProperties DEF Shows, Bytes
<1>2. c[1] = x.data[x.r + 1] /\ c[2] = x.data[x.r + 2]
  BY <1>1 DEF Shows, Bytes
<1>3. c[1] \in 0..Base - 1 /\ c[2] \in 0..Base - 1
  BY <1>1, ElementOfSeq DEF Byte
<1> DEFINE a == c[1]
           b == c[2]
<1>4. Loaded(x) = a + b * Base /\ a \in 0..Base - 1 /\ b \in 0..Base - 1
  BY <1>2, <1>3 DEF Loaded
<1> HIDE DEF a, b
<1>5. (a + b * Base) % Base = a /\ (a + b * Base) \div Base = b
  BY <1>4, DivisionOfDigits
<1>6. PeekInt(x) = Signed(a * Base + b)
  BY <1>4, <1>5 DEF PeekInt, HostToNetwork
<1> QED BY <1>6 DEF a, b

----
(* Lines *)

\* findCRLF() finds the end of the first line.
LEMMA LineFound ==
  ASSUME Shows(buf, content), NEW i \in 1..Len(content) - 1,
         Queue!EndsLine(i), \A j \in 1..i - 1 : ~Queue!EndsLine(j)
  PROVE  FindCRLF(buf) = buf.r + i - 1
<1> DEFINE r == buf.r
           w == buf.w
           data == buf.data
           found == {k \in r..w - 2 : data[k + 1] = CR /\ data[k + 2] = LF}
           at == r + i - 1
<1>1. r \in Nat /\ w \in Nat /\ Len(content) = w - r /\ \A k \in 1..w - r : content[k] = data[r + k]
  BY DEF Shows, Bytes
<1>2. FindCRLF(buf) = IF found = {} THEN -1 ELSE CHOOSE k \in found : \A j \in found : k <= j
  BY DEF FindCRLF
<1> HIDE DEF r, w, data
<1>3. ASSUME NEW k \in 1..Len(content) - 1
      PROVE  content[k] = data[r + k] /\ content[k + 1] = data[r + k + 1]
  <2>1. k \in 1..w - r /\ k + 1 \in 1..w - r /\ r + (k + 1) = r + k + 1
    BY <1>1
  <2> QED BY <1>1, <2>1
<1>4. at \in found
  <2>1. at \in r..w - 2 /\ at + 1 = r + i /\ at + 2 = r + i + 1
    BY <1>1
  <2>2. data[at + 1] = CR /\ data[at + 2] = LF
    BY <1>3, <2>1 DEF Queue!EndsLine
  <2> QED BY <2>1, <2>2
<1>5. ASSUME NEW k \in found
      PROVE  at <= k
  <2> DEFINE j == k - r + 1
  <2>1. k \in Int /\ k \in r..w - 2 /\ data[k + 1] = CR /\ data[k + 2] = LF
    BY <1>1
  <2>2. j \in 1..Len(content) - 1 /\ r + j = k + 1 /\ r + j + 1 = k + 2
    BY <1>1, <2>1
  <2>3. k = r + j - 1
    BY <1>1, <2>1
  <2> HIDE DEF j
  <2>4. Queue!EndsLine(j)
    BY <1>3, <2>1, <2>2 DEF Queue!EndsLine
  <2>5. j \notin 1..i - 1
    BY <2>4
  <2> QED BY <1>1, <2>2, <2>3, <2>5
<1>6. at \in Int /\ \A k \in found : k \in Int
  BY <1>1
<1> HIDE DEF found, at
<1>7. \A k \in found : (\A j \in found : k <= j) => k = at
  BY <1>4, <1>5, <1>6
<1>8. FindCRLF(buf) = at
  BY <1>2, <1>4, <1>5, <1>7
<1> QED BY <1>8 DEF at, r

----
(* The invariant: the buffer shows what the byte queue holds. *)

\* A new buffer shows the empty byte queue.
LEMMA InitShows == Init => Shows(buf, content)
BY NewBufferShows DEF Init

\* Every operation does to the buffer what it does to the byte queue.
LEMMA NextShows ==
  ASSUME Shows(buf, content), [Next]_vars
  PROVE  Shows(buf, content)'
<1>1. content \in Seq(Byte) /\ Len(content) \in Nat /\ Len(content) = readableBytes(buf)
  BY LenProperties DEF Shows, Bytes, readableBytes
<1>2. ASSUME NEW s \in Inputs, AppendBytes(s) \/ ReadFd(s) \/ PrependBytes(s) \/ Swap(s)
      PROVE  Shows(buf', content')
  <2>1. s \in Seq(Byte)
    BY InputsAssumption
  <2>2. CASE AppendBytes(s)
    BY <2>1, <2>2, AppendedShows DEF AppendBytes, Becomes, Queue!PutBack
  <2>3. CASE ReadFd(s)
    BY <2>1, <2>3, ReadFromShows DEF ReadFd, Becomes, Queue!PutBack
  <2>4. CASE PrependBytes(s)
    BY <2>1, <2>4, PrependedShows DEF PrependBytes, Becomes, Queue!PutFront
  <2>5. CASE Swap(s)
    <3>1. Shows(Appended(NewBuffer, s), <<>> \o s)
      BY <2>1, NewBufferShows, AppendedShows
    <3>2. <<>> \o s = s
      BY <2>1, ConcatEmptySeq
    <3> QED BY <2>5, <3>1, <3>2 DEF Swap, Becomes, Queue!ReplacedBy
  <2> QED BY <1>2, <2>2, <2>3, <2>4, <2>5
<1>3. ASSUME NEW v \in Ints, AppendInt(v) \/ PrependInt(v)
      PROVE  Shows(buf', content')
  <2>1. IntBytes(v) = NetworkOrder(v) /\ IntBytes(v) \in Seq(Byte) /\ Len(IntBytes(v)) = 2
    BY InputsAssumption, IntBytesInOrder
  <2>2. CASE AppendInt(v)
    BY <2>1, <2>2, AppendedShows DEF AppendInt, Becomes, Queue!PutBack
  <2>3. CASE PrependInt(v)
    BY <2>1, <2>3, PrependedShows DEF PrependInt, Becomes, Queue!PutFront
  <2> QED BY <1>3, <2>2, <2>3
<1>4. ASSUME NEW n \in 0..MaxSize, Retrieve(n) \/ Unwrite(n) \/ Shrink(n)
      PROVE  Shows(buf', content')
  <2>1. n \in Nat
    OBVIOUS
  <2>2. CASE Retrieve(n)
    BY <2>1, <2>2, RetrievedShows DEF Retrieve, Becomes, Queue!RemoveFront
  <2>3. CASE Unwrite(n)
    BY <2>1, <2>3, UnwrittenShows DEF Unwrite, Becomes, Queue!RemoveBack
  <2>4. CASE Shrink(n)
    BY <2>1, <2>4, ShrunkShows DEF Shrink, Becomes
  <2> QED BY <1>4, <2>2, <2>3, <2>4
<1>5. ASSUME ReadInt
      PROVE  Shows(buf', content')
  <2>1. 2 <= readableBytes(buf) /\ buf' = Retrieved(buf, 2) /\ content' = SubSeq(content, 2 + 1, Len(content))
    BY <1>5 DEF ReadInt, Becomes, Queue!RemoveFront
  <2> QED BY <2>1, RetrievedShows
<1>6. ASSUME RetrieveLine
      PROVE  Shows(buf', content')
  <2>1. PICK i \in 1..Len(content) - 1 :
          /\ Queue!EndsLine(i) /\ \A j \in 1..i - 1 : ~Queue!EndsLine(j)
          /\ content' = SubSeq(content, (i + 1) + 1, Len(content))
    BY <1>6 DEF RetrieveLine, Queue!RemoveLine, Queue!RemoveFront
  <2>2. FindCRLF(buf) = buf.r + i - 1
    BY <2>1, LineFound
  <2>3. buf' = Retrieved(buf, FindCRLF(buf) + 2 - buf.r)
    BY <1>6 DEF RetrieveLine, Becomes
  <2>4. FindCRLF(buf) + 2 - buf.r = i + 1 /\ i + 1 \in Nat /\ i + 1 <= readableBytes(buf)
    <3>1. buf.r \in Nat
      BY DEF Shows, Bytes
    <3> QED BY <1>1, <2>2, <3>1
  <2> QED BY <2>1, <2>3, <2>4, RetrievedShows
<1>7. CASE UNCHANGED vars
  BY <1>7 DEF vars
<1>8. Shows(buf', content')
  BY <1>2, <1>3, <1>4, <1>5, <1>6, <1>7 DEF Next
<1> QED BY <1>8

\* In every reachable state the buffer shows what the byte queue holds.
LEMMA BufferShows == Spec => []Shows(buf, content)
<1>1. Shows(buf, content) /\ [Next]_vars => Shows(buf, content)'
  BY NextShows
<1> QED BY InitShows, <1>1, PTL DEF Spec

----
(* Theorems *)

\* The indices of a buffer stay in order and within its vector, whatever was prepended, taken back, read
\* over the end or shrunk before (TypeOK).
THEOREM BufferType == Spec => []TypeOK
<1>1. Shows(buf, content) => TypeOK
  BY ShownContents DEF TypeOK, Shows, Bytes
<1> QED BY BufferShows, <1>1, PTL

\* ensureWritableBytes() finds the room and keeps the bytes and the header (SpaceFound).
THEOREM RoomFound == Spec => []SpaceFound
<1>1. Shows(buf, content) => SpaceFound
  <2> SUFFICES ASSUME Shows(buf, content), NEW len \in 0..MaxSize
               PROVE  LET y == EnsureWritableBytes(buf, len)
                      IN /\ writableBytes(y) >= len
                         /\ Contents(y) = Contents(buf)
                         /\ y.r <= buf.r
                         /\ y.r # buf.r => y.r = CheapPrepend
    BY DEF SpaceFound
  <2> DEFINE y == EnsureWritableBytes(buf, len)
  <2>1. Shows(y, content) /\ writableBytes(y) >= len /\ y.r <= buf.r /\ (y.r # buf.r => y.r = CheapPrepend)
    BY EnsureShows
  <2>2. Contents(y) = content /\ Contents(buf) = content
    BY <2>1, ShownContents
  <2> HIDE DEF y
  <2>3. Contents(y) = Contents(buf)
    BY <2>2
  <2> QED BY <2>1, <2>3 DEF y
<1> QED BY BufferShows, <1>1, PTL

\* The buffer holds the bytes that the byte queue holds, and reads integers from them in network order
\* (ContentsKept).
THEOREM BytesKept == Spec => []ContentsKept
<1>1. Shows(buf, content) => ContentsKept
  BY ShownContents, PeekShows DEF ContentsKept
<1> QED BY BufferShows, <1>1, PTL
====
