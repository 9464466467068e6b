---- MODULE TCPConnectionProofs ----
(***************************************************************************)
(* TCPConnection for messages, a high water mark and bounds of any size.   *)
(* DataInv is about the stream and holds for any mix of calls; LifeInv is  *)
(* about the callbacks and the way down, and holds for Disciplined users.  *)
(***************************************************************************)
EXTENDS TCPConnection, SequenceTheorems, TLAPS

----
(* What a push does to the functors in a queue *)

\* The range of a queue after a push.
LEMMA RangeAppend ==
  ASSUME NEW S, NEW s \in Seq(S), NEW x \in S
  PROVE  Range(Append(s, x)) = Range(s) \cup {x}
<1>1. /\ DOMAIN s = 1..Len(s)
      /\ DOMAIN Append(s, x) = 1..(Len(s) + 1)
      /\ Append(s, x)[Len(s) + 1] = x
      /\ \A i \in 1..Len(s) : Append(s, x)[i] = s[i]
OBVIOUS
<1>2. Len(s) \in Nat
OBVIOUS
<1>3. \A i \in 1..(Len(s) + 1) : i \in 1..Len(s) \/ i = Len(s) + 1
  BY <1>2
<1>4. 1..Len(s) \subseteq 1..(Len(s) + 1) /\ Len(s) + 1 \in 1..(Len(s) + 1)
  BY <1>2
<1> QED BY <1>1, <1>3, <1>4, Zenon DEF Range

\* The range of an empty queue.
LEMMA RangeEmpty == Range(<<>>) = {}
<1>1. <<>> \in Seq({}) OBVIOUS
<1>2. Range(<<>>) \in SUBSET {} BY <1>1, RangeOfSeq, Zenon
<1> QED BY <1>2, Zenon

----
(***************************************************************************)
(* The units of the stream: w is what the kernel has, b what is buffered,  *)
(* a how many were taken.                                                  *)
(***************************************************************************)
\* The units base + 1, base + 2, ... in order.
Ramp(s, base) == \A i \in 1..Len(s) : s[i] = base + i

Units(w, b, a) ==
  /\ a \in Nat /\ w \in Seq(1..a) /\ b \in Seq(1..a)
  /\ Ramp(w, 0) /\ Ramp(b, Len(w))
  /\ Len(w) + Len(b) <= a

\* A sequence of naturals that is a ramp within 1..a is a sequence over 1..a.
LEMMA RampTyped ==
  ASSUME NEW a \in Nat, NEW base \in Nat, NEW s \in Seq(Nat), Ramp(s, base), base + Len(s) <= a
  PROVE  s \in Seq(1..a)
<1>1. Len(s) \in Nat /\ s \in [1..Len(s) -> Nat] BY LenProperties
<1>2. \A i \in 1..Len(s) : s[i] \in 1..a BY <1>1 DEF Ramp
<1>3. s \in [1..Len(s) -> 1..a] BY <1>1, <1>2
<1>4. Seq(1..a) = UNION {[1..n -> 1..a] : n \in Nat} BY SeqDef, Zenon
<1> QED BY <1>1, <1>3, <1>4, Zenon

\* The units put behind one another are the stream 1, 2, 3, ...
LEMMA UnitsStream ==
  ASSUME NEW w, NEW b, NEW a, Units(w, b, a)
  PROVE  /\ Len(w \o b) = Len(w) + Len(b)
         /\ w \o b = [i \in 1..Len(w \o b) |-> i]
<1>1. /\ w \in Seq(Nat) /\ b \in Seq(Nat)
      /\ Len(w) \in Nat /\ Len(b) \in Nat
  <2>1. a \in Nat /\ w \in Seq(1..a) /\ b \in Seq(1..a) /\ 1..a \subseteq Nat BY DEF Units
  <2> QED BY <2>1, SeqMonotonic, LenProperties
<1>2. /\ w \o b \in Seq(Nat)
      /\ Len(w \o b) = Len(w) + Len(b)
      /\ \A i \in 1 .. Len(w) + Len(b) : (w \o b)[i] = IF i <= Len(w) THEN w[i] ELSE b[i - Len(w)]
  BY <1>1, ConcatProperties
<1>3. \A i \in 1 .. Len(w \o b) : (w \o b)[i] = i
  <2> TAKE i \in 1 .. Len(w \o b)
  <2>1. CASE i <= Len(w) BY <1>1, <1>2, <2>1 DEF Units, Ramp
  <2>2. CASE i > Len(w)
    <3>1. i - Len(w) \in 1..Len(b) BY <1>1, <1>2, <2>2
    <3>2. b[i - Len(w)] = Len(w) + (i - Len(w)) BY <3>1 DEF Units, Ramp
    <3> QED BY <1>1, <1>2, <2>2, <3>2
  <2> QED BY <1>1, <1>2, <2>1, <2>2
<1>4. DOMAIN (w \o b) = 1..Len(w \o b) /\ w \o b \in [1..Len(w \o b) -> Nat] BY <1>2, LenProperties
<1>5. w \o b = [i \in 1..Len(w \o b) |-> i] BY <1>3, <1>4
<1> QED BY <1>2, <1>5

\* Moving the first n buffered units to the kernel.
LEMMA UnitsMoved ==
  ASSUME NEW w, NEW b, NEW a, Units(w, b, a), NEW n \in 1..Len(b)
  PROVE  /\ Units(w \o SubSeq(b, 1, n), SubSeq(b, n + 1, Len(b)), a)
         /\ Len(w \o SubSeq(b, 1, n)) + Len(SubSeq(b, n + 1, Len(b))) = Len(w) + Len(b)
<1> DEFINE front == SubSeq(b, 1, n)
           back == SubSeq(b, n + 1, Len(b))
<1>1. /\ a \in Nat /\ w \in Seq(Nat) /\ b \in Seq(Nat)
      /\ Len(w) \in Nat /\ Len(b) \in Nat /\ n \in Nat
      /\ \A i \in 1..Len(b) : b[i] \in Nat
  <2>1. a \in Nat /\ w \in Seq(1..a) /\ b \in Seq(1..a) /\ 1..a \subseteq Nat BY DEF Units
  <2>2. w \in Seq(Nat) /\ b \in Seq(Nat) BY <2>1, SeqMonotonic
  <2> QED BY <2>1, <2>2, LenProperties, ElementOfSeq
<1>2. /\ front \in Seq(Nat) /\ Len(front) = n
      /\ \A i \in 1..n : front[i] = b[i]
  BY <1>1, SubSeqProperties
<1>3. /\ back \in Seq(Nat) /\ Len(back) = Len(b) - n
      /\ \A i \in 1..(Len(b) - n) : back[i] = b[n + i]
  <2>1. n + 1 \in Int /\ Len(b) \in Int /\ \A i \in (n + 1)..Len(b) : b[i] \in Nat BY <1>1
  <2>2. /\ back \in Seq(Nat)
        /\ Len(back) = IF n + 1 <= Len(b) THEN Len(b) - (n + 1) + 1 ELSE 0
        /\ \A i \in 1..(Len(b) - (n + 1) + 1) : back[i] = b[(n + 1) + i - 1]
    BY <2>1, SubSeqProperties
  <2> QED BY <1>1, <2>2
<1> HIDE DEF front, back
<1>4. /\ w \o front \in Seq(Nat)
      /\ Len(w \o front) = Len(w) + n
      /\ \A i \in 1..(Len(w) + n) : (w \o front)[i] = IF i <= Len(w) THEN w[i] ELSE front[i - Len(w)]
  BY <1>1, <1>2, ConcatProperties
<1>5. Ramp(w, 0) /\ Ramp(b, Len(w)) /\ Len(w) + Len(b) <= a BY DEF Units
<1>6. Ramp(w \o front, 0)
  <2> SUFFICES ASSUME NEW i \in 1..(Len(w) + n) PROVE (w \o front)[i] = 0 + i
    BY <1>4 DEF Ramp
  <2>1. CASE i <= Len(w) BY <1>1, <1>4, <1>5, <2>1 DEF Ramp
  <2>2. CASE i > Len(w)
    <3>1. i - Len(w) \in 1..n /\ i - Len(w) \in 1..Len(b) BY <1>1, <2>2
    <3>2. b[i - Len(w)] = Len(w) + (i - Len(w)) BY <3>1, <1>5 DEF Ramp
    <3> QED BY <1>1, <1>2, <1>4, <2>2, <3>1, <3>2
  <2>3. i <= Len(w) \/ i > Len(w) BY <1>1
  <2> QED BY <2>1, <2>2, <2>3, Zenon
<1>7. Ramp(back, Len(w \o front))
  <2> SUFFICES ASSUME NEW i \in 1..(Len(b) - n) PROVE back[i] = Len(w) + n + i
    BY <1>3, <1>4 DEF Ramp
  <2>1. n + i \in 1..Len(b) BY <1>1
  <2>2. b[n + i] = Len(w) + (n + i) BY <2>1, <1>5 DEF Ramp
  <2> QED BY <1>1, <1>3, <2>2
<1>8. w \o front \in Seq(1..a) /\ back \in Seq(1..a)
  <2>1. 0 + Len(w \o front) <= a /\ Len(w \o front) + Len(back) <= a /\ Len(w \o front) \in Nat
    BY <1>1, <1>3, <1>4, <1>5
  <2> QED BY <1>1, <1>3, <1>4, <1>6, <1>7, <2>1, RampTyped
<1>9. Units(w \o front, back, a)
  BY <1>1, <1>3, <1>4, <1>5, <1>6, <1>7, <1>8 DEF Units
<1>10. Len(w \o front) + Len(back) = Len(w) + Len(b)
  BY <1>1, <1>3, <1>4
<1> QED BY <1>9, <1>10 DEF front, back

\* The units of the message that is taken when a units were taken before it.
Message(a) == [i \in 1..MsgUnits |-> a + i]

\* Its first n units, and those after them.
LEMMA MessageParts ==
  ASSUME NEW a \in Nat, NEW n \in 0..MsgUnits
  PROVE  /\ SubSeq(Message(a), 1, n) \in Seq(Nat) /\ Len(SubSeq(Message(a), 1, n)) = n
         /\ \A i \in 1..n : SubSeq(Message(a), 1, n)[i] = a + i
         /\ SubSeq(Message(a), n + 1, MsgUnits) \in Seq(Nat)
         /\ Len(SubSeq(Message(a), n + 1, MsgUnits)) = MsgUnits - n
         /\ \A i \in 1..(MsgUnits - n) : SubSeq(Message(a), n + 1, MsgUnits)[i] = a + n + i
<1> DEFINE m == Message(a)
<1>1. MsgUnits \in Nat /\ n \in Int /\ MsgUnits \in Int /\ n + 1 \in Int /\ n <= MsgUnits /\ n >= 0
  BY UnitsAssumption
<1>2. \A i \in 1..MsgUnits : m[i] = a + i /\ m[i] \in Nat
  BY <1>1 DEF Message
<1> HIDE DEF m
<1>3. \A i \in 1..n : m[i] \in Nat BY <1>1, <1>2
<1>4. \A i \in (n + 1)..MsgUnits : m[i] \in Nat BY <1>1, <1>2
<1>5. /\ SubSeq(m, 1, n) \in Seq(Nat)
      /\ Len(SubSeq(m, 1, n)) = IF 1 <= n THEN n - 1 + 1 ELSE 0
      /\ \A i \in 1..(n - 1 + 1) : SubSeq(m, 1, n)[i] = m[1 + i - 1]
  BY <1>1, <1>3, SubSeqProperties
<1>6. /\ SubSeq(m, n + 1, MsgUnits) \in Seq(Nat)
      /\ Len(SubSeq(m, n + 1, MsgUnits)) = IF n + 1 <= MsgUnits THEN MsgUnits - (n + 1) + 1 ELSE 0
      /\ \A i \in 1..(MsgUnits - (n + 1) + 1) : SubSeq(m, n + 1, MsgUnits)[i] = m[(n + 1) + i - 1]
  BY <1>1, <1>4, SubSeqProperties
<1>7. \A i \in 1..n : SubSeq(m, 1, n)[i] = a + i
  <2> TAKE i \in 1..n
  <2>1. i \in 1..MsgUnits /\ i \in 1..(n - 1 + 1) /\ 1 + i - 1 = i BY <1>1
  <2> QED BY <1>2, <1>5, <2>1
<1>8. \A i \in 1..(MsgUnits - n) : SubSeq(m, n + 1, MsgUnits)[i] = a + n + i
  <2> TAKE i \in 1..(MsgUnits - n)
  <2>1. n + i \in 1..MsgUnits /\ i \in 1..(MsgUnits - (n + 1) + 1) /\ (n + 1) + i - 1 = n + i BY <1>1
  <2>2. SubSeq(m, n + 1, MsgUnits)[i] = m[n + i] BY <1>6, <2>1
  <2>3. m[n + i] = a + (n + i) BY <1>2, <2>1
  <2>4. a + (n + i) = a + n + i BY <1>1
  <2> QED BY <2>2, <2>3, <2>4
<1>9. Len(SubSeq(m, 1, n)) = n /\ Len(SubSeq(m, n + 1, MsgUnits)) = MsgUnits - n
  BY <1>1, <1>5, <1>6
<1> QED BY <1>5, <1>6, <1>7, <1>8, <1>9 DEF m

\* A ramp, and a ramp that goes on where it ends, are one.
LEMMA RampConcat ==
  ASSUME NEW base \in Nat, NEW s \in Seq(Nat), NEW t \in Seq(Nat), Ramp(s, base), Ramp(t, base + Len(s))
  PROVE  s \o t \in Seq(Nat) /\ Len(s \o t) = Len(s) + Len(t) /\ Ramp(s \o t, base)
<1>1. Len(s) \in Nat /\ Len(t) \in Nat BY LenProperties
<1>2. /\ s \o t \in Seq(Nat) /\ Len(s \o t) = Len(s) + Len(t)
      /\ \A i \in 1 .. Len(s) + Len(t) : (s \o t)[i] = IF i <= Len(s) THEN s[i] ELSE t[i - Len(s)]
  BY ConcatProperties
<1>3. Ramp(s \o t, base)
  <2> SUFFICES ASSUME NEW i \in 1..(Len(s) + Len(t)) PROVE (s \o t)[i] = base + i
    BY <1>2 DEF Ramp
  <2>1. CASE i <= Len(s) BY <1>1, <1>2, <2>1 DEF Ramp
  <2>2. CASE i > Len(s)
    <3>1. i - Len(s) \in 1..Len(t) BY <1>1, <2>2
    <3>2. t[i - Len(s)] = base + Len(s) + (i - Len(s)) BY <3>1 DEF Ramp
    <3>3. (s \o t)[i] = t[i - Len(s)] BY <1>1, <1>2, <2>2
    <3>4. base + Len(s) + (i - Len(s)) = base + i BY <1>1
    <3> QED BY <3>2, <3>3, <3>4
  <2>3. i <= Len(s) \/ i > Len(s) BY <1>1
  <2> QED BY <2>1, <2>2, <2>3, Zenon
<1> QED BY <1>2, <1>3

\* The units when n of the next message went to the kernel and the others to the buffer.
TakenWith(w, b, a, n) ==
  LET w2 == w \o SubSeq(Message(a), 1, n)
      b2 == b \o SubSeq(Message(a), n + 1, MsgUnits)
  IN Units(w2, b2, a + MsgUnits) /\ Len(w2) + Len(b2) = a + MsgUnits

\* Taking a message when nothing was lost: n units go to the kernel, which is only if none are buffered.
LEMMA UnitsTaken ==
  ASSUME NEW w, NEW b, NEW a, Units(w, b, a), Len(w) + Len(b) = a,
         NEW n \in 0..MsgUnits, n = 0 \/ Len(b) = 0
  PROVE  TakenWith(w, b, a, n)
<1> DEFINE front == SubSeq(Message(a), 1, n)
           back == SubSeq(Message(a), n + 1, MsgUnits)
<1>1. /\ a \in Nat /\ w \in Seq(Nat) /\ b \in Seq(Nat)
      /\ Ramp(w, 0) /\ Ramp(b, Len(w))
  <2>1. a \in Nat /\ w \in Seq(1..a) /\ b \in Seq(1..a) /\ 1..a \subseteq Nat BY DEF Units
  <2>2. w \in Seq(Nat) /\ b \in Seq(Nat) BY <2>1, SeqMonotonic
  <2> QED BY <2>1, <2>2 DEF Units
<1>2. Len(w) \in Nat /\ Len(b) \in Nat /\ MsgUnits \in Nat /\ n \in Nat /\ n <= MsgUnits
  BY <1>1, LenProperties, UnitsAssumption
<1>3. /\ front \in Seq(Nat) /\ Len(front) = n /\ \A i \in 1..n : front[i] = a + i
      /\ back \in Seq(Nat) /\ Len(back) = MsgUnits - n
      /\ \A i \in 1..(MsgUnits - n) : back[i] = a + n + i
  BY <1>1, MessageParts
<1> HIDE DEF front, back
<1>4. Ramp(front, 0 + Len(w))
  <2> SUFFICES ASSUME NEW i \in 1..n PROVE front[i] = 0 + Len(w) + i
    BY <1>3 DEF Ramp
  <2>1. i \in Nat /\ n # 0 BY <1>2
  <2>2. a = 0 + Len(w) BY <1>2, <2>1
  <2> QED BY <1>3, <2>2
<1>5. /\ w \o front \in Seq(Nat) /\ Len(w \o front) = Len(w) + n /\ Ramp(w \o front, 0)
  <2>1. 0 \in Nat OBVIOUS
  <2>2. Len(w \o front) = Len(w) + Len(front) /\ w \o front \in Seq(Nat) /\ Ramp(w \o front, 0)
    BY <1>1, <1>3, <1>4, <2>1, RampConcat, Zenon
  <2> QED BY <1>3, <2>2, Zenon
<1>6. Ramp(b, Len(w) + n)
  <2>1. CASE n = 0
    <3>1. Len(w) + n = Len(w) BY <1>2, <2>1
    <3> QED BY <1>1, <3>1, Zenon
  <2>2. CASE Len(b) = 0 BY <2>2 DEF Ramp
  <2> QED BY <2>1, <2>2
<1>7. Ramp(back, Len(w) + n + Len(b))
  <2>1. Len(w) + n + Len(b) = a + n BY <1>1, <1>2
  <2>2. Ramp(back, a + n) BY <1>3, Zenon DEF Ramp
  <2> QED BY <2>1, <2>2, Zenon
<1>8. /\ b \o back \in Seq(Nat) /\ Len(b \o back) = Len(b) + (MsgUnits - n) /\ Ramp(b \o back, Len(w) + n)
  <2>1. Len(w) + n \in Nat BY <1>2
  <2>2. Len(b \o back) = Len(b) + Len(back) /\ b \o back \in Seq(Nat) /\ Ramp(b \o back, Len(w) + n)
    BY <1>1, <1>3, <1>6, <1>7, <2>1, RampConcat, Zenon
  <2> QED BY <1>3, <2>2, Zenon
<1>9. /\ a + MsgUnits \in Nat /\ Len(w) + n \in Nat
      /\ (Len(w) + n) + (Len(b) + (MsgUnits - n)) = a + MsgUnits
      /\ 0 + (Len(w) + n) <= a + MsgUnits
      /\ (Len(w) + n) + (Len(b) + (MsgUnits - n)) <= a + MsgUnits
  BY <1>1, <1>2
<1>10. w \o front \in Seq(1..(a + MsgUnits))
  BY <1>5, <1>9, RampTyped
<1>11. b \o back \in Seq(1..(a + MsgUnits))
  BY <1>8, <1>9, RampTyped
<1>12. Len(w \o front) + Len(b \o back) = a + MsgUnits /\ Len(w \o front) + Len(b \o back) <= a + MsgUnits
  BY <1>5, <1>8, <1>9
<1>13. Units(w \o front, b \o back, a + MsgUnits)
  BY <1>5, <1>8, <1>9, <1>10, <1>11, <1>12 DEF Units
<1> QED BY <1>12, <1>13 DEF front, back, TakenWith

\* Taking a message and losing it: the units that were taken stay where they are.
LEMMA UnitsLost ==
  ASSUME NEW w, NEW b, NEW a, Units(w, b, a)
  PROVE  /\ Units(w, b, a + MsgUnits) /\ Len(w) + Len(b) <= a + MsgUnits
         /\ w \o SubSeq(Message(a), 1, 0) = w /\ b \o <<>> = b
<1>1. a \in Nat /\ MsgUnits \in Nat /\ w \in Seq(1..a) /\ b \in Seq(1..a) /\ Len(w) + Len(b) <= a
  BY UnitsAssumption DEF Units
<1>2. 1..a \subseteq 1..(a + MsgUnits) /\ a + MsgUnits \in Nat BY <1>1
<1>3. w \in Seq(1..(a + MsgUnits)) /\ b \in Seq(1..(a + MsgUnits)) BY <1>1, <1>2, SeqMonotonic
<1>4. Len(w) \in Nat /\ Len(b) \in Nat BY <1>1, LenProperties
<1>5. SubSeq(Message(a), 1, 0) = <<>> BY SubSeqEmpty
<1>6. w \o <<>> = w /\ b \o <<>> = b BY <1>1, ConcatEmptySeq
<1>7. Len(w) + Len(b) <= a + MsgUnits BY <1>1, <1>4
<1>8. Units(w, b, a + MsgUnits) BY <1>2, <1>3, <1>7 DEF Units
<1> QED BY <1>5, <1>6, <1>7, <1>8

----
(* What the operators of Channel return *)

\* A channel that watches the events ev, one that lost its last event, and one that was removed.
Added(ev) == [events |-> ev, index |-> "kAdded", addedToLoop |-> TRUE, kernel |-> ev]
Disabled == [events |-> {}, index |-> "kDeleted", addedToLoop |-> TRUE, kernel |-> Off]
Removed(ev) == [events |-> ev, index |-> "kNew", addedToLoop |-> FALSE, kernel |-> Off]

\* update() leaves a channel in one of the first two.
LEMMA UpdateResult ==
  ASSUME NEW r \in ChannelType
  PROVE  Update(r) = IF r.index = "kAdded" /\ r.events = {} THEN Disabled ELSE Added(r.events)
<1>1. r = [events |-> r.events, index |-> r.index, addedToLoop |-> r.addedToLoop, kernel |-> r.kernel]
  BY DEF ChannelType
<1>2. CASE r.index = "kAdded" /\ r.events = {}
  <2>1. Update(r) = [events |-> r.events, index |-> "kDeleted", addedToLoop |-> TRUE, kernel |-> Off]
    BY <1>1, <1>2 DEF Update
  <2> QED BY <1>2, <2>1 DEF Disabled
<1>3. CASE ~(r.index = "kAdded" /\ r.events = {})
  <2>1. Update(r) = [events |-> r.events, index |-> "kAdded", addedToLoop |-> TRUE, kernel |-> r.events]
    BY <1>1, <1>3 DEF Update
  <2> QED BY <1>3, <2>1 DEF Added
<1> QED BY <1>2, <1>3

\* What enableReading and the rest leave the channel as.
LEMMA ChannelOps ==
  ASSUME NEW c \in ChannelType, NEW e \in Events
  PROVE  /\ Enable(c, e) = Added(c.events \cup {e})
         /\ Disable(c, e) = IF c.index = "kAdded" /\ c.events \ {e} = {} THEN Disabled ELSE Added(c.events \ {e})
         /\ DisableAll(c) = IF c.index = "kAdded" THEN Disabled ELSE Added({})
         /\ Remove(c) = Removed(c.events)
<1>1. /\ [c EXCEPT !.events = @ \cup {e}] \in ChannelType
      /\ [c EXCEPT !.events = @ \cup {e}].events = c.events \cup {e}
      /\ c.events \cup {e} # {}
  BY DEF ChannelType
<1>2. /\ [c EXCEPT !.events = @ \ {e}] \in ChannelType
      /\ [c EXCEPT !.events = @ \ {e}].events = c.events \ {e}
      /\ [c EXCEPT !.events = @ \ {e}].index = c.index
  BY DEF ChannelType
<1>3. /\ [c EXCEPT !.events = {}] \in ChannelType
      /\ [c EXCEPT !.events = {}].events = {}
      /\ [c EXCEPT !.events = {}].index = c.index
  BY DEF ChannelType
<1>4. Enable(c, e) = Added(c.events \cup {e})
  BY <1>1, UpdateResult DEF Enable
<1>5. Disable(c, e) = IF c.index = "kAdded" /\ c.events \ {e} = {} THEN Disabled ELSE Added(c.events \ {e})
  BY <1>2, UpdateResult DEF Disable
<1>6. DisableAll(c) = IF c.index = "kAdded" THEN Disabled ELSE Added({})
  BY <1>3, UpdateResult DEF DisableAll
<1>7. Remove(c) = Removed(c.events)
  <2>1. /\ Remove(c) \in ChannelType
        /\ Remove(c).events = c.events /\ Remove(c).index = "kNew"
        /\ Remove(c).addedToLoop = FALSE /\ Remove(c).kernel = Off
    BY DEF Remove, NewChannel, ChannelType
  <2> DEFINE r == Remove(c)
  <2> HIDE DEF r
  <2>2. r \in ChannelType BY <2>1 DEF r
  <2>3. r = [events |-> r.events, index |-> r.index, addedToLoop |-> r.addedToLoop, kernel |-> r.kernel]
    BY <2>2 DEF ChannelType
  <2> QED BY <2>1, <2>3, Zenon DEF r, Removed
<1> QED BY <1>4, <1>5, <1>6, <1>7

\* Those are channels.
LEMMA ChannelTypes ==
  /\ Disabled \in ChannelType /\ NewChannel \in ChannelType /\ NewChannel = Removed({})
  /\ \A ev \in SUBSET Events : Added(ev) \in ChannelType /\ Removed(ev) \in ChannelType
<1>1. Disabled \in ChannelType /\ NewChannel \in ChannelType /\ NewChannel = Removed({})
  BY DEF Disabled, NewChannel, Removed, ChannelType
<1>2. \A ev \in SUBSET Events : Added(ev) \in ChannelType /\ Removed(ev) \in ChannelType
  BY DEF Added, Removed, ChannelType
<1> QED BY <1>1, <1>2

\* So the operators return channels, and this is what they do to writability.
LEMMA ChannelWritable ==
  ASSUME NEW c \in ChannelType, NEW e \in Events
  PROVE  /\ Enable(c, e) \in ChannelType /\ Disable(c, e) \in ChannelType
         /\ DisableAll(c) \in ChannelType /\ Remove(c) \in ChannelType
         /\ Enable(c, e).events = c.events \cup {e}
         /\ Disable(c, e).events = c.events \ {e}
         /\ DisableAll(c).events = {}
         /\ Remove(c).events = c.events
<1>1. c.events \in SUBSET Events BY DEF ChannelType
<1>2. /\ c.events \cup {e} \in SUBSET Events /\ c.events \ {e} \in SUBSET Events /\ {} \in SUBSET Events
  BY <1>1
<1>3. Disabled.events = {} /\ \A ev : Added(ev).events = ev /\ Removed(ev).events = ev
  BY DEF Disabled, Added, Removed
<1> QED BY <1>1, <1>2, <1>3, ChannelOps, ChannelTypes

\* The four callbacks.
LEMMA CallbackNames ==
  /\ Range(Callbacks) = {"close", "error", "read", "write"}
  /\ \A r : CallbacksOf(r) \subseteq Range(Callbacks)
<1>1. DOMAIN Callbacks = 1..4 /\ Callbacks[1] = "close" /\ Callbacks[2] = "error"
      /\ Callbacks[3] = "read" /\ Callbacks[4] = "write"
  BY DEF Callbacks
<1>2. 1..4 = {1, 2, 3, 4} OBVIOUS
<1>3. Range(Callbacks) = {"close", "error", "read", "write"} BY <1>1, <1>2 DEF Range
<1> QED BY <1>3 DEF CallbacksOf

----
(* The invariant *)

\* What the kernel has and what is buffered are the units taken, until a message is lost to a write
\* that faults; after that nothing is ever buffered again.
Lost ==
  /\ outBuf = <<>> /\ "OUT" \notin ch.events
  /\ sock.fin \/ sock.rst

Stream ==
  /\ Units(wire, outBuf, accepted)
  /\ Len(wire) + Len(outBuf) = accepted \/ Lost

DataInv == TypeOK /\ Stream /\ WritingIffBuffered

SockType == [in : 0..MaxIn, peerFin : BOOLEAN, rst : BOOLEAN, err : BOOLEAN, fin : BOOLEAN]

\* The part of TypeOK about neither the data, nor the channel, nor the socket.
ControlType ==
  /\ state \in {"kConnecting", "kConnected", "kDisconnecting", "kDisconnected"}
  /\ reading \in BOOLEAN
  /\ pend \in Seq(Owning \cup Raw) /\ run \in Seq(Owning \cup Raw)
  /\ place \in {"poll", "others", "batch", "event", "functors"}
  /\ todo \subseteq Range(Callbacks) /\ (todo # {} => place \in {"batch", "event"})
  /\ cb \in {"none", "up", "message", "down", "destroy"}
  /\ cb # "none" => place \in {"others", "event", "functors"}
  /\ owner \in {"holds", "removing", "gone"}
  /\ userRef \in BOOLEAN /\ timer \in BOOLEAN
  /\ upc \in {"idle", "queueSend", "setShutdown", "queueShutdown", "setForceClose", "queueForceClose"}
  /\ calls \in 0..MaxCalls /\ contract \in Contracts
  /\ ups \in Nat /\ downs \in Nat

\* The type invariant in parts.
LEMMA TypeParts ==
  TypeOK <=> /\ ControlType /\ ch \in ChannelType /\ sock \in SockType
             /\ outBuf \in Seq(1..accepted) /\ wire \in Seq(1..accepted) /\ accepted \in Nat
BY Zenon DEF TypeOK, ControlType, SockType

\* What a step that leaves the data alone must keep.
LEMMA DataKept ==
  ASSUME DataInv, UNCHANGED data, ControlType', ch' \in ChannelType, sock' \in SockType,
         "OUT" \notin ch.events => "OUT" \notin ch'.events,
         sock.fin \/ sock.rst => sock'.fin \/ sock'.rst,
         downs' = 0 => downs = 0 /\ ("OUT" \in ch'.events <=> "OUT" \in ch.events)
  PROVE  DataInv'
<1>1. outBuf' = outBuf /\ wire' = wire /\ accepted' = accepted BY DEF data
<1>2. TypeOK' 
  <2>1. outBuf \in Seq(1..accepted) /\ wire \in Seq(1..accepted) /\ accepted \in Nat
    BY TypeParts, Zenon DEF DataInv
  <2>2. /\ outBuf' \in Seq(1..accepted') /\ wire' \in Seq(1..accepted') /\ accepted' \in Nat
    BY <1>1, <2>1, Zenon
  <2> QED BY <2>2, TypeParts, Zenon DEF TypeOK, ControlType, SockType
<1>3. Stream'
  <2>1. Units(wire, outBuf, accepted) /\ (Len(wire) + Len(outBuf) = accepted \/ Lost)
    BY Zenon DEF DataInv, Stream
  <2>2. Units(wire', outBuf', accepted') BY <1>1, <2>1, Zenon
  <2>3. Len(wire') + Len(outBuf') = accepted' \/ Lost' BY <1>1, <2>1, Zenon DEF Lost
  <2> QED BY <2>2, <2>3, Zenon DEF Stream, Units, Ramp
<1>4. WritingIffBuffered' BY <1>1, Zenon DEF DataInv, WritingIffBuffered
<1> QED BY <1>2, <1>3, <1>4 DEF DataInv

\* The initial state.
LEMMA DataInit == Init => DataInv
<1> SUFFICES ASSUME Init PROVE DataInv OBVIOUS
<1>1. ControlType
  <2>1. <<"established">> \in Seq(Owning \cup Raw) /\ <<>> \in Seq(Owning \cup Raw) BY DEF Owning
  <2>2. 0 \in 0..MaxCalls BY BoundsAssumption
  <2> QED BY <2>1, <2>2, CallbackNames DEF Init, ControlType
<1>2. ch \in ChannelType BY ChannelTypes DEF Init
<1>3. sock \in SockType BY BoundsAssumption DEF Init, SockType
<1>4. Units(wire, outBuf, accepted) /\ Len(wire) + Len(outBuf) = accepted
  BY DEF Init, Units, Ramp
<1>5. TypeOK BY <1>1, <1>2, <1>3, <1>4, TypeParts DEF Units
<1>6. WritingIffBuffered BY DEF Init, WritingIffBuffered, NewChannel
<1> QED BY <1>4, <1>5, <1>6 DEF DataInv, Stream

----
(* The operations that move data *)

\* sendInLoop: the message goes to the kernel and the buffer in order, or is lost as a whole, and the
\* channel asks for writability when something is left.
LEMMA SendInLoopStep ==
  ASSUME DataInv, SendInLoop
  PROVE  /\ Stream' /\ ch' \in ChannelType /\ sock' \in SockType
         /\ pend \in Seq(Owning \cup Raw) => pend' \in Seq(Owning \cup Raw)
         /\ outBuf' \in Seq(1..accepted') /\ wire' \in Seq(1..accepted') /\ accepted' \in Nat
         /\ ("OUT" \in ch.events <=> outBuf # <<>>) => ("OUT" \in ch'.events <=> outBuf' # <<>>)
         /\ ch' = ch \/ ch' = Enable(ch, "OUT")
         /\ sock'.fin = sock.fin /\ sock'.rst = sock.rst
<1> DEFINE direct == "OUT" \notin ch.events /\ outBuf = <<>>
           faultError == direct /\ (sock.fin \/ sock.rst)
<1>1. PICK n \in IF direct /\ ~faultError THEN 0..MsgUnits ELSE {0} :
        LET rest == IF faultError THEN <<>> ELSE SubSeq(Message(accepted), n + 1, MsgUnits)
            crossed == Len(outBuf) < HighWater /\ Len(outBuf \o rest) >= HighWater
        IN /\ accepted' = accepted + MsgUnits
           /\ wire' = wire \o SubSeq(Message(accepted), 1, n)
           /\ outBuf' = outBuf \o rest
           /\ ch' = IF rest = <<>> \/ "OUT" \in ch.events THEN ch ELSE Enable(ch, "OUT")
           /\ pend' = pend \o (IF n = MsgUnits THEN <<"writeComplete">> ELSE <<>>)
                           \o (IF crossed THEN <<"highWater">> ELSE <<>>)
           /\ sock' = IF faultError THEN [sock EXCEPT !.err = FALSE] ELSE sock
  BY Zenon DEF SendInLoop, Message
<1> DEFINE rest == IF faultError THEN <<>> ELSE SubSeq(Message(accepted), n + 1, MsgUnits)
           crossed == Len(outBuf) < HighWater /\ Len(outBuf \o rest) >= HighWater
<1>2. /\ accepted' = accepted + MsgUnits
      /\ wire' = wire \o SubSeq(Message(accepted), 1, n)
      /\ outBuf' = outBuf \o rest
      /\ ch' = IF rest = <<>> \/ "OUT" \in ch.events THEN ch ELSE Enable(ch, "OUT")
      /\ pend' = pend \o (IF n = MsgUnits THEN <<"writeComplete">> ELSE <<>>)
                      \o (IF crossed THEN <<"highWater">> ELSE <<>>)
      /\ sock' = IF faultError THEN [sock EXCEPT !.err = FALSE] ELSE sock
  BY <1>1, Zenon
<1> HIDE <1>1 DEF crossed
<1>3. /\ n \in 0..MsgUnits /\ (n # 0 => direct /\ ~faultError)
  <2>1. 0 \in 0..MsgUnits BY UnitsAssumption
  <2> QED BY <1>1, <2>1, Zenon
<1>4. /\ ch \in ChannelType /\ sock \in SockType
      /\ Units(wire, outBuf, accepted)
      /\ Len(wire) + Len(outBuf) = accepted \/ Lost
  BY TypeParts, Zenon DEF DataInv, Stream
<1>5. ch' \in ChannelType /\ (ch' = ch \/ ch' = Enable(ch, "OUT"))
  <2>1. Enable(ch, "OUT") \in ChannelType BY <1>4, ChannelWritable DEF Events
  <2> QED BY <1>2, <1>4, <2>1, Zenon
<1>6. sock' \in SockType /\ sock'.fin = sock.fin /\ sock'.rst = sock.rst
  BY <1>2, <1>4 DEF SockType
<1>7. pend \in Seq(Owning \cup Raw) => pend' \in Seq(Owning \cup Raw)
  <2> DEFINE S == Owning \cup Raw
             one == IF n = MsgUnits THEN <<"writeComplete">> ELSE <<>>
             two == IF crossed THEN <<"highWater">> ELSE <<>>
  <2> SUFFICES ASSUME pend \in Seq(S) PROVE (pend \o one) \o two \in Seq(S) BY <1>2
  <2>1. "writeComplete" \in S /\ "highWater" \in S BY DEF Owning
  <2> HIDE DEF S
  <2>2. <<"writeComplete">> \in Seq(S) /\ <<"highWater">> \in Seq(S) /\ <<>> \in Seq(S) BY <2>1
  <2>3. one \in Seq(S) /\ two \in Seq(S) BY <2>2, Zenon
  <2> HIDE DEF one, two
  <2>4. pend \o one \in Seq(S) BY <2>3, ConcatProperties
  <2> QED BY <2>3, <2>4, ConcatProperties
<1>8. CASE faultError
  <2>1. n = 0 /\ rest = <<>> BY <1>3, <1>8, Zenon
  <2>2. /\ Units(wire, outBuf, accepted + MsgUnits)
        /\ Len(wire) + Len(outBuf) <= accepted + MsgUnits
        /\ wire \o SubSeq(Message(accepted), 1, 0) = wire /\ outBuf \o <<>> = outBuf
    BY <1>4, UnitsLost
  <2>3. wire' = wire /\ outBuf' = outBuf /\ accepted' = accepted + MsgUnits /\ ch' = ch
    BY <1>2, <2>1, <2>2, Zenon
  <2>4. Lost' BY <1>6, <1>8, <2>3, Zenon DEF Lost
  <2>5. Units(wire', outBuf', accepted') BY <2>2, <2>3, Zenon
  <2>6. Stream' BY <2>4, <2>5, Zenon DEF Stream, Units, Ramp
  <2>7. outBuf' \in Seq(1..accepted') /\ wire' \in Seq(1..accepted') /\ accepted' \in Nat
    BY <2>5, Zenon DEF Units
  <2> QED BY <1>5, <1>6, <1>7, <2>3, <2>6, <2>7, Zenon
<1>9. CASE ~faultError
  <2>1. Len(wire) + Len(outBuf) = accepted
    BY <1>4, <1>9, Zenon DEF Lost
  <2>2. n = 0 \/ Len(outBuf) = 0
    <3>1. outBuf = <<>> => Len(outBuf) = 0 BY EmptySeq, Zenon
    <3> QED BY <1>3, <3>1, Zenon
  <2>3. rest = SubSeq(Message(accepted), n + 1, MsgUnits) BY <1>9, Zenon
  <2>4. /\ Units(wire', outBuf', accepted')
        /\ Len(wire') + Len(outBuf') = accepted'
    <3> DEFINE w2 == wire \o SubSeq(Message(accepted), 1, n)
               b2 == outBuf \o SubSeq(Message(accepted), n + 1, MsgUnits)
    <3>1. n \in 0..MsgUnits /\ Units(wire, outBuf, accepted) BY <1>3, <1>4
    <3>2. TakenWith(wire, outBuf, accepted, n)
      BY <2>1, <2>2, <3>1, UnitsTaken, Zenon
    <3>3. Units(w2, b2, accepted + MsgUnits) /\ Len(w2) + Len(b2) = accepted + MsgUnits
      BY <3>2, Zenon DEF TakenWith
    <3>4. wire' = w2 /\ outBuf' = b2 /\ accepted' = accepted + MsgUnits BY <1>2, <2>3, Zenon
    <3> QED BY <3>3, <3>4, Zenon
  <2>5. Stream' BY <2>4, Zenon DEF Stream, Units, Ramp
  <2>6. outBuf' \in Seq(1..accepted') /\ wire' \in Seq(1..accepted') /\ accepted' \in Nat
    BY <2>4, Zenon DEF Units
  <2>7. rest \in Seq(Nat) /\ outBuf \in Seq(Nat)
    <3>1. accepted \in Nat /\ outBuf \in Seq(1..accepted) /\ 1..accepted \subseteq Nat
      BY <1>4 DEF Units
    <3> QED BY <1>3, <2>3, <3>1, SeqMonotonic, MessageParts
  <2> HIDE DEF rest
  <2>8. outBuf' = <<>> <=> outBuf = <<>> /\ rest = <<>>
    <3>1. outBuf \o rest = <<>> <=> outBuf = <<>> /\ rest = <<>> BY <2>7, ConcatEqualIffEmpty
    <3> QED BY <1>2, <3>1, Zenon
  <2>9. rest = <<>> => outBuf' = outBuf
    BY <1>2, <2>7, ConcatEmptySeq, Zenon
  <2>10. Enable(ch, "OUT").events = ch.events \cup {"OUT"}
    BY <1>4, ChannelWritable DEF Events
  <2>11. ("OUT" \in ch.events <=> outBuf # <<>>) => ("OUT" \in ch'.events <=> outBuf' # <<>>)
    BY <1>2, <2>8, <2>9, <2>10, Zenon
  <2> QED BY <1>5, <1>6, <1>7, <2>5, <2>6, <2>11, Zenon
<1> QED BY <1>8, <1>9, Zenon

\* What FinAfterData says of one step.
FinStep ==
  ~sock.fin /\ sock'.fin /\ downs = 0 => outBuf' = <<>> /\ (sock.rst \/ Len(wire') = accepted)

\* A step that sends no FIN.
LEMMA NoFin == sock'.fin = sock.fin => FinStep
BY Zenon DEF FinStep

\* shutdownInLoop: the socket, and the FIN that finds everything written.
LEMMA ShutdownInLoopStep ==
  ASSUME DataInv, ShutdownInLoop, UNCHANGED data
  PROVE  /\ sock' \in SockType /\ FinStep
         /\ sock.fin \/ sock.rst => sock'.fin \/ sock'.rst
<1>1. /\ sock \in SockType /\ (Len(wire) + Len(outBuf) = accepted \/ Lost)
      /\ wire \in Seq(1..accepted) /\ accepted \in Nat
      /\ downs = 0 => ("OUT" \in ch.events <=> outBuf # <<>>)
  BY TypeParts, Zenon DEF DataInv, Stream, WritingIffBuffered
<1>2. sock' \in SockType /\ (sock.fin \/ sock.rst => sock'.fin \/ sock'.rst)
  BY <1>1 DEF ShutdownInLoop, SockType
<1>3. ASSUME ~sock.fin, sock'.fin, downs = 0
      PROVE  outBuf' = <<>> /\ (sock.rst \/ Len(wire') = accepted)
  <2>1. "OUT" \notin ch.events BY <1>1, <1>3, Zenon DEF ShutdownInLoop
  <2>2. outBuf = <<>> BY <1>1, <1>3, <2>1, Zenon
  <2>3. Len(outBuf) = 0 /\ Len(wire) \in Nat BY <1>1, <2>2, LenProperties
  <2>4. CASE Lost BY <1>3, <2>2, <2>4, Zenon DEF Lost, data
  <2>5. CASE Len(wire) + Len(outBuf) = accepted
    <3>1. Len(wire) = accepted BY <2>3, <2>5
    <3> QED BY <2>2, <3>1, Zenon DEF data
  <2> QED BY <1>1, <2>4, <2>5
<1> QED BY <1>2, <1>3, Zenon DEF FinStep

\* handleWrite() that wrote something.
LEMMA WriteSomeStep == DataInv /\ WriteSome => DataInv' /\ FinStep
<1> SUFFICES ASSUME DataInv, WriteSome PROVE DataInv' /\ FinStep OBVIOUS
<1>1. /\ ControlType /\ ch \in ChannelType /\ sock \in SockType
      /\ Units(wire, outBuf, accepted)
      /\ Len(wire) + Len(outBuf) = accepted \/ Lost
      /\ downs = 0 => ("OUT" \in ch.events <=> outBuf # <<>>)
  BY TypeParts, Zenon DEF DataInv, Stream, WritingIffBuffered
<1>2. "OUT" \in ch.events /\ ~sock.rst BY DEF WriteSome
<1>3. Len(wire) + Len(outBuf) = accepted BY <1>1, <1>2, Zenon DEF Lost
<1>4. PICK n \in 1..Len(outBuf) :
        /\ wire' = wire \o SubSeq(outBuf, 1, n)
        /\ outBuf' = SubSeq(outBuf, n + 1, Len(outBuf))
  BY Zenon DEF WriteSome
<1>5. /\ Units(wire', outBuf', accepted') /\ Len(wire') + Len(outBuf') = accepted'
  <2>1. /\ Units(wire \o SubSeq(outBuf, 1, n), SubSeq(outBuf, n + 1, Len(outBuf)), accepted)
        /\ Len(wire \o SubSeq(outBuf, 1, n)) + Len(SubSeq(outBuf, n + 1, Len(outBuf))) = accepted
    BY <1>1, <1>3, UnitsMoved
  <2>2. accepted' = accepted BY DEF WriteSome
  <2> QED BY <1>4, <2>1, <2>2, Zenon
<1>6. Stream' BY <1>5, Zenon DEF Stream, Units, Ramp
<1>7. /\ ch' = IF outBuf' = <<>> THEN Disable(ch, "OUT") ELSE ch
      /\ sock' = IF outBuf' = <<>> /\ state = "kDisconnecting" THEN [sock EXCEPT !.fin = TRUE] ELSE sock
      /\ pend' = IF outBuf' = <<>> THEN Append(pend, "writeComplete") ELSE pend
      /\ UNCHANGED <<state, reading, accepted, cb, owner, user, counts, aborted>>
      /\ UNCHANGED <<run, place>> /\ todo' \subseteq todo
  BY Zenon DEF WriteSome, Dispatch
<1>8. ch' \in ChannelType /\ ("OUT" \in ch'.events <=> outBuf' # <<>>)
  <2>1. Disable(ch, "OUT") \in ChannelType /\ Disable(ch, "OUT").events = ch.events \ {"OUT"}
    BY <1>1, ChannelWritable DEF Events
  <2> QED BY <1>1, <1>2, <1>7, <2>1, Zenon
<1>9. sock' \in SockType BY <1>1, <1>7 DEF SockType
<1>10. ControlType'
  <2>1. "writeComplete" \in Owning \cup Raw BY DEF Owning
  <2>2. pend' \in Seq(Owning \cup Raw) BY <1>1, <1>7, <2>1, AppendProperties, Zenon DEF ControlType
  <2>3. /\ todo \subseteq Range(Callbacks) /\ (todo # {} => place \in {"batch", "event"})
        /\ todo' \subseteq todo /\ place' = place
    BY <1>1, <1>7, Zenon DEF ControlType
  <2>4. todo' \subseteq Range(Callbacks) /\ (todo' # {} => place' \in {"batch", "event"}) BY <2>3
  <2> QED BY <1>1, <1>7, <2>2, <2>4 DEF ControlType, user, counts
<1>11. TypeOK' BY <1>5, <1>8, <1>9, <1>10, Zenon DEF TypeOK, ControlType, SockType, Units
<1>12. WritingIffBuffered' BY <1>8, Zenon DEF WritingIffBuffered
<1>13. FinStep
  <2> SUFFICES ASSUME ~sock.fin, sock'.fin PROVE outBuf' = <<>> /\ Len(wire') = accepted
    BY Zenon DEF FinStep
  <2>1. outBuf' = <<>> BY <1>7, Zenon
  <2>2. Len(outBuf') = 0 BY <2>1
  <2>3. accepted' = accepted /\ wire' \in Seq(1..accepted') BY <1>5, <1>7, Zenon DEF Units
  <2>4. Len(wire') \in Nat BY <2>3, LenProperties
  <2> QED BY <1>5, <2>1, <2>2, <2>3, <2>4
<1> QED BY <1>6, <1>11, <1>12, <1>13 DEF DataInv

----
(* The steps that leave the data alone *)

\* What they need to keep, in the terms of the action.
Quiet ==
  /\ ControlType' /\ ch' \in ChannelType /\ sock' \in SockType
  /\ UNCHANGED data
  /\ sock'.fin = sock.fin /\ (sock.rst => sock'.rst)
  /\ "OUT" \in ch'.events => "OUT" \in ch.events
  /\ downs' = 0 => downs = 0 /\ ("OUT" \in ch'.events <=> "OUT" \in ch.events)

\* A quiet step keeps the invariant and sends no FIN.
LEMMA QuietStep == DataInv /\ Quiet => DataInv' /\ FinStep
BY DataKept, NoFin, Zenon DEF Quiet

\* The type invariant as the steps use it.
LEMMA DataTypes ==
  ASSUME DataInv
  PROVE  ControlType /\ ch \in ChannelType /\ sock \in SockType
BY TypeParts, Zenon DEF DataInv

\* The loop outside this connection's handlers.
LEMMA LoopMoves ==
  ASSUME DataInv,
         \/ \E room \in BOOLEAN : Poll(room)
         \/ EnterEvent \/ LeaveEvent \/ StartFunctors \/ EndFunctors
  PROVE  Quiet
<1> USE DataTypes
<1>1. CASE \E room \in BOOLEAN : Poll(room)
  <2>1. PICK room \in BOOLEAN : Poll(room) BY <1>1
  <2>2. /\ place' \in {"others", "batch"} /\ todo' \subseteq Range(Callbacks)
        /\ Reported(ch, Ready(room)) # {} => place' = "batch"
    BY <2>1, CallbackNames DEF Poll
  <2>3. Reported(ch, Ready(room)) = {} => todo' = {} BY <2>1 DEF Poll, CallbacksOf
  <2> QED BY <2>1, <2>2, <2>3 DEF Poll, Quiet, ControlType, user, counts, data
<1>2. CASE EnterEvent
  BY <1>2 DEF EnterEvent, Quiet, ControlType, user, counts, data
<1>3. CASE LeaveEvent
  BY <1>3 DEF LeaveEvent, Quiet, ControlType, user, counts, data
<1>4. CASE StartFunctors
  <2>1. <<>> \in Seq(Owning \cup Raw) OBVIOUS
  <2> QED BY <1>4, <2>1 DEF StartFunctors, Quiet, ControlType, user, counts, data
<1>5. CASE EndFunctors
  BY <1>5 DEF EndFunctors, Quiet, ControlType, user, counts, data
<1> QED BY <1>1, <1>2, <1>3, <1>4, <1>5

\* Taking the pending error of a socket.
LEMMA SockError ==
  ASSUME NEW s \in SockType, NEW x \in BOOLEAN
  PROVE  /\ [s EXCEPT !.err = x] \in SockType
         /\ [s EXCEPT !.err = x].fin = s.fin /\ [s EXCEPT !.err = x].rst = s.rst
BY DEF SockType

\* The handlers of the channel's events.
LEMMA EventSteps ==
  ASSUME DataInv,
         CloseEvent \/ ErrorEvent \/ ReadMessage \/ ReadError \/ ReadEnd \/ WriteNothing
  PROVE  Quiet
<1> USE DataTypes
<1>1. /\ DisableAll(ch) \in ChannelType /\ DisableAll(ch).events = {}
      /\ 0 \in 0..MaxIn
  BY ChannelWritable, BoundsAssumption DEF Events
<1>2. ASSUME HandleClose
      PROVE  /\ state' = "kDisconnected" /\ cb' = "down" /\ ups' = ups /\ downs' = downs + 1
             /\ ch' = DisableAll(ch) /\ downs' # 0 /\ downs' \in Nat
  BY <1>2 DEF HandleClose, ControlType
<1>3. CASE CloseEvent
  BY <1>1, <1>2, <1>3 DEF CloseEvent, Dispatch, Quiet, ControlType, user, data
<1>4. CASE ErrorEvent
  <2>1. sock' \in SockType /\ sock'.fin = sock.fin /\ sock'.rst = sock.rst
    BY <1>4, SockError DEF ErrorEvent
  <2> QED BY <1>4, <2>1 DEF ErrorEvent, Dispatch, Quiet, ControlType, user, counts, data
<1>5. CASE ReadMessage
  BY <1>1, <1>5 DEF ReadMessage, Dispatch, Quiet, ControlType, SockType, user, counts, data
<1>6. CASE ReadError
  <2>1. sock' \in SockType /\ sock'.fin = sock.fin /\ sock'.rst = sock.rst
    BY <1>6, SockError DEF ReadError
  <2> QED BY <1>6, <2>1 DEF ReadError, Dispatch, Quiet, ControlType, user, counts, data
<1>7. CASE ReadEnd
  BY <1>1, <1>2, <1>7 DEF ReadEnd, Dispatch, Quiet, ControlType, user, data
<1>8. CASE WriteNothing
  <2>1. (sock.err /\ "OUT" \notin ch.events) \in BOOLEAN OBVIOUS
  <2>2. sock' = [sock EXCEPT !.err = (sock.err /\ "OUT" \notin ch.events)] BY <1>8, Zenon DEF WriteNothing
  <2>3. sock' \in SockType /\ sock'.fin = sock.fin /\ sock'.rst = sock.rst
    BY <2>1, <2>2, SockError, Zenon
  <2> QED BY <1>8, <2>3 DEF WriteNothing, Dispatch, Quiet, ControlType, user, counts, data
<1> QED BY <1>3, <1>4, <1>5, <1>6, <1>7, <1>8

\* The vector of functors after one was taken from it.
LEMMA RunTail ==
  ASSUME ControlType, NEW f, TakeFunctor(f)
  PROVE  /\ run' \in Seq(Owning \cup Raw) /\ place' = place /\ todo' = todo
         /\ place = "functors" /\ cb = "none"
BY DEF TakeFunctor, ControlType

\* connectDestroyed.
LEMMA ConnectDestroyedStep ==
  ASSUME DataInv, ConnectDestroyed
  PROVE  /\ ch' \in ChannelType
         /\ state' \in {"kConnecting", "kConnected", "kDisconnecting", "kDisconnected"}
         /\ cb' \in {cb, "destroy"} /\ downs' \in Nat
         /\ "OUT" \in ch'.events => "OUT" \in ch.events
         /\ downs' = 0 => downs = 0 /\ ("OUT" \in ch'.events <=> "OUT" \in ch.events)
<1>1. /\ ControlType
      /\ DisableAll(ch) \in ChannelType /\ DisableAll(ch).events = {}
      /\ Remove(ch) \in ChannelType /\ Remove(ch).events = ch.events
  BY DataTypes, ChannelWritable DEF Events
<1>2. CASE state = "kConnected"
  BY <1>1, <1>2 DEF ConnectDestroyed, ControlType
<1>3. CASE state # "kConnected"
  BY <1>1, <1>3 DEF ConnectDestroyed, ControlType
<1> QED BY <1>2, <1>3

\* The functors that leave the data alone.
LEMMA FunctorSteps ==
  ASSUME DataInv,
         RunEstablished \/ RunForceClose \/ RunDestroyed \/ RunNotice
  PROVE  Quiet
<1> USE DataTypes
<1>1. CASE RunEstablished
  <2>1. Enable(ch, "IN") \in ChannelType /\ Enable(ch, "IN").events = ch.events \cup {"IN"}
    BY ChannelWritable DEF Events
  <2>2. TakeFunctor("established") BY <1>1 DEF RunEstablished
  <2> QED BY <1>1, <2>1, <2>2, RunTail DEF RunEstablished, Quiet, ControlType, user, data
<1>2. CASE RunForceClose
  <2>1. /\ DisableAll(ch) \in ChannelType /\ DisableAll(ch).events = {}
    BY ChannelWritable DEF Events
  <2>2. TakeFunctor("forceClose") BY <1>2 DEF RunForceClose
  <2>3. CASE state \in Open
    BY <1>2, <2>1, <2>2, <2>3, RunTail DEF RunForceClose, HandleClose, Quiet, ControlType, user, data
  <2>4. CASE state \notin Open
    BY <1>2, <2>2, <2>4, RunTail DEF RunForceClose, Quiet, ControlType, user, counts, data
  <2> QED BY <2>3, <2>4
<1>3. CASE RunDestroyed
  <2>1. TakeFunctor("destroyed") /\ ConnectDestroyed BY <1>3 DEF RunDestroyed
  <2> QED BY <1>3, <2>1, RunTail, ConnectDestroyedStep DEF RunDestroyed, Quiet, ControlType, user, data
<1>4. CASE RunNotice
  <2>1. \E f : TakeFunctor(f) BY <1>4 DEF RunNotice
  <2>2. /\ run' \in Seq(Owning \cup Raw) /\ place' = place /\ todo' = todo
        /\ place = "functors" /\ cb = "none"
    BY <2>1, RunTail
  <2> QED BY <1>4, <2>2 DEF RunNotice, Quiet, ControlType, user, counts, data
<1> QED BY <1>1, <1>2, <1>3, <1>4

\* Returns from user callbacks.
LEMMA ReturnSteps ==
  ASSUME DataInv, CallbackReturn \/ AfterDown \/ AfterDestroy
  PROVE  Quiet
<1> USE DataTypes
<1>1. CASE CallbackReturn
  BY <1>1 DEF CallbackReturn, Quiet, ControlType, user, counts, data
<1>2. CASE AfterDown
  BY <1>2 DEF AfterDown, Quiet, ControlType, user, counts, data
<1>3. CASE AfterDestroy
  <2>1. Remove(ch) \in ChannelType /\ Remove(ch).events = ch.events
    BY ChannelWritable DEF Events
  <2> QED BY <1>3, <2>1 DEF AfterDestroy, Quiet, ControlType, user, counts, data
<1> QED BY <1>1, <1>2, <1>3

\* The functors that send and shut down.
LEMMA SendSteps ==
  ASSUME DataInv, RunSend \/ RunShutdown
  PROVE  DataInv' /\ FinStep
<1> USE DataTypes
<1>1. CASE RunSend
  <2>1. TakeFunctor("send") BY <1>1 DEF RunSend
  <2>2. CASE state = "kDisconnected"
    <3>1. Quiet
      BY <1>1, <2>1, <2>2, RunTail DEF RunSend, Quiet, ControlType, user, counts, data
    <3> QED BY <3>1, QuietStep
  <2>3. CASE state # "kDisconnected"
    <3>1. SendInLoop BY <1>1, <2>3 DEF RunSend
    <3>2. /\ UNCHANGED <<state, reading, cb, owner, counts, aborted>> /\ UNCHANGED user
      BY <1>1 DEF RunSend
    <3>3. pend' \in Seq(Owning \cup Raw) BY <3>1, SendInLoopStep DEF ControlType
    <3>4. ControlType'
      BY <2>1, <3>2, <3>3, RunTail DEF ControlType, user, counts
    <3>5. TypeOK' BY <3>1, <3>4, SendInLoopStep, Zenon DEF TypeOK, ControlType, SockType
    <3>6. downs' = downs BY <3>2 DEF counts
    <3>7. WritingIffBuffered'
      BY <3>1, <3>6, SendInLoopStep, Zenon DEF WritingIffBuffered, DataInv
    <3> QED BY <3>1, <3>5, <3>7, SendInLoopStep, NoFin DEF DataInv
  <2> QED BY <2>2, <2>3
<1>2. CASE RunShutdown
  <2>1. TakeFunctor("shutdown") /\ ShutdownInLoop /\ UNCHANGED data BY <1>2 DEF RunShutdown
  <2>2. /\ UNCHANGED <<state, reading, ch, pend, cb, owner, counts, aborted>> /\ UNCHANGED user
    BY <1>2 DEF RunShutdown
  <2>3. ControlType' BY <2>1, <2>2, RunTail DEF ControlType, user, counts
  <2> QED BY <2>1, <2>2, <2>3, ShutdownInLoopStep, DataKept DEF counts
<1> QED BY <1>1, <1>2

\* A call within the bound.
LEMMA CallCounts ==
  ASSUME ControlType, NEW op, calls < MaxCalls, calls' = calls + 1
  PROVE  calls' \in 0..MaxCalls
BY BoundsAssumption DEF ControlType

\* The user's send() and shutdown() in the I/O thread.
LEMMA CallSteps ==
  ASSUME DataInv, Send \/ Shutdown
  PROVE  DataInv' /\ FinStep
<1> USE DataTypes
<1>1. CASE Send
  <2>1. SendInLoop BY <1>1 DEF Send
  <2>2. calls' \in 0..MaxCalls BY <1>1, CallCounts DEF Send, LoopCall, Call
  <2>3. /\ UNCHANGED <<state, reading, timer, owner, userRef, contract, upc, ups, downs>>
        /\ UNCHANGED <<run, place, todo, cb>>
    BY <1>1 DEF Send, LoopCall, Call, loopVars, counts
  <2>4. pend' \in Seq(Owning \cup Raw) BY <2>1, SendInLoopStep DEF ControlType
  <2>5. ControlType' BY <2>2, <2>3, <2>4 DEF ControlType
  <2>6. TypeOK' BY <2>1, <2>5, SendInLoopStep, Zenon DEF TypeOK, ControlType, SockType
  <2>7. downs' = downs BY <2>3
  <2>8. WritingIffBuffered'
    BY <2>1, <2>7, SendInLoopStep, Zenon DEF WritingIffBuffered, DataInv
  <2> QED BY <2>1, <2>6, <2>8, SendInLoopStep, NoFin DEF DataInv
<1>2. CASE Shutdown
  <2>1. ShutdownInLoop /\ UNCHANGED data BY <1>2 DEF Shutdown
  <2>2. calls' \in 0..MaxCalls BY <1>2, CallCounts DEF Shutdown, LoopCall, Call
  <2>3. ControlType' /\ ch' = ch /\ downs' = downs
    BY <1>2, <2>2 DEF Shutdown, LoopCall, Call, loopVars, counts, ControlType
  <2> QED BY <2>1, <2>3, ShutdownInLoopStep, DataKept
<1> QED BY <1>1, <1>2

\* The user's other calls in the I/O thread.
LEMMA ControlSteps ==
  ASSUME DataInv, ForceClose \/ ForceCloseWithDelay \/ StartRead \/ StopRead
  PROVE  Quiet
<1> USE DataTypes
<1>1. CASE ForceClose
  <2>1. "forceClose" \in Owning \cup Raw BY DEF Owning
  <2>2. pend' \in Seq(Owning \cup Raw) BY <1>1, <2>1, AppendProperties, Zenon DEF ForceClose, ControlType
  <2>3. calls' \in 0..MaxCalls BY <1>1, CallCounts DEF ForceClose, LoopCall, Call
  <2> QED BY <1>1, <2>2, <2>3 DEF ForceClose, LoopCall, Call, Quiet, ControlType, loopVars, counts, data
<1>2. CASE ForceCloseWithDelay
  <2>1. calls' \in 0..MaxCalls BY <1>2, CallCounts DEF ForceCloseWithDelay, LoopCall, Call
  <2> QED BY <1>2, <2>1 DEF ForceCloseWithDelay, LoopCall, Call, Quiet, ControlType, loopVars, counts, data
<1>3. CASE StartRead \/ StopRead
  <2>1. /\ Enable(ch, "IN") \in ChannelType /\ Enable(ch, "IN").events = ch.events \cup {"IN"}
        /\ Disable(ch, "IN") \in ChannelType /\ Disable(ch, "IN").events = ch.events \ {"IN"}
    BY ChannelWritable DEF Events
  <2>2. calls' \in 0..MaxCalls BY <1>3, CallCounts DEF StartRead, StopRead, FlowCall, LoopCall, Call
  <2>3. /\ ch' \in {ch, Enable(ch, "IN"), Disable(ch, "IN")} /\ reading' \in {reading, TRUE, FALSE}
        /\ UNCHANGED <<state, data, pend, sock, timer, owner, loopVars, counts, userRef, contract, upc>>
    BY <1>3 DEF StartRead, StopRead, FlowCall, LoopCall, Call
  <2>4. ch' \in ChannelType /\ ("OUT" \in ch'.events <=> "OUT" \in ch.events) BY <2>1, <2>3
  <2>5. reading' \in BOOLEAN BY <2>3 DEF ControlType
  <2>6. ControlType' BY <2>2, <2>3, <2>5 DEF ControlType, loopVars, counts
  <2>7. UNCHANGED <<data, sock, downs>> BY <2>3 DEF counts
  <2> QED BY <2>4, <2>6, <2>7 DEF Quiet
<1> QED BY <1>1, <1>2, <1>3

\* The user thread.
LEMMA OtherSteps ==
  ASSUME DataInv,
         \/ \E op \in {"sendOther", "shutdownOther", "forceCloseOther"} : OtherTest(op)
         \/ OtherSet \/ OtherQueue \/ DropRef
  PROVE  Quiet
<1> USE DataTypes
<1>1. CASE \E op \in {"sendOther", "shutdownOther", "forceCloseOther"} : OtherTest(op)
  <2>1. calls' \in 0..MaxCalls BY <1>1, CallCounts DEF OtherTest
  <2>2. upc' \in {"queueSend", "setShutdown", "setForceClose"} BY <1>1 DEF OtherTest
  <2> QED BY <1>1, <2>1, <2>2 DEF OtherTest, Quiet, ControlType, loopVars, counts, data
<1>2. CASE OtherSet
  BY <1>2 DEF OtherSet, Quiet, ControlType, loopVars, counts, data
<1>3. CASE OtherQueue
  <2>1. \E f \in {"send", "shutdown", "forceClose"} : pend' = Append(pend, f) BY <1>3 DEF OtherQueue
  <2>2. {"send", "shutdown", "forceClose"} \subseteq Owning \cup Raw BY DEF Owning, Raw
  <2>3. pend' \in Seq(Owning \cup Raw) BY <2>1, <2>2, AppendProperties DEF ControlType
  <2> QED BY <1>3, <2>3 DEF OtherQueue, Quiet, ControlType, loopVars, counts, data
<1>4. CASE DropRef
  BY <1>4 DEF DropRef, Quiet, ControlType, loopVars, counts, data
<1> QED BY <1>1, <1>2, <1>3, <1>4

\* The owner, the timer and the peer.
LEMMA OutsideSteps ==
  ASSUME DataInv, OwnerRemove \/ OwnerDtor \/ TimerFires \/ Peer
  PROVE  Quiet
<1> USE DataTypes
<1>1. CASE OwnerRemove
  <2>1. "destroyed" \in Owning \cup Raw BY DEF Owning
  <2>2. pend' \in Seq(Owning \cup Raw) BY <1>1, <2>1, AppendProperties, Zenon DEF OwnerRemove, ControlType
  <2> QED BY <1>1, <2>2 DEF OwnerRemove, Quiet, ControlType, loopVars, user, counts, data
<1>2. CASE OwnerDtor
  <2>1. ConnectDestroyed BY <1>2 DEF OwnerDtor
  <2> QED BY <1>2, <2>1, ConnectDestroyedStep DEF OwnerDtor, Quiet, ControlType, user, data
<1>3. CASE TimerFires
  <2>1. "forceClose" \in Owning \cup Raw BY DEF Owning
  <2>2. pend' \in Seq(Owning \cup Raw)
    <3>1. pend' = pend \/ pend' = Append(pend, "forceClose") BY <1>3, Zenon DEF TimerFires
    <3>2. pend \in Seq(Owning \cup Raw) BY DEF ControlType
    <3>3. Append(pend, "forceClose") \in Seq(Owning \cup Raw) BY <2>1, <3>2, AppendProperties
    <3> QED BY <3>1, <3>2, <3>3, Zenon
  <2>3. state' \in {state, "kDisconnecting"} BY <1>3 DEF TimerFires
  <2> QED BY <1>3, <2>2, <2>3 DEF TimerFires, Quiet, ControlType, loopVars, counts, data
<1>4. CASE Peer
  <2>1. /\ sock' \in SockType /\ sock'.fin = sock.fin /\ (sock.rst => sock'.rst)
    <3>1. CASE PeerSend BY <3>1, BoundsAssumption DEF PeerSend, PeerStep, SockType
    <3>2. CASE PeerClose BY <3>2 DEF PeerClose, PeerStep, SockType
    <3>3. CASE PeerReset BY <3>3 DEF PeerReset, PeerStep, SockType
    <3> QED BY <1>4, <3>1, <3>2, <3>3 DEF Peer
  <2>2. UNCHANGED <<state, reading, ch, data, pend, loopVars, owner, user, counts, aborted>>
    BY <1>4 DEF Peer, PeerSend, PeerClose, PeerReset, PeerStep
  <2> QED BY <2>1, <2>2 DEF Quiet, ControlType, loopVars, user, counts, data
<1> QED BY <1>1, <1>2, <1>3, <1>4

\* Every step keeps the invariant, and what FinAfterData says.
LEMMA DataStep == DataInv /\ [Next]_vars => DataInv' /\ (FinStep \/ UNCHANGED vars)
<1> SUFFICES ASSUME DataInv, [Next]_vars PROVE DataInv' /\ (FinStep \/ UNCHANGED vars) OBVIOUS
<1>1. CASE \E room \in BOOLEAN : Poll(room)
  BY <1>1, LoopMoves, QuietStep
<1>2. CASE LoopStep
  BY <1>2, LoopMoves, EventSteps, FunctorSteps, ReturnSteps, SendSteps, WriteSomeStep, QuietStep DEF LoopStep
<1>3. CASE UserCall
  BY <1>3, CallSteps, ControlSteps, OtherSteps, QuietStep DEF UserCall
<1>4. CASE OtherStep
  BY <1>4, OtherSteps, QuietStep DEF OtherStep
<1>5. CASE OwnerRemove \/ OwnerDtor \/ TimerFires \/ Peer
  BY <1>5, OutsideSteps, QuietStep
<1>6. CASE UNCHANGED vars
  <2>1. Quiet BY <1>6, DataTypes DEF vars, Quiet, ControlType, data
  <2> QED BY <1>6, <2>1, QuietStep
<1> QED BY <1>1, <1>2, <1>3, <1>4, <1>5, <1>6 DEF Next

\* The invariant holds of every behaviour.
LEMMA DataInvariance == Spec => []DataInv
<1>1. Init => DataInv BY DataInit
<1>2. DataInv /\ [Next]_vars => DataInv' BY DataStep
<1> QED BY <1>1, <1>2, PTL DEF Spec

\* The type invariant, whatever the users call and however long the messages are.
THEOREM ConnectionTypeCorrect == Spec => []TypeOK
<1>1. DataInv => TypeOK BY DEF DataInv
<1> QED BY <1>1, DataInvariance, PTL

\* The kernel is given the stream in order, nothing lost or doubled (sendInLoop, handleWrite): for
\* messages of any length, and whatever the users call.
THEOREM StreamKeepsOrder == Spec => []StreamInOrder
<1>1. DataInv => StreamInOrder
  <2> SUFFICES ASSUME DataInv PROVE StreamInOrder OBVIOUS
  <2>1. /\ Units(wire, outBuf, accepted) /\ (Len(wire) + Len(outBuf) = accepted \/ Lost)
    BY DEF DataInv, Stream
  <2>2. /\ Len(wire \o outBuf) = Len(wire) + Len(outBuf)
        /\ wire \o outBuf = [i \in 1..Len(wire \o outBuf) |-> i]
    BY <2>1, UnitsStream
  <2>3. ~sock.rst /\ ~sock.fin => Len(wire \o outBuf) = accepted BY <2>1, <2>2, Zenon DEF Lost
  <2> QED BY <2>2, <2>3, Zenon DEF StreamInOrder
<1> QED BY <1>1, DataInvariance, PTL

\* The channel asks for writability exactly while data is buffered (sendInLoop, handleWrite).
THEOREM WritesWhatIsBuffered == Spec => []WritingIffBuffered
<1>1. DataInv => WritingIffBuffered BY DEF DataInv
<1> QED BY <1>1, DataInvariance, PTL

\* shutdownWrite() comes after everything that send() took: of whichever of shutdown and handleWrite
\* sends the FIN.
THEOREM FinComesLast == Spec => FinAfterData
<1>1. DataInv /\ [Next]_vars =>
        [~sock.fin /\ sock.fin' /\ downs = 0
           => outBuf' = <<>> /\ (sock.rst \/ Len(wire') = accepted)]_vars
  BY DataStep DEF FinStep
<1> QED BY <1>1, DataInvariance, PTL DEF Spec, FinAfterData

----
(* The functors that concern the connection *)

\* x is in one of the two queues, the one being run and the one being filled.
InQueues(p, r, x) == x \in Range(p) \/ x \in Range(r)

AtMostOnce(s, x) == \A i, j \in DOMAIN s : s[i] = x /\ s[j] = x => i = j

\* connectEstablished and connectDestroyed, which are queued once.
Single == {"established", "destroyed"}

QueuesOK(p, r) ==
  /\ p \in Seq(Owning \cup Raw) /\ r \in Seq(Owning \cup Raw)
  /\ \A x \in Single :
       AtMostOnce(p, x) /\ AtMostOnce(r, x) /\ ~(x \in Range(p) /\ x \in Range(r))

\* y enters the queues, leaves them for good, or leaves others of its name behind.
Joins(p, r, p2, r2, y) == \A x : InQueues(p2, r2, x) <=> InQueues(p, r, x) \/ x = y
Departs(p, r, p2, r2, y) ==
  /\ \A x : x # y => (InQueues(p2, r2, x) <=> InQueues(p, r, x))
  /\ InQueues(p, r, y)
  /\ y \in Single => ~InQueues(p2, r2, y)

\* A push.
LEMMA PushFunctor ==
  ASSUME NEW p, NEW r, QueuesOK(p, r), NEW y \in Owning \cup Raw,
         y \in Single => ~InQueues(p, r, y)
  PROVE  QueuesOK(Append(p, y), r) /\ Joins(p, r, Append(p, y), r, y)
<1> DEFINE S == Owning \cup Raw
<1>1. /\ p \in Seq(S) /\ r \in Seq(S) /\ y \in S BY DEF QueuesOK
<1> HIDE DEF S
<1>2. /\ Append(p, y) \in Seq(S) /\ Range(Append(p, y)) = Range(p) \cup {y}
  BY <1>1, RangeAppend, AppendProperties
<1>3. \A i \in DOMAIN Append(p, y) :
        \/ i \in DOMAIN p /\ Append(p, y)[i] = p[i]
        \/ i = Len(p) + 1 /\ Append(p, y)[i] = y
  BY <1>1
<1>4. ASSUME NEW x \in Single
      PROVE  AtMostOnce(Append(p, y), x) /\ ~(x \in Range(Append(p, y)) /\ x \in Range(r))
  <2>1. AtMostOnce(p, x) /\ ~(x \in Range(p) /\ x \in Range(r)) BY Zenon DEF QueuesOK
  <2>2. x = y => x \notin Range(p) /\ x \notin Range(r) BY <1>4, Zenon DEF InQueues
  <2>3. x = y => \A i \in DOMAIN p : p[i] # x BY <2>2, Zenon DEF Range
  <2>4. AtMostOnce(Append(p, y), x) BY <1>3, <2>1, <2>3, Zenon DEF AtMostOnce
  <2> QED BY <1>2, <2>1, <2>2, <2>4, Zenon
<1>5. QueuesOK(Append(p, y), r) BY <1>1, <1>2, <1>4, Zenon DEF QueuesOK, S
<1>6. Joins(p, r, Append(p, y), r, y) BY <1>2, Zenon DEF Joins, InQueues
<1> QED BY <1>5, <1>6

\* A pop.
LEMMA PopFunctor ==
  ASSUME NEW p, NEW r, QueuesOK(p, r), r # <<>>
  PROVE  QueuesOK(p, Tail(r)) /\ Departs(p, r, p, Tail(r), Head(r))
<1> DEFINE S == Owning \cup Raw
<1>1. p \in Seq(S) /\ r \in Seq(S) BY DEF QueuesOK
<1> HIDE DEF S
<1>2. /\ DOMAIN r = 1..Len(r) /\ Len(r) \in Nat /\ Len(r) >= 1
      /\ Tail(r) \in Seq(S) /\ DOMAIN Tail(r) = 1..(Len(r) - 1)
      /\ Head(r) = r[1]
      /\ \A i \in 1..(Len(r) - 1) : Tail(r)[i] = r[i + 1]
  BY <1>1
<1>3. \A i \in DOMAIN Tail(r) : i + 1 \in DOMAIN r /\ i + 1 # 1 /\ Tail(r)[i] = r[i + 1]
  BY <1>2
<1>4. \A i \in DOMAIN r : i = 1 \/ \E j \in DOMAIN Tail(r) : r[i] = Tail(r)[j]
  <2> SUFFICES ASSUME NEW i \in DOMAIN r, i # 1 PROVE \E j \in DOMAIN Tail(r) : r[i] = Tail(r)[j]
    OBVIOUS
  <2>1. i - 1 \in DOMAIN Tail(r) /\ r[i] = Tail(r)[i - 1] BY <1>2
  <2> QED BY <2>1
<1>5. Range(Tail(r)) \subseteq Range(r) BY <1>3, Zenon DEF Range
<1>6. Range(r) = {Head(r)} \cup Range(Tail(r))
  <2>1. 1 \in DOMAIN r /\ Head(r) = r[1] BY <1>2
  <2>2. Head(r) \in Range(r) BY <2>1, Zenon DEF Range
  <2>3. ASSUME NEW x \in Range(r) PROVE x = Head(r) \/ x \in Range(Tail(r))
    <3>1. PICK i \in DOMAIN r : r[i] = x BY Zenon DEF Range
    <3>2. CASE i = 1 BY <2>1, <3>1, <3>2, Zenon
    <3>3. CASE \E j \in DOMAIN Tail(r) : r[i] = Tail(r)[j] BY <3>1, <3>3, Zenon DEF Range
    <3> QED BY <1>4, <3>2, <3>3, Zenon
  <2> QED BY <1>5, <2>2, <2>3
<1>7. ASSUME NEW x \in Single
      PROVE  AtMostOnce(Tail(r), x) /\ (x = Head(r) => x \notin Range(Tail(r)))
  <2>1. AtMostOnce(r, x) BY Zenon DEF QueuesOK
  <2>2. ASSUME NEW i \in DOMAIN Tail(r), NEW j \in DOMAIN Tail(r), Tail(r)[i] = x, Tail(r)[j] = x
        PROVE  i = j
    <3>1. i + 1 = j + 1 BY <1>3, <2>1, <2>2, Zenon DEF AtMostOnce
    <3> QED BY <1>2, <3>1
  <2>3. ASSUME x = Head(r), NEW i \in DOMAIN Tail(r) PROVE Tail(r)[i] # x
    <3>1. 1 \in DOMAIN r /\ r[1] = x BY <1>2, <2>3
    <3> QED BY <1>3, <2>1, <3>1, Zenon DEF AtMostOnce
  <2> QED BY <2>2, <2>3, Zenon DEF AtMostOnce, Range
<1>8. QueuesOK(p, Tail(r))
  <2>1. \A x \in Single : AtMostOnce(p, x) /\ ~(x \in Range(p) /\ x \in Range(r)) BY Zenon DEF QueuesOK
  <2> QED BY <1>1, <1>2, <1>5, <1>7, <2>1, Zenon DEF QueuesOK, S
<1>9. \A x : x # Head(r) => (InQueues(p, Tail(r), x) <=> InQueues(p, r, x))
  BY <1>6, Zenon DEF InQueues
<1>10. InQueues(p, r, Head(r)) BY <1>6, Zenon DEF InQueues
<1>11. ASSUME Head(r) \in Single PROVE ~InQueues(p, Tail(r), Head(r))
  <2>1. ~(Head(r) \in Range(p) /\ Head(r) \in Range(r)) BY <1>11, Zenon DEF QueuesOK
  <2>2. Head(r) \in Range(r) BY <1>6
  <2> QED BY <1>7, <1>11, <2>1, <2>2, Zenon DEF InQueues
<1> QED BY <1>8, <1>9, <1>10, <1>11, Zenon DEF Departs

\* The queue that was filled becomes the one to run.
LEMMA FlipFunctors ==
  ASSUME NEW p, QueuesOK(p, <<>>)
  PROVE  QueuesOK(<<>>, p) /\ \A x : InQueues(<<>>, p, x) <=> InQueues(p, <<>>, x)
<1>1. Range(<<>>) = {} BY RangeEmpty
<1>2. \A x : AtMostOnce(<<>>, x) BY DEF AtMostOnce
<1> QED BY <1>1, <1>2, Zenon DEF QueuesOK, InQueues

----
(* The life of a connection *)

\* A channel between connectEstablished and the end: with events and registered for them, or without.
InUse(c) == c = Disabled \/ (c.events # {} /\ c = Added(c.events))

\* What may happen to such a channel.
LEMMA InUseOps ==
  ASSUME NEW c \in ChannelType, InUse(c), NEW e \in Events
  PROVE  /\ InUse(Enable(c, e)) /\ e \in Enable(c, e).events
         /\ c.events \subseteq Enable(c, e).events
         /\ e \in c.events => InUse(Disable(c, e))
         /\ Disable(c, e).events = c.events \ {e}
         /\ c.events # {} => DisableAll(c) = Disabled
         /\ Removable(DisableAll(c))
<1>1. c.events \in SUBSET Events BY DEF ChannelType
<1>2. /\ Disabled.events = {} /\ Disabled.index = "kDeleted"
      /\ \A ev : Added(ev).events = ev /\ Added(ev).index = "kAdded"
  BY DEF Disabled, Added
<1>3. c.events # {} => c.index = "kAdded" BY <1>2 DEF InUse
<1>4. /\ Enable(c, e) = Added(c.events \cup {e})
      /\ Disable(c, e) = IF c.index = "kAdded" /\ c.events \ {e} = {} THEN Disabled ELSE Added(c.events \ {e})
      /\ DisableAll(c) = IF c.index = "kAdded" THEN Disabled ELSE Added({})
  BY ChannelOps
<1>5. InUse(Enable(c, e)) /\ e \in Enable(c, e).events /\ c.events \subseteq Enable(c, e).events
  <2>1. Enable(c, e).events = c.events \cup {e} BY <1>2, <1>4, Zenon
  <2>2. Enable(c, e).events # {} /\ e \in Enable(c, e).events /\ c.events \subseteq Enable(c, e).events
    BY <2>1
  <2> QED BY <1>4, <2>1, <2>2, Zenon DEF InUse
<1>6. Disable(c, e).events = c.events \ {e}
  BY <1>2, <1>4, Zenon
<1>7. e \in c.events => InUse(Disable(c, e))
  <2> SUFFICES ASSUME e \in c.events PROVE InUse(Disable(c, e)) OBVIOUS
  <2>1. c.index = "kAdded" BY <1>3
  <2> QED BY <1>4, <1>6, <2>1, Zenon DEF InUse
<1>8. c.events # {} => DisableAll(c) = Disabled BY <1>3, <1>4, Zenon
<1>9. Removable(DisableAll(c)) BY <1>2, <1>4 DEF Removable
<1> QED BY <1>5, <1>6, <1>7, <1>8, <1>9

\* A channel without events can be removed, and is as new then; epoll_wait reports nothing of either.
LEMMA Finished ==
  /\ Removable(Disabled)
  /\ \A c \in ChannelType : Removable(c) => Remove(c) = NewChannel
  /\ \A r : CallbacksOf(Reported(Disabled, r)) = {} /\ CallbacksOf(Reported(NewChannel, r)) = {}
  /\ NewChannel.events = {} /\ InUse(Enable(NewChannel, "IN")) /\ "IN" \in Enable(NewChannel, "IN").events
<1>1. Removable(Disabled) BY DEF Removable, Disabled
<1>2. \A c \in ChannelType : Removable(c) => Remove(c) = NewChannel
  <2> SUFFICES ASSUME NEW c \in ChannelType, Removable(c) PROVE Remove(c) = NewChannel OBVIOUS
  <2>1. "IN" \in Events BY DEF Events
  <2>2. c.events = {} BY DEF Removable
  <2>3. Remove(c) = Removed(c.events) BY <2>1, ChannelOps
  <2> QED BY <2>2, <2>3, ChannelTypes
<1>3. \A r : CallbacksOf(Reported(Disabled, r)) = {} /\ CallbacksOf(Reported(NewChannel, r)) = {}
  <2>1. Disabled.kernel = Off /\ NewChannel.kernel = Off BY DEF Disabled, NewChannel
  <2>2. \A r : Reported(Disabled, r) = {} /\ Reported(NewChannel, r) = {} BY <2>1 DEF Reported
  <2>3. CallbacksOf({}) = {} BY DEF CallbacksOf
  <2> QED BY <2>2, <2>3, Zenon
<1>4. NewChannel.events = {} /\ InUse(Enable(NewChannel, "IN")) /\ "IN" \in Enable(NewChannel, "IN").events
  <2>1. NewChannel.events = {} /\ "IN" \in Events BY DEF NewChannel, Events
  <2>2. Enable(NewChannel, "IN") = Added({} \cup {"IN"}) BY <2>1, ChannelTypes, ChannelOps
  <2>3. Added({"IN"}).events = {"IN"} BY DEF Added
  <2>4. {} \cup {"IN"} = {"IN"} OBVIOUS
  <2> QED BY <2>1, <2>2, <2>3, <2>4 DEF InUse
<1> QED BY <1>1, <1>2, <1>3, <1>4

Queued(x) == InQueues(pend, run, x)

\* connectEstablished is still to come.
Before ==
  /\ ups = 0 /\ downs = 0
  /\ state = "kConnecting" /\ Queued("established") /\ ~Queued("destroyed") /\ ~Queued("send")
  /\ ch = NewChannel /\ reading = FALSE
  /\ cb = "none" /\ owner = "holds" /\ upc = "idle" /\ todo = {}

\* Between UP and DOWN.
Up ==
  /\ ups = 1 /\ downs = 0
  /\ state \in Open /\ ~Queued("established") /\ ~Queued("destroyed")
  /\ "ownerDtor" \in contract => state = "kConnected"
  /\ InUse(ch)
  /\ reading \/ "stopRead" \notin contract => "IN" \in ch.events
  /\ cb \in {"none", "up", "message"} /\ owner = "holds"

\* After DOWN, in the order in which the end comes: closeCallback_, removeConnectionInLoop,
\* connectDestroyed (which the owner's destructor calls at once), and nothing left.
DownCallback == owner = "holds" /\ cb = "down" /\ ch = Disabled /\ ~Queued("destroyed")
Removing == owner = "removing" /\ cb = "none" /\ ch = Disabled /\ ~Queued("destroyed")
Destroying == owner = "gone" /\ cb = "none" /\ ch = Disabled /\ Queued("destroyed")
DestroyCallback ==
  owner = "gone" /\ cb = "destroy" /\ Removable(ch) /\ place \in {"others", "functors"} /\ ~Queued("destroyed")
Destroyed == owner = "gone" /\ cb = "none" /\ ch = NewChannel /\ ~Queued("destroyed")

Down ==
  /\ ups = 1 /\ downs = 1
  /\ state \in {"kDisconnected", "kDisconnecting"}
  /\ InLoopUse(contract) => state = "kDisconnected"
  /\ ~Queued("established")
  /\ DownCallback \/ Removing \/ Destroying \/ DestroyCallback \/ Destroyed

\* A handler that may close the connection is only ever due while it is up and its channel in use.
HandlersDue ==
  /\ ~("close" \in todo /\ "read" \in todo)
  /\ "close" \in todo \/ "read" \in todo => Up /\ ch.events # {} /\ cb = "none"

\* What is queued, set or underway was called by this user.
Called ==
  /\ Queued("forceClose") \/ timer => contract \cap ForceCloses # {}
  /\ Queued("send") \/ upc = "queueSend" => "sendOther" \in contract
  /\ upc \in {"setShutdown", "queueShutdown"} => "shutdownOther" \in contract
  /\ upc \notin {"setForceClose", "queueForceClose"}
  /\ ~userRef => "dropRef" \in contract

Functors == QueuesOK(pend, run) /\ (place # "functors" => run = <<>>)

LifeInv ==
  /\ Disciplined(contract)
  /\ Functors /\ Called
  /\ Before \/ Up \/ Down
  /\ HandlersDue
  /\ aborted = "no"

\* The hypothesis of what follows: users that keep to the calls they may mix.
AllDisciplined == \A c \in Contracts : Disciplined(c)

\* The steps that move no functor and no callback, and what of the invariant they keep.
SameLife == UNCHANGED <<state, reading, ch, pend, run, cb, owner, contract, ups, downs, aborted>>

\* Whatever moves no functor and makes no callback leaves the queues in order and a connection up.
LEMMA SameLifeKept ==
  ASSUME LifeInv, SameLife
  PROVE  /\ Disciplined(contract)' /\ aborted' = "no"
         /\ QueuesOK(pend, run)'
         /\ \A x : Queued(x)' <=> Queued(x)
         /\ Up => Up'
<1>1. \A x : Queued(x)' <=> Queued(x) BY Zenon DEF Queued, SameLife
<1> QED BY <1>1, Zenon DEF LifeInv, SameLife, Functors, Up

\* epoll_wait reports nothing of a channel that is not in use.
LEMMA PollLife ==
  ASSUME DataInv, LifeInv, NEW room \in BOOLEAN, Poll(room)
  PROVE  LifeInv'
<1>1. /\ place = "poll" /\ place' \in {"others", "batch"} /\ SameLife
      /\ todo' = CallbacksOf(Reported(ch, Ready(room)))
      /\ UNCHANGED <<upc, userRef, timer>>
  BY DEF Poll, SameLife, user, counts
<1>2. ControlType /\ ch \in ChannelType /\ cb = "none" BY <1>1, DataTypes DEF ControlType
<1>3. Functors' /\ Called'
  BY <1>1, SameLifeKept DEF LifeInv, Functors, Called, SameLife
<1>4. Before \/ Up \/ Down BY DEF LifeInv
<1>5. ~("close" \in todo' /\ "read" \in todo') BY <1>1 DEF CallbacksOf
<1>6. todo' # {} => Up /\ ch.events # {}
  <2>1. Before \/ Down => ch = NewChannel \/ ch = Disabled
    BY <1>1 DEF Before, Down, DownCallback, Removing, Destroying, DestroyCallback, Destroyed
  <2>2. ch = Disabled \/ ch = NewChannel => todo' = {} BY <1>1, Finished, Zenon
  <2>3. ASSUME Up, ch.events = {} PROVE ch = Disabled BY <2>3 DEF Up, InUse
  <2> QED BY <1>4, <2>1, <2>2, <2>3
<1>7. HandlersDue'
  <2>1. ASSUME "close" \in todo' \/ "read" \in todo' PROVE Up' /\ ch'.events # {} /\ cb' = "none"
    <3>1. Up /\ ch.events # {} BY <1>6, <2>1
    <3> QED BY <1>1, <1>2, <3>1, SameLifeKept DEF SameLife
  <2> QED BY <1>5, <2>1 DEF HandlersDue
<1>8. Before' \/ Up' \/ Down'
  <2>1. CASE Before
    <3>1. todo' = {} BY <1>6, <2>1 DEF Before, Up
    <3> QED BY <1>1, <2>1, <3>1, SameLifeKept DEF Before, SameLife
  <2>2. CASE Up BY <1>1, <2>2, SameLifeKept
  <2>3. CASE Down
    BY <1>1, <1>2, <2>3, SameLifeKept
       DEF Down, DownCallback, Removing, Destroying, DestroyCallback, Destroyed, SameLife
  <2> QED BY <1>4, <2>1, <2>2, <2>3
<1> QED BY <1>1, <1>3, <1>7, <1>8, SameLifeKept DEF LifeInv

\* Steps that may move functors, but neither of Single, and none that the user did not call.
QueuesKept ==
  /\ QueuesOK(pend', run') /\ (place' # "functors" => run' = <<>>)
  /\ \A x \in Single : Queued(x)' <=> Queued(x)
  /\ \A x \in {"forceClose", "send"} : Queued(x)' => Queued(x)

\* Steps that only take other functors, or call one with no effect on the connection, keep the invariant.
LEMMA KeptLife ==
  ASSUME LifeInv, QueuesKept, todo' \subseteq todo, cb = "destroy" => place' \in {"others", "functors"},
         UNCHANGED <<state, reading, ch, cb, owner, contract, ups, downs, aborted, upc, userRef, timer>>
  PROVE  LifeInv'
<1>1. (Queued("established")' <=> Queued("established")) /\ (Queued("destroyed")' <=> Queued("destroyed"))
  BY DEF QueuesKept, Single
<1>2. Functors' /\ Called' BY DEF LifeInv, Functors, Called, QueuesKept
<1>3. Up => Up' BY <1>1 DEF Up
<1>4. HandlersDue' BY <1>3 DEF LifeInv, HandlersDue
<1>5. Before \/ Up \/ Down BY DEF LifeInv
<1>6. Before' \/ Up' \/ Down'
  <2>1. CASE Before BY <1>1, <2>1 DEF Before, QueuesKept
  <2>2. CASE Up BY <1>3, <2>2
  <2>3. CASE Down
    BY <1>1, <2>3 DEF Down, DownCallback, Removing, Destroying, DestroyCallback, Destroyed
  <2> QED BY <1>5, <2>1, <2>2, <2>3
<1> QED BY <1>2, <1>4, <1>6 DEF LifeInv

\* The queues untouched, a push of anything else, and a pop of anything else.
LEMMA QueuesStay ==
  ASSUME LifeInv, UNCHANGED <<pend, run>>, place' # "functors" => place # "functors" \/ run = <<>>
  PROVE  QueuesKept
BY DEF LifeInv, Functors, QueuesKept, Queued

\* A functor of another kind was called.
LEMMA QueuesPopped ==
  ASSUME LifeInv, NEW f, f \notin Single, TakeFunctor(f), pend' = pend
  PROVE  QueuesKept
<1>1. /\ QueuesOK(pend, run) /\ run # <<>> /\ run' = Tail(run) /\ Head(run) = f
      /\ place = "functors" /\ place' = place
  BY DEF LifeInv, Functors, TakeFunctor
<1>2. QueuesOK(pend, Tail(run)) /\ Departs(pend, run, pend, Tail(run), f)
  BY <1>1, PopFunctor, Zenon
<1>3. \A x : Queued(x)' => Queued(x) BY <1>1, <1>2, Zenon DEF Departs, Queued
<1>4. \A x \in Single : Queued(x)' <=> Queued(x) BY <1>1, <1>2, Zenon DEF Departs, Queued
<1> QED BY <1>1, <1>2, <1>3, <1>4, Zenon DEF QueuesKept

\* The moves of the loop.
LEMMA MoveLife ==
  ASSUME DataInv, LifeInv, EnterEvent \/ LeaveEvent \/ StartFunctors \/ EndFunctors
  PROVE  LifeInv'
<1> USE DataTypes
<1>1. CASE EnterEvent \/ LeaveEvent \/ EndFunctors
  <2>1. UNCHANGED <<pend, run>> /\ (place' # "functors" => place # "functors" \/ run = <<>>)
    BY <1>1 DEF EnterEvent, LeaveEvent, EndFunctors
  <2>2. QueuesKept BY <2>1, QueuesStay
  <2>3. /\ todo' = todo /\ (cb = "destroy" => place' \in {"others", "functors"})
        /\ UNCHANGED <<state, reading, ch, cb, owner, contract, ups, downs, aborted, upc, userRef, timer>>
    BY <1>1 DEF EnterEvent, LeaveEvent, EndFunctors, LifeInv, Before, Up, Down, DownCallback, Removing,
               Destroying, DestroyCallback, Destroyed, user, counts
  <2> QED BY <2>2, <2>3, KeptLife
<1>2. CASE StartFunctors
  <2>1. /\ place \in {"others", "batch"} /\ place' = "functors" /\ run' = pend /\ pend' = <<>> /\ todo' = todo
        /\ UNCHANGED <<state, reading, ch, cb, owner, contract, ups, downs, aborted, upc, userRef, timer>>
    BY <1>2 DEF StartFunctors, user, counts
  <2>2. run = <<>> /\ QueuesOK(pend, <<>>) BY <2>1 DEF LifeInv, Functors
  <2>3. QueuesOK(<<>>, pend) /\ \A x : InQueues(<<>>, pend, x) <=> InQueues(pend, <<>>, x)
    BY <2>2, FlipFunctors, Zenon
  <2>4. QueuesKept BY <2>1, <2>2, <2>3, Zenon DEF QueuesKept, Queued
  <2> QED BY <2>1, <2>4, KeptLife
<1> QED BY <1>1, <1>2

\* The handlers and functors that change nothing but the data and the socket, and the peer.
LEMMA QuietLife ==
  ASSUME DataInv, LifeInv, ErrorEvent \/ ReadError \/ WriteNothing \/ RunShutdown \/ RunNotice \/ Peer
  PROVE  LifeInv'
<1>1. CASE ErrorEvent \/ ReadError \/ WriteNothing \/ Peer
  <2>1. UNCHANGED <<pend, run, place>> /\ todo' \subseteq todo
    BY <1>1 DEF ErrorEvent, ReadError, WriteNothing, Dispatch, Peer, PeerSend, PeerClose, PeerReset,
               PeerStep, loopVars
  <2>2. QueuesKept BY <2>1, QueuesStay
  <2>3. /\ UNCHANGED <<state, reading, ch, cb, owner, contract, ups, downs, aborted, upc, userRef, timer>>
    BY <1>1 DEF ErrorEvent, ReadError, WriteNothing, Peer, PeerSend, PeerClose, PeerReset, PeerStep,
               loopVars, user, counts
  <2>4. cb = "destroy" => place' \in {"others", "functors"}
    BY <2>1 DEF LifeInv, Before, Up, Down, DownCallback, Removing, Destroying, DestroyCallback, Destroyed
  <2> QED BY <2>1, <2>2, <2>3, <2>4, KeptLife
<1>2. CASE RunShutdown \/ RunNotice
  <2>1. /\ \E f \in {"shutdown", "writeComplete", "highWater"} : TakeFunctor(f)
        /\ UNCHANGED <<state, reading, ch, pend, cb, owner, contract, ups, downs, aborted, upc, userRef, timer>>
    BY <1>2 DEF RunShutdown, RunNotice, user, counts
  <2>2. PICK f \in {"shutdown", "writeComplete", "highWater"} : TakeFunctor(f) BY <2>1
  <2>3. QueuesKept BY <2>1, <2>2, QueuesPopped DEF Single
  <2>4. place' = "functors" /\ todo' = todo BY <2>2 DEF TakeFunctor
  <2> QED BY <2>1, <2>3, <2>4, KeptLife
<1> QED BY <1>1, <1>2

\* The first of the callbacks that are due, and those after it.
LEMMA DispatchFacts ==
  ASSUME NEW c, Dispatch(c)
  PROVE  /\ c \in todo /\ todo' = todo \ {c} /\ place = "event" /\ place' = place
         /\ run' = run /\ cb = "none"
         /\ c = "read" => "close" \notin todo
<1>1. /\ FirstOf(todo, c) /\ todo' = todo \ {c} /\ place = "event" /\ place' = place /\ run' = run
      /\ cb = "none"
  BY DEF Dispatch
<1>2. c \in todo BY <1>1 DEF FirstOf
<1>3. ASSUME c = "read" PROVE "close" \notin todo
  <2>1. PICK i \in 1..4 : Callbacks[i] = c /\ \A j \in 1..(i - 1) : Callbacks[j] \notin todo
    BY <1>1 DEF FirstOf
  <2>2. Callbacks[1] = "close" /\ Callbacks[2] = "error" /\ Callbacks[3] = "read" BY DEF Callbacks
  <2>3. i # 1 BY <1>3, <2>1, <2>2
  <2>4. 1 \in 1..(i - 1) BY <2>3
  <2> QED BY <2>1, <2>2, <2>4
<1> QED BY <1>1, <1>2, <1>3

\* handleClose of a connection that is up.
LEMMA CloseLife ==
  ASSUME DataInv, LifeInv, HandleClose, Up, ch.events # {}, QueuesKept,
         "close" \notin todo' /\ "read" \notin todo',
         UNCHANGED <<owner, contract, upc, userRef, timer>>
  PROVE  LifeInv'
<1>1. /\ state \in Open /\ aborted' = aborted /\ state' = "kDisconnected" /\ cb' = "down"
      /\ ch' = DisableAll(ch) /\ ups' = 1 /\ downs' = 1 /\ owner' = "holds"
  BY DEF HandleClose, Assert, Up
<1>2. ch' = Disabled
  <2>1. "IN" \in Events /\ ch \in ChannelType /\ InUse(ch) BY DataTypes DEF Events, Up
  <2> QED BY <1>1, <2>1, InUseOps
<1>3. ~Queued("established")' /\ ~Queued("destroyed")' BY DEF Up, QueuesKept, Single
<1>4. Down' BY <1>1, <1>2, <1>3 DEF Down, DownCallback
<1>5. Functors' /\ Called' BY DEF LifeInv, Functors, Called, QueuesKept
<1>6. HandlersDue' BY DEF HandlersDue
<1> QED BY <1>1, <1>4, <1>5, <1>6 DEF LifeInv

\* The end of the stream, a hangup, and forceCloseInLoop.
LEMMA ClosingLife ==
  ASSUME DataInv, LifeInv, CloseEvent \/ ReadEnd \/ RunForceClose
  PROVE  LifeInv'
<1>1. CASE CloseEvent
  <2>1. Dispatch("close") /\ HandleClose /\ UNCHANGED <<pend, owner, contract, upc, userRef, timer>>
    BY <1>1 DEF CloseEvent, user
  <2>2. /\ "close" \in todo /\ todo' = todo \ {"close"} /\ place' = place /\ run' = run
    BY <2>1, DispatchFacts
  <2>3. Up /\ ch.events # {} /\ "read" \notin todo BY <2>2 DEF LifeInv, HandlersDue
  <2>4. QueuesKept BY <2>1, <2>2, QueuesStay
  <2> QED BY <2>1, <2>2, <2>3, <2>4, CloseLife
<1>2. CASE ReadEnd
  <2>1. Dispatch("read") /\ HandleClose /\ UNCHANGED <<pend, owner, contract, upc, userRef, timer>>
    BY <1>2 DEF ReadEnd, user
  <2>2. /\ "read" \in todo /\ todo' = todo \ {"read"} /\ place' = place /\ run' = run
        /\ "close" \notin todo
    BY <2>1, DispatchFacts
  <2>3. Up /\ ch.events # {} BY <2>2 DEF LifeInv, HandlersDue
  <2>4. QueuesKept BY <2>1, <2>2, QueuesStay
  <2> QED BY <2>1, <2>2, <2>3, <2>4, CloseLife
<1>3. CASE RunForceClose
  <2>1. TakeFunctor("forceClose") /\ UNCHANGED <<pend, owner, contract, upc, userRef, timer>>
    BY <1>3 DEF RunForceClose, user
  <2>2. QueuesKept BY <2>1, QueuesPopped DEF Single
  <2>3. /\ place = "functors" /\ place' = "functors" /\ todo' = todo /\ todo = {}
    BY <2>1, DataTypes DEF TakeFunctor, ControlType
  <2>4. CASE state \in Open
    <3>1. HandleClose BY <1>3, <2>4 DEF RunForceClose
    <3>2. Queued("forceClose")
      <4>1. QueuesOK(pend, run) /\ run # <<>> /\ Head(run) = "forceClose"
        BY <2>1 DEF LifeInv, Functors, TakeFunctor
      <4>2. Departs(pend, run, pend, Tail(run), Head(run)) BY <4>1, PopFunctor
      <4> QED BY <4>1, <4>2, Zenon DEF Departs, Queued
    <3>3. contract \cap ForceCloses # {} BY <3>2 DEF LifeInv, Called
    <3>4. InLoopUse(contract) /\ "stopRead" \notin contract
      BY <3>3 DEF LifeInv, Disciplined, OtherThreadUse, InLoopUse, ForceCloses
    <3>5. Up BY <2>4, <3>4 DEF LifeInv, Before, Down, Open
    <3>6. ch.events # {} BY <3>4, <3>5 DEF Up
    <3> QED BY <2>1, <2>2, <2>3, <3>1, <3>5, <3>6, CloseLife
  <2>5. CASE state \notin Open
    <3>1. UNCHANGED <<state, reading, ch, cb, ups, downs, aborted>>
      BY <1>3, <2>5 DEF RunForceClose, counts
    <3> QED BY <2>1, <2>2, <2>3, <3>1, KeptLife
  <2> QED BY <2>4, <2>5
<1> QED BY <1>1, <1>2, <1>3

\* connectEstablished.
LEMMA EstablishedLife ==
  ASSUME DataInv, LifeInv, RunEstablished
  PROVE  LifeInv'
<1>1. /\ TakeFunctor("established") /\ pend' = pend
      /\ UNCHANGED <<reading, owner, contract, upc, userRef, timer, downs>>
      /\ state' = "kConnected" /\ ch' = Enable(ch, "IN") /\ cb' = "up" /\ ups' = ups + 1
      /\ aborted' = IF state = "kConnecting" THEN aborted ELSE "connectEstablished"
  BY DEF RunEstablished, user, Assert
<1>2. /\ run # <<>> /\ Head(run) = "established" /\ run' = Tail(run)
      /\ place = "functors" /\ place' = place /\ todo' = todo /\ todo = {}
  BY <1>1, DataTypes DEF TakeFunctor, ControlType
<1>3. QueuesOK(pend', run') /\ Departs(pend, run, pend', run', "established")
  <2>1. QueuesOK(pend, run) BY DEF LifeInv, Functors
  <2> QED BY <1>1, <1>2, <2>1, PopFunctor
<1>4. /\ Queued("established") /\ ~Queued("established")'
      /\ \A x : x # "established" => (Queued(x)' <=> Queued(x))
  BY <1>3, Zenon DEF Departs, Queued, Single
<1>5. Before BY <1>4 DEF LifeInv, Up, Down
<1>6. InUse(ch') /\ "IN" \in ch'.events BY <1>1, <1>5, Finished DEF Before
<1>7. Up' BY <1>1, <1>4, <1>5, <1>6 DEF Before, Up, Open
<1>8. Functors' /\ Called' BY <1>1, <1>2, <1>3, <1>4 DEF LifeInv, Functors, Called
<1>9. HandlersDue' BY <1>2 DEF HandlersDue
<1>10. aborted' = "no" BY <1>1, <1>5 DEF LifeInv, Before
<1> QED BY <1>1, <1>7, <1>8, <1>9, <1>10 DEF LifeInv

\* connectDestroyed, as a functor of the loop and as called by the owner's destructor.
LEMMA DestroyLife ==
  ASSUME DataInv, LifeInv, RunDestroyed \/ OwnerDtor
  PROVE  LifeInv'
<1>1. CASE RunDestroyed
  <2>1. /\ TakeFunctor("destroyed") /\ ConnectDestroyed
        /\ UNCHANGED <<reading, pend, owner, contract, upc, userRef, timer, ups>>
    BY <1>1 DEF RunDestroyed, user
  <2>2. /\ run # <<>> /\ Head(run) = "destroyed" /\ run' = Tail(run) /\ cb = "none"
        /\ place = "functors" /\ place' = place /\ todo' = todo /\ todo = {}
    BY <2>1, DataTypes DEF TakeFunctor, ControlType
  <2>3. QueuesOK(pend', run') /\ Departs(pend, run, pend', run', "destroyed")
    <3>1. QueuesOK(pend, run) BY DEF LifeInv, Functors
    <3> QED BY <2>1, <2>2, <3>1, PopFunctor
  <2>4. /\ Queued("destroyed") /\ ~Queued("destroyed")'
        /\ \A x : x # "destroyed" => (Queued(x)' <=> Queued(x))
    BY <2>3, Zenon DEF Departs, Queued, Single
  <2>5. Down /\ Destroying
    BY <2>4 DEF LifeInv, Before, Up, Down, DownCallback, Removing, DestroyCallback, Destroyed
  <2>6. Removable(ch) /\ Remove(ch) = NewChannel
    BY <2>5, DataTypes, Finished DEF Destroying
  <2>7. ch' = NewChannel /\ aborted' = "no" /\ UNCHANGED <<state, cb, downs>>
    BY <2>1, <2>5, <2>6 DEF ConnectDestroyed, Down, Assert, LifeInv
  <2>8. Down' BY <2>1, <2>2, <2>4, <2>5, <2>7 DEF Down, Destroying, Destroyed
  <2>9. Functors' /\ Called' BY <2>1, <2>2, <2>3, <2>4 DEF LifeInv, Functors, Called
  <2>10. HandlersDue' BY <2>2 DEF HandlersDue
  <2> QED BY <2>1, <2>7, <2>8, <2>9, <2>10 DEF LifeInv
<1>2. CASE OwnerDtor
  <2>1. /\ "ownerDtor" \in contract /\ owner = "holds" /\ state # "kConnecting"
        /\ place \in {"others", "functors"} /\ cb = "none" /\ owner' = "gone" /\ ConnectDestroyed
        /\ UNCHANGED <<reading, pend, run, place, todo, contract, upc, userRef, timer, ups>>
    BY <1>2 DEF OwnerDtor, user
  <2>2. Up /\ state = "kConnected"
    BY <2>1 DEF LifeInv, Before, Up, Down, DownCallback, Removing, Destroying, DestroyCallback, Destroyed
  <2>3. Removable(DisableAll(ch))
    <3>1. "IN" \in Events BY DEF Events
    <3> QED BY <2>2, <3>1, DataTypes, InUseOps DEF Up
  <2>4. /\ state' = "kDisconnected" /\ ch' = DisableAll(ch) /\ cb' = "destroy" /\ downs' = downs + 1
        /\ aborted' = aborted
    BY <2>1, <2>2 DEF ConnectDestroyed
  <2>5. (\A x : Queued(x)' <=> Queued(x)) /\ QueuesOK(pend', run')
    BY <2>1, Zenon DEF LifeInv, Functors, Queued
  <2>6. DestroyCallback' BY <2>1, <2>2, <2>3, <2>4, <2>5 DEF DestroyCallback, Up
  <2>7. Down' BY <2>1, <2>2, <2>4, <2>5, <2>6 DEF Down, Up
  <2>8. Functors' /\ Called' BY <2>1, <2>5 DEF LifeInv, Functors, Called
  <2>9. todo = {} BY <2>1, DataTypes DEF ControlType
  <2>10. HandlersDue' BY <2>1, <2>9 DEF HandlersDue
  <2> QED BY <2>1, <2>4, <2>7, <2>8, <2>10 DEF LifeInv
<1> QED BY <1>1, <1>2

\* Returns from user callbacks.
LEMMA ReturnLife ==
  ASSUME DataInv, LifeInv, CallbackReturn \/ AfterDown \/ AfterDestroy
  PROVE  LifeInv'
<1>1. /\ UNCHANGED <<state, reading, pend, run, place, todo, contract, upc, userRef, timer, ups, downs>>
      /\ cb # "none" /\ cb' = "none"
  BY DEF CallbackReturn, AfterDown, AfterDestroy, user, counts
<1>2. (\A x : Queued(x)' <=> Queued(x)) /\ QueuesOK(pend', run')
  BY <1>1, Zenon DEF LifeInv, Functors, Queued
<1>3. Functors' /\ Called' BY <1>1, <1>2 DEF LifeInv, Functors, Called
<1>4. HandlersDue' BY <1>1 DEF LifeInv, HandlersDue
<1>5. Before \/ Up \/ Down BY DEF LifeInv
<1>6. CASE CallbackReturn
  <2>1. cb \in {"up", "message"} /\ UNCHANGED <<ch, owner, aborted>> BY <1>6 DEF CallbackReturn
  <2>2. Up BY <1>5, <2>1 DEF Before, Down, DownCallback, Removing, Destroying, DestroyCallback, Destroyed
  <2>3. Up' BY <1>1, <1>2, <2>1, <2>2 DEF Up
  <2> QED BY <1>1, <1>3, <1>4, <2>1, <2>3 DEF LifeInv
<1>7. CASE AfterDown
  <2>1. cb = "down" /\ ch' = ch BY <1>7 DEF AfterDown
  <2>2. Down /\ DownCallback
    BY <1>5, <2>1 DEF Before, Up, Down, DownCallback, Removing, Destroying, DestroyCallback, Destroyed
  <2>3. owner' = "removing" /\ aborted' = aborted
    BY <1>7, <2>2 DEF AfterDown, DownCallback, Assert
  <2>4. Down' BY <1>1, <1>2, <2>1, <2>2, <2>3 DEF Down, DownCallback, Removing
  <2> QED BY <1>1, <1>3, <1>4, <2>3, <2>4 DEF LifeInv
<1>8. CASE AfterDestroy
  <2>1. cb = "destroy" /\ ch' = Remove(ch) /\ owner' = owner BY <1>8 DEF AfterDestroy
  <2>2. Down /\ DestroyCallback
    BY <1>5, <2>1 DEF Before, Up, Down, DownCallback, Removing, Destroying, DestroyCallback, Destroyed
  <2>3. ch' = NewChannel BY <2>1, <2>2, DataTypes, Finished DEF DestroyCallback
  <2>4. aborted' = aborted BY <1>8, <2>2 DEF AfterDestroy, DestroyCallback, Assert
  <2>5. Down' BY <1>1, <1>2, <2>1, <2>2, <2>3 DEF Down, DestroyCallback, Destroyed
  <2> QED BY <1>1, <1>3, <1>4, <2>4, <2>5 DEF LifeInv
<1> QED BY <1>6, <1>7, <1>8

\* A message comes only while the connection is up.
LEMMA MessageLife ==
  ASSUME DataInv, LifeInv, ReadMessage
  PROVE  LifeInv'
<1>1. /\ Dispatch("read") /\ cb' = "message"
      /\ UNCHANGED <<state, reading, ch, pend, owner, contract, upc, userRef, timer, ups, downs, aborted>>
  BY DEF ReadMessage, user, counts
<1>2. /\ "read" \in todo /\ todo' = todo \ {"read"} /\ place' = place /\ run' = run
      /\ "close" \notin todo
  BY <1>1, DispatchFacts
<1>3. Up BY <1>2 DEF LifeInv, HandlersDue
<1>4. (\A x : Queued(x)' <=> Queued(x)) /\ QueuesOK(pend', run')
  BY <1>1, <1>2, Zenon DEF LifeInv, Functors, Queued
<1>5. Up' BY <1>1, <1>3, <1>4 DEF Up
<1>6. Functors' /\ Called' BY <1>1, <1>2, <1>4 DEF LifeInv, Functors, Called
<1>7. HandlersDue' BY <1>2 DEF HandlersDue
<1> QED BY <1>1, <1>5, <1>6, <1>7 DEF LifeInv

\* A step of a connection that is up and stays up.
StaysUp ==
  /\ state' \in Open /\ ("ownerDtor" \in contract => state' = "kConnected")
  /\ InUse(ch') /\ (reading' \/ "stopRead" \notin contract => "IN" \in ch'.events)
  /\ QueuesOK(pend', run') /\ (place' # "functors" => run' = <<>>)
  /\ ~Queued("established")' /\ ~Queued("destroyed")'
  /\ todo' \subseteq todo
  /\ "close" \in todo' \/ "read" \in todo' => ch'.events # {}
  /\ UNCHANGED <<cb, owner, contract, ups, downs, aborted>>

\* A connection that stays up keeps the invariant.
LEMMA UpLife ==
  ASSUME LifeInv, Up, StaysUp, Called'
  PROVE  LifeInv'
<1>1. Up' BY DEF Up, StaysUp
<1>2. HandlersDue' BY <1>1 DEF LifeInv, HandlersDue, StaysUp
<1> QED BY <1>1, <1>2 DEF LifeInv, StaysUp, Functors

\* sendInLoop queues the user's callbacks and nothing else.
LEMMA NoticesQueued ==
  ASSUME NEW r, QueuesOK(pend, r), SendInLoop
  PROVE  /\ QueuesOK(pend', r)
         /\ \A x \in Single \cup Raw \cup {"forceClose"} : InQueues(pend', r, x) <=> InQueues(pend, r, x)
<1> DEFINE S == Owning \cup Raw
<1>1. \E a, b \in BOOLEAN :
        pend' = pend \o (IF a THEN <<"writeComplete">> ELSE <<>>) \o (IF b THEN <<"highWater">> ELSE <<>>)
  BY Zenon DEF SendInLoop
<1>2. PICK a, b \in BOOLEAN :
        pend' = pend \o (IF a THEN <<"writeComplete">> ELSE <<>>) \o (IF b THEN <<"highWater">> ELSE <<>>)
  BY <1>1
<1> DEFINE p1 == IF a THEN Append(pend, "writeComplete") ELSE pend
<1>3. "writeComplete" \in S /\ "highWater" \in S /\ pend \in Seq(S) BY DEF Owning, QueuesOK
<1>4. "writeComplete" \notin Single \cup Raw \cup {"forceClose"}
      /\ "highWater" \notin Single \cup Raw \cup {"forceClose"}
  BY DEF Single, Raw
<1> HIDE DEF S
<1>5. pend \o (IF a THEN <<"writeComplete">> ELSE <<>>) = p1
  BY <1>3, AppendIsConcat, ConcatEmptySeq
<1>6. /\ QueuesOK(p1, r) /\ p1 \in Seq(S)
      /\ \A x \in Single \cup Raw \cup {"forceClose"} : InQueues(p1, r, x) <=> InQueues(pend, r, x)
  <2>1. CASE a
    <3>1. QueuesOK(p1, r) /\ Joins(pend, r, p1, r, "writeComplete")
      BY <1>3, <1>4, <2>1, PushFunctor DEF S
    <3> QED BY <1>4, <3>1, Zenon DEF Joins, QueuesOK, S
  <2>2. CASE ~a BY <1>3, <2>2
  <2> QED BY <2>1, <2>2
<1> HIDE DEF p1
<1>7. pend' = IF b THEN Append(p1, "highWater") ELSE p1
  BY <1>2, <1>3, <1>5, <1>6, AppendIsConcat, ConcatEmptySeq
<1>8. CASE b
  <2>1. QueuesOK(pend', r) /\ Joins(p1, r, pend', r, "highWater")
    BY <1>3, <1>4, <1>6, <1>7, <1>8, PushFunctor DEF S
  <2> QED BY <1>4, <1>6, <2>1, Zenon DEF Joins
<1>9. CASE ~b BY <1>6, <1>7, <1>9, Zenon
<1> QED BY <1>8, <1>9

\* send() in the I/O thread, and sendInLoop for another.
LEMMA SendLife ==
  ASSUME DataInv, LifeInv, Send \/ RunSend
  PROVE  LifeInv'
<1>1. ASSUME SendInLoop, Up
      PROVE  InUse(ch') /\ ch.events \subseteq ch'.events
  <2>1. "OUT" \in Events /\ ch \in ChannelType /\ InUse(ch) BY <1>1, DataTypes DEF Events, Up
  <2>2. ch' = ch \/ ch' = Enable(ch, "OUT") BY <1>1, SendInLoopStep
  <2> QED BY <2>1, <2>2, InUseOps
<1>2. CASE Send
  <2>1. /\ SendInLoop /\ state = "kConnected"
        /\ UNCHANGED <<state, reading, timer, owner, run, place, todo, cb, ups, downs, aborted, userRef,
                       contract, upc>>
    BY <1>2 DEF Send, LoopCall, Call, loopVars, counts
  <2>2. Up BY <2>1 DEF LifeInv, Before, Down
  <2>3. /\ QueuesOK(pend', run')
        /\ \A x \in Single \cup Raw \cup {"forceClose"} : Queued(x)' <=> Queued(x)
    BY <2>1, NoticesQueued DEF LifeInv, Functors, Queued
  <2>4. /\ Queued("established")' <=> Queued("established")
        /\ Queued("destroyed")' <=> Queued("destroyed")
        /\ Queued("send")' <=> Queued("send")
        /\ Queued("forceClose")' <=> Queued("forceClose")
    BY <2>3 DEF Single, Raw
  <2>5. Called' BY <2>1, <2>4 DEF LifeInv, Called
  <2>6. StaysUp
    BY <1>1, <2>1, <2>2, <2>3, <2>4 DEF StaysUp, Up, LifeInv, Functors, HandlersDue, Open
  <2> QED BY <2>2, <2>5, <2>6, UpLife
<1>3. CASE RunSend
  <2>1. /\ TakeFunctor("send")
        /\ UNCHANGED <<state, reading, cb, owner, contract, upc, userRef, timer, ups, downs, aborted>>
    BY <1>3 DEF RunSend, user, counts
  <2>2. /\ run # <<>> /\ Head(run) = "send" /\ run' = Tail(run)
        /\ place = "functors" /\ place' = "functors" /\ todo' = todo /\ todo = {}
    BY <2>1, DataTypes DEF TakeFunctor, ControlType
  <2>3. QueuesOK(pend, run') /\ Departs(pend, run, pend, run', "send")
    <3>1. QueuesOK(pend, run) BY DEF LifeInv, Functors
    <3> QED BY <2>2, <3>1, PopFunctor
  <2>4. CASE state = "kDisconnected"
    <3>1. pend' = pend /\ ch' = ch BY <1>3, <2>4 DEF RunSend
    <3>2. QueuesKept BY <2>1, <3>1, QueuesPopped DEF Single
    <3> QED BY <2>1, <2>2, <3>1, <3>2, KeptLife
  <2>5. CASE state # "kDisconnected"
    <3>1. SendInLoop BY <1>3, <2>5 DEF RunSend
    <3>2. Queued("send") BY <2>3, Zenon DEF Departs, Queued
    <3>3. InLoopUse(contract) BY <3>2 DEF LifeInv, Called, Disciplined, OtherThreadUse
    <3>4. /\ QueuesOK(pend', run')
          /\ \A x \in Single \cup Raw \cup {"forceClose"} :
               InQueues(pend', run', x) <=> InQueues(pend, run', x)
      BY <2>3, <3>1, NoticesQueued
    <3>5. \A x : InQueues(pend, run', x) => InQueues(pend, run, x) BY <2>3, Zenon DEF Departs
    <3>6. \A x : x # "send" => (InQueues(pend, run', x) <=> InQueues(pend, run, x))
      BY <2>3, Zenon DEF Departs
    <3>7. /\ Queued("established")' <=> Queued("established")
          /\ Queued("destroyed")' <=> Queued("destroyed")
          /\ Queued("send")' => Queued("send")
          /\ Queued("forceClose")' => Queued("forceClose")
      BY <3>4, <3>5, <3>6 DEF Single, Raw, Queued
    <3>8. Up
      <4>1. ~Before BY <3>2 DEF Before
      <4>2. ~Down BY <2>5, <3>3 DEF Down
      <4> QED BY <4>1, <4>2 DEF LifeInv
    <3>9. Called' BY <2>1, <3>7 DEF LifeInv, Called
    <3>10. StaysUp
      BY <1>1, <2>1, <2>2, <3>1, <3>4, <3>7, <3>8 DEF StaysUp, Up
    <3> QED BY <3>8, <3>9, <3>10, UpLife
  <2> QED BY <2>4, <2>5
<1> QED BY <1>2, <1>3

\* A push of a functor that is queued once only if it was not queued.
LEMMA QueuesPushed ==
  ASSUME LifeInv, NEW f \in Owning \cup Raw, f \in Single => ~Queued(f),
         pend' = Append(pend, f), run' = run
  PROVE  /\ QueuesOK(pend', run')
         /\ \A x : Queued(x)' <=> Queued(x) \/ x = f
<1>1. QueuesOK(pend, run) BY DEF LifeInv, Functors
<1>2. QueuesOK(Append(pend, f), run) /\ Joins(pend, run, Append(pend, f), run, f)
  BY <1>1, PushFunctor DEF Queued
<1> QED BY <1>2, Zenon DEF Joins, Queued

\* handleWrite() that wrote something.
LEMMA WriteLife ==
  ASSUME DataInv, LifeInv, WriteSome
  PROVE  LifeInv'
<1>1. /\ Dispatch("write") /\ "OUT" \in ch.events
      /\ ch' = ch \/ ch' = Disable(ch, "OUT")
      /\ pend' = pend \/ pend' = Append(pend, "writeComplete")
      /\ UNCHANGED <<state, reading, cb, owner, contract, upc, userRef, timer, ups, downs, aborted>>
  BY DEF WriteSome, user, counts
<1>2. /\ todo' \subseteq todo /\ place = "event" /\ place' = "event" /\ run' = run
      /\ "close" \notin todo' /\ "read" \notin todo'
  <2>1. FirstOf(todo, "write") /\ todo' = todo \ {"write"} /\ place = "event" /\ place' = place /\ run' = run
    BY <1>1 DEF Dispatch
  <2>2. PICK i \in 1..4 : Callbacks[i] = "write" /\ \A j \in 1..(i - 1) : Callbacks[j] \notin todo
    BY <2>1 DEF FirstOf
  <2>3. Callbacks[1] = "close" /\ Callbacks[2] = "error" /\ Callbacks[3] = "read" /\ Callbacks[4] = "write"
    BY DEF Callbacks
  <2>4. i = 4 BY <2>2, <2>3
  <2>5. 1 \in 1..(i - 1) /\ 3 \in 1..(i - 1) BY <2>4
  <2> QED BY <2>1, <2>2, <2>3, <2>5
<1>3. Up
  <2>1. NewChannel.events = {} /\ Disabled.events = {} BY DEF NewChannel, Disabled
  <2>2. ~Before BY <1>1, <2>1 DEF Before
  <2>3. ~Down
    BY <1>1, <2>1 DEF Down, DownCallback, Removing, Destroying, DestroyCallback, Destroyed, Removable
  <2> QED BY <2>2, <2>3 DEF LifeInv
<1>4. InUse(ch') /\ ("IN" \in ch.events => "IN" \in ch'.events)
  <2>1. "OUT" \in Events /\ ch \in ChannelType /\ InUse(ch) BY <1>3, DataTypes DEF Events, Up
  <2>2. InUse(Disable(ch, "OUT")) /\ Disable(ch, "OUT").events = ch.events \ {"OUT"}
    BY <1>1, <2>1, InUseOps
  <2> QED BY <1>1, <2>1, <2>2
<1>5. QueuesOK(pend', run') /\ \A x : x # "writeComplete" => (Queued(x)' <=> Queued(x))
  <2>1. CASE pend' = pend BY <1>2, <2>1, Zenon DEF LifeInv, Functors, Queued
  <2>2. CASE pend' = Append(pend, "writeComplete")
    <3>1. "writeComplete" \in Owning \cup Raw /\ "writeComplete" \notin Single BY DEF Owning, Single
    <3> QED BY <1>2, <2>2, <3>1, QueuesPushed
  <2> QED BY <1>1, <2>1, <2>2
<1>6. Called' BY <1>1, <1>5 DEF LifeInv, Called
<1>7. StaysUp
  <2>1. ~Queued("established")' /\ ~Queued("destroyed")' BY <1>3, <1>5 DEF Up
  <2>2. run' = <<>> BY <1>2 DEF LifeInv, Functors
  <2> QED BY <1>1, <1>2, <1>3, <1>4, <1>5, <2>1, <2>2 DEF StaysUp, Up
<1> QED BY <1>3, <1>6, <1>7, UpLife

\* The user's other calls in the I/O thread.
LEMMA CallLife ==
  ASSUME DataInv, LifeInv, Shutdown \/ ForceClose \/ ForceCloseWithDelay \/ StartRead \/ StopRead
  PROVE  LifeInv'
<1>1. /\ UNCHANGED <<run, place, todo, cb, owner, ups, downs, aborted, userRef, contract, upc>>
      /\ LoopUserCode
  BY DEF Shutdown, ForceClose, ForceCloseWithDelay, StartRead, StopRead, FlowCall, LoopCall, Call,
         loopVars, counts
<1>2. CASE Shutdown
  <2>1. /\ state = "kConnected" /\ "shutdown" \in contract /\ state' = "kDisconnecting"
        /\ UNCHANGED <<reading, ch, pend, timer>>
    BY <1>2 DEF Shutdown, LoopCall, Call
  <2>2. Up BY <2>1 DEF LifeInv, Before, Down
  <2>3. "ownerDtor" \notin contract
    BY <2>1 DEF LifeInv, Disciplined, InLoopUse, OtherThreadUse
  <2>4. (\A x : Queued(x)' <=> Queued(x)) /\ QueuesOK(pend', run')
    BY <1>1, <2>1, Zenon DEF LifeInv, Functors, Queued
  <2>5. Called' BY <1>1, <2>1, <2>4 DEF LifeInv, Called
  <2>6. StaysUp BY <1>1, <2>1, <2>2, <2>3, <2>4 DEF StaysUp, Up, LifeInv, Functors, HandlersDue, Open
  <2> QED BY <2>2, <2>5, <2>6, UpLife
<1>3. CASE ForceClose
  <2>1. /\ state \in Open /\ "forceClose" \in contract /\ state' = "kDisconnecting"
        /\ pend' = Append(pend, "forceClose") /\ UNCHANGED <<reading, ch, timer>>
    BY <1>3 DEF ForceClose, LoopCall, Call
  <2>2. InLoopUse(contract) /\ "ownerDtor" \notin contract
    BY <2>1 DEF LifeInv, Disciplined, InLoopUse, OtherThreadUse, ForceCloses
  <2>3. Up BY <2>1, <2>2 DEF LifeInv, Before, Down, Open
  <2>4. "forceClose" \in Owning \cup Raw /\ "forceClose" \notin Single BY DEF Owning, Single
  <2>5. QueuesOK(pend', run') /\ \A x : Queued(x)' <=> Queued(x) \/ x = "forceClose"
    BY <1>1, <2>1, <2>4, QueuesPushed
  <2>6. contract \cap ForceCloses # {} BY <2>1 DEF ForceCloses
  <2>7. Called' BY <1>1, <2>1, <2>5, <2>6 DEF LifeInv, Called
  <2>8. StaysUp BY <1>1, <2>1, <2>2, <2>3, <2>5 DEF StaysUp, Up, LifeInv, Functors, HandlersDue, Open
  <2> QED BY <2>3, <2>7, <2>8, UpLife
<1>4. CASE ForceCloseWithDelay
  <2>1. /\ state \in Open /\ "forceCloseWithDelay" \in contract /\ state' = "kDisconnecting"
        /\ UNCHANGED <<reading, ch, pend>>
    BY <1>4 DEF ForceCloseWithDelay, LoopCall, Call
  <2>2. InLoopUse(contract) /\ "ownerDtor" \notin contract
    BY <2>1 DEF LifeInv, Disciplined, InLoopUse, OtherThreadUse, ForceCloses
  <2>3. Up BY <2>1, <2>2 DEF LifeInv, Before, Down, Open
  <2>4. (\A x : Queued(x)' <=> Queued(x)) /\ QueuesOK(pend', run')
    BY <1>1, <2>1, Zenon DEF LifeInv, Functors, Queued
  <2>5. contract \cap ForceCloses # {} BY <2>1 DEF ForceCloses
  <2>6. Called' BY <1>1, <2>1, <2>4, <2>5 DEF LifeInv, Called
  <2>7. StaysUp BY <1>1, <2>1, <2>2, <2>3, <2>4 DEF StaysUp, Up, LifeInv, Functors, HandlersDue, Open
  <2> QED BY <2>3, <2>6, <2>7, UpLife
<1>5. CASE StartRead \/ StopRead
  <2>1. /\ state \in Open /\ contract \cap {"startRead", "stopRead"} # {}
        /\ cb # "none" \/ todo = {}
        /\ UNCHANGED <<state, pend, timer>>
    BY <1>5 DEF StartRead, StopRead, FlowCall, LoopCall, Call
  <2>2. InLoopUse(contract) BY <2>1 DEF LifeInv, Disciplined, OtherThreadUse
  <2>3. Up BY <2>1, <2>2 DEF LifeInv, Before, Down, Open
  <2>4. (\A x : Queued(x)' <=> Queued(x)) /\ QueuesOK(pend', run')
    BY <1>1, <2>1, Zenon DEF LifeInv, Functors, Queued
  <2>5. Called' BY <1>1, <2>1, <2>4 DEF LifeInv, Called
  <2>6. "close" \notin todo /\ "read" \notin todo
    BY <2>1, DataTypes DEF LifeInv, HandlersDue, ControlType
  <2>7. "IN" \in Events /\ ch \in ChannelType /\ InUse(ch) BY <2>3, DataTypes DEF Events, Up
  <2>8. InUse(ch') /\ (reading' \/ "stopRead" \notin contract => "IN" \in ch'.events)
    <3>1. CASE StartRead
      <4>1. InUse(Enable(ch, "IN")) /\ "IN" \in Enable(ch, "IN").events BY <2>7, InUseOps
      <4>2. CASE reading /\ "IN" \in ch.events
        BY <2>7, <3>1, <4>2 DEF StartRead
      <4>3. CASE ~(reading /\ "IN" \in ch.events)
        BY <3>1, <4>1, <4>3 DEF StartRead
      <4> QED BY <4>2, <4>3
    <3>2. CASE StopRead
      <4>1. "IN" \in ch.events => InUse(Disable(ch, "IN")) BY <2>7, InUseOps
      <4>2. "stopRead" \in contract BY <3>2 DEF StopRead, FlowCall, LoopCall, Call
      <4>3. reading => "IN" \in ch.events BY <2>3 DEF Up
      <4>4. CASE reading \/ "IN" \in ch.events
        BY <3>2, <4>1, <4>2, <4>3, <4>4 DEF StopRead
      <4>5. CASE ~(reading \/ "IN" \in ch.events)
        BY <2>7, <3>2, <4>2, <4>5 DEF StopRead
      <4> QED BY <4>4, <4>5
    <3> QED BY <1>5, <3>1, <3>2
  <2>9. StaysUp BY <1>1, <2>1, <2>3, <2>4, <2>6, <2>8 DEF StaysUp, Up, LifeInv, Functors
  <2> QED BY <2>3, <2>5, <2>9, UpLife
<1> QED BY <1>2, <1>3, <1>4, <1>5

\* A step outside the loop of a connection that is not before its start.
OutsideKept ==
  /\ UNCHANGED <<reading, ch, run, place, todo, cb, owner, contract, ups, downs, aborted>>
  /\ QueuesOK(pend', run')
  /\ (Queued("established")' <=> Queued("established")) /\ (Queued("destroyed")' <=> Queued("destroyed"))

\* A step outside the loop, of a connection that was established, keeps the invariant.
LEMMA OutsideLife ==
  ASSUME LifeInv, ~Before, OutsideKept, state' = state, Called'
  PROVE  LifeInv'
<1>1. Up => Up' BY DEF Up, OutsideKept
<1>2. Down => Down'
  BY DEF Down, DownCallback, Removing, Destroying, DestroyCallback, Destroyed, OutsideKept
<1>3. Functors' /\ HandlersDue' BY <1>1 DEF LifeInv, Functors, HandlersDue, OutsideKept
<1> QED BY <1>1, <1>2, <1>3 DEF LifeInv, OutsideKept

\* The user thread.
LEMMA OtherLife ==
  ASSUME DataInv, LifeInv,
         \/ \E op \in {"sendOther", "shutdownOther", "forceCloseOther"} : OtherTest(op)
         \/ OtherSet \/ OtherQueue
  PROVE  LifeInv'
<1>1. UNCHANGED <<reading, ch, run, place, todo, cb, owner, contract, ups, downs, aborted, userRef, timer>>
  BY DEF OtherTest, OtherSet, OtherQueue, loopVars, counts
<1>2. QueuesOK(pend, run) BY DEF LifeInv, Functors
<1>3. CASE \E op \in {"sendOther", "shutdownOther", "forceCloseOther"} : OtherTest(op)
  <2>1. PICK op \in {"sendOther", "shutdownOther", "forceCloseOther"} : OtherTest(op) BY <1>3
  <2>2. /\ op \in contract /\ UNCHANGED <<state, pend>>
        /\ state = "kConnected" \/ op = "forceCloseOther"
        /\ op = "sendOther" => upc' = "queueSend"
        /\ op = "shutdownOther" => upc' = "setShutdown"
    BY <2>1 DEF OtherTest
  <2>3. op # "forceCloseOther"
    BY <2>2 DEF LifeInv, Disciplined, InLoopUse, OtherThreadUse
  <2>4. ~Before BY <2>2, <2>3 DEF Before
  <2>5. \A x : Queued(x)' <=> Queued(x) BY <1>1, <2>2, Zenon DEF Queued
  <2>6. OutsideKept BY <1>1, <1>2, <2>2, <2>5 DEF OutsideKept
  <2>7. Called' BY <1>1, <2>2, <2>3, <2>5 DEF LifeInv, Called
  <2> QED BY <2>2, <2>4, <2>6, <2>7, OutsideLife
<1>4. CASE OtherSet
  <2>1. /\ upc = "setShutdown" /\ upc' = "queueShutdown" /\ state' = "kDisconnecting" /\ pend' = pend
    BY <1>4 DEF OtherSet, LifeInv, Called
  <2>2. "shutdownOther" \in contract BY <2>1 DEF LifeInv, Called
  <2>3. ~InLoopUse(contract) /\ "ownerDtor" \notin contract
    BY <2>2 DEF LifeInv, Disciplined, InLoopUse, OtherThreadUse
  <2>4. \A x : Queued(x)' <=> Queued(x) BY <1>1, <2>1, Zenon DEF Queued
  <2>5. ~Before BY <2>1 DEF Before
  <2>6. Up => Up' BY <1>1, <2>1, <2>3, <2>4 DEF Up, Open
  <2>7. Down => Down'
    BY <1>1, <2>1, <2>3, <2>4 DEF Down, DownCallback, Removing, Destroying, DestroyCallback, Destroyed
  <2>8. Functors' /\ HandlersDue' BY <1>1, <1>2, <2>1, <2>6 DEF LifeInv, Functors, HandlersDue
  <2>9. Called' BY <1>1, <2>1, <2>2, <2>4 DEF LifeInv, Called
  <2> QED BY <1>1, <2>5, <2>6, <2>7, <2>8, <2>9 DEF LifeInv
<1>5. CASE OtherQueue
  <2>1. /\ upc \in {"queueSend", "queueShutdown", "queueForceClose"} /\ upc' = "idle" /\ state' = state
        /\ pend' = Append(pend, CASE upc = "queueSend" -> "send"
                                  [] upc = "queueShutdown" -> "shutdown"
                                  [] upc = "queueForceClose" -> "forceClose")
    BY <1>5 DEF OtherQueue
  <2>2. \E f \in {"send", "shutdown"} : pend' = Append(pend, f) /\ (f = "send" => upc = "queueSend")
    BY <2>1 DEF LifeInv, Called
  <2>3. PICK f \in {"send", "shutdown"} : pend' = Append(pend, f) /\ (f = "send" => upc = "queueSend")
    BY <2>2
  <2>4. f \in Owning \cup Raw /\ f \notin Single BY DEF Raw, Single
  <2>5. QueuesOK(pend', run') /\ \A x : Queued(x)' <=> Queued(x) \/ x = f
    BY <1>1, <2>3, <2>4, QueuesPushed
  <2>6. ~Before BY <2>1 DEF Before
  <2>7. OutsideKept
    <3>1. "established" # f /\ "destroyed" # f OBVIOUS
    <3> QED BY <1>1, <2>5, <3>1 DEF OutsideKept
  <2>8. Called'
    <3>1. "forceClose" # f OBVIOUS
    <3> QED BY <1>1, <2>1, <2>3, <2>5, <3>1 DEF LifeInv, Called
  <2> QED BY <2>1, <2>6, <2>7, <2>8, OutsideLife
<1> QED BY <1>3, <1>4, <1>5

\* The user lets go of the connection.
LEMMA DropLife ==
  ASSUME DataInv, LifeInv, DropRef
  PROVE  LifeInv'
<1>1. /\ "dropRef" \in contract /\ userRef' = FALSE
      /\ UNCHANGED <<state, reading, ch, pend, run, place, todo, cb, owner, upc, timer, contract, ups,
                     downs, aborted>>
  BY DEF DropRef, loopVars, counts
<1>2. (\A x : Queued(x)' <=> Queued(x)) /\ QueuesOK(pend', run')
  BY <1>1, Zenon DEF LifeInv, Functors, Queued
<1>3. Called' BY <1>1, <1>2 DEF LifeInv, Called
<1>4. CASE Before
  <2>1. Before' BY <1>1, <1>2, <1>4 DEF Before
  <2>2. Functors' /\ HandlersDue' BY <1>1, <1>2, <1>4 DEF LifeInv, Functors, HandlersDue, Before
  <2> QED BY <1>1, <1>3, <2>1, <2>2 DEF LifeInv
<1>5. CASE ~Before
  <2>1. OutsideKept BY <1>1, <1>2 DEF OutsideKept
  <2> QED BY <1>1, <1>3, <1>5, <2>1, OutsideLife
<1> QED BY <1>4, <1>5

\* removeConnectionInLoop in the owner's loop queues connectDestroyed.
LEMMA RemoveLife ==
  ASSUME DataInv, LifeInv, OwnerRemove
  PROVE  LifeInv'
<1>1. /\ owner = "removing" /\ owner' = "gone" /\ pend' = Append(pend, "destroyed")
      /\ UNCHANGED <<state, reading, ch, run, place, todo, cb, upc, userRef, timer, contract, ups,
                     downs, aborted>>
  BY DEF OwnerRemove, loopVars, user, counts
<1>2. Down /\ Removing
  BY <1>1 DEF LifeInv, Before, Up, Down, DownCallback, Removing, Destroying, DestroyCallback, Destroyed
<1>3. "destroyed" \in Owning \cup Raw /\ ~Queued("destroyed") BY <1>2 DEF Owning, Removing
<1>4. QueuesOK(pend', run') /\ \A x : Queued(x)' <=> Queued(x) \/ x = "destroyed"
  BY <1>1, <1>3, QueuesPushed
<1>5. Down' BY <1>1, <1>2, <1>4 DEF Down, Removing, Destroying
<1>6. Functors' /\ Called' BY <1>1, <1>4 DEF LifeInv, Functors, Called
<1>7. "close" \notin todo /\ "read" \notin todo BY <1>1 DEF LifeInv, HandlersDue, Up
<1>8. HandlersDue' BY <1>1, <1>7 DEF HandlersDue
<1> QED BY <1>1, <1>5, <1>6, <1>8 DEF LifeInv

\* The delayed forceClose finds the connection up, or does nothing.
LEMMA TimerLife ==
  ASSUME DataInv, LifeInv, TimerFires
  PROVE  LifeInv'
<1>1. /\ timer /\ timer' = FALSE
      /\ UNCHANGED <<reading, ch, run, place, todo, cb, owner, upc, userRef, contract, ups, downs, aborted>>
      /\ \/ state \in Open /\ state' = "kDisconnecting" /\ pend' = Append(pend, "forceClose")
         \/ state' = state /\ pend' = pend
  BY DEF TimerFires, loopVars, counts
<1>2. contract \cap ForceCloses # {} BY <1>1 DEF LifeInv, Called
<1>3. InLoopUse(contract) /\ "ownerDtor" \notin contract
  BY <1>2 DEF LifeInv, Disciplined, InLoopUse, OtherThreadUse, ForceCloses
<1>4. CASE state \in Open /\ state' = "kDisconnecting" /\ pend' = Append(pend, "forceClose")
  <2>1. Up BY <1>3, <1>4 DEF LifeInv, Before, Down, Open
  <2>2. "forceClose" \in Owning \cup Raw /\ "forceClose" \notin Single BY DEF Owning, Single
  <2>3. QueuesOK(pend', run') /\ \A x : Queued(x)' <=> Queued(x) \/ x = "forceClose"
    BY <1>1, <1>4, <2>2, QueuesPushed
  <2>4. Called' BY <1>1, <1>2, <2>3 DEF LifeInv, Called
  <2>5. StaysUp BY <1>1, <1>3, <1>4, <2>1, <2>3 DEF StaysUp, Up, LifeInv, Functors, HandlersDue, Open
  <2> QED BY <2>1, <2>4, <2>5, UpLife
<1>5. CASE state' = state /\ pend' = pend
  <2>1. (\A x : Queued(x)' <=> Queued(x)) /\ QueuesOK(pend', run')
    BY <1>1, <1>5, Zenon DEF LifeInv, Functors, Queued
  <2>2. Called' BY <1>1, <2>1 DEF LifeInv, Called
  <2>3. CASE Before
    <3>1. Before' BY <1>1, <1>5, <2>1, <2>3 DEF Before
    <3>2. Functors' /\ HandlersDue' BY <1>1, <2>1, <2>3 DEF LifeInv, Functors, HandlersDue, Before
    <3> QED BY <1>1, <2>2, <3>1, <3>2 DEF LifeInv
  <2>4. CASE ~Before
    <3>1. OutsideKept BY <1>1, <2>1 DEF OutsideKept
    <3> QED BY <1>5, <2>2, <2>4, <3>1, OutsideLife
  <2> QED BY <2>3, <2>4
<1> QED BY <1>1, <1>4, <1>5

\* The initial state.
LEMMA LifeInit == AllDisciplined /\ Init => LifeInv
<1> SUFFICES ASSUME AllDisciplined, Init PROVE LifeInv OBVIOUS
<1>1. Disciplined(contract) BY DEF AllDisciplined, Init
<1>2. /\ pend = <<"established">> /\ run = <<>> /\ place = "poll" BY DEF Init
<1>3. Range(pend) = {"established"} /\ Range(run) = {}
  <2>1. DOMAIN <<"established">> = 1..1 /\ <<"established">>[1] = "established" OBVIOUS
  <2>2. Range(<<"established">>) = {"established"} BY <2>1 DEF Range
  <2> QED BY <1>2, <2>2, RangeEmpty
<1>4. QueuesOK(pend, run)
  <2>1. "established" \in Owning \cup Raw BY DEF Owning
  <2>2. pend \in Seq(Owning \cup Raw) /\ run \in Seq(Owning \cup Raw) BY <1>2, <2>1
  <2>3. \A x : AtMostOnce(pend, x) /\ AtMostOnce(run, x) BY <1>2 DEF AtMostOnce
  <2> QED BY <1>3, <2>2, <2>3, Zenon DEF QueuesOK
<1>5. \A x : Queued(x) <=> x = "established" BY <1>3, Zenon DEF Queued, InQueues
<1>6. Before BY <1>5 DEF Init, Before
<1>7. Functors /\ Called BY <1>2, <1>4, <1>5 DEF Init, Functors, Called
<1>8. HandlersDue BY DEF Init, HandlersDue
<1>9. aborted = "no" BY DEF Init
<1> QED BY <1>1, <1>6, <1>7, <1>8, <1>9 DEF LifeInv

\* Every step keeps it.
LEMMA LifeStep == DataInv /\ LifeInv /\ [Next]_vars => LifeInv'
<1> SUFFICES ASSUME DataInv, LifeInv, [Next]_vars PROVE LifeInv' OBVIOUS
<1>1. CASE \E room \in BOOLEAN : Poll(room) BY <1>1, PollLife
<1>2. CASE LoopStep
  BY <1>2, MoveLife, QuietLife, ClosingLife, EstablishedLife, DestroyLife, ReturnLife, MessageLife,
     SendLife, WriteLife DEF LoopStep
<1>3. CASE UserCall BY <1>3, SendLife, CallLife, OtherLife, DropLife DEF UserCall
<1>4. CASE OtherStep BY <1>4, OtherLife DEF OtherStep
<1>5. CASE OwnerRemove \/ OwnerDtor \/ TimerFires \/ Peer
  BY <1>5, RemoveLife, DestroyLife, TimerLife, QuietLife
<1>6. CASE UNCHANGED vars
  <2>1. /\ UNCHANGED <<pend, run, place, todo>>
        /\ UNCHANGED <<state, reading, ch, cb, owner, contract, ups, downs, aborted, upc, userRef, timer>>
    BY <1>6 DEF vars
  <2>2. QueuesKept BY <2>1, QueuesStay
  <2>3. cb = "destroy" => place' \in {"others", "functors"}
    BY <2>1 DEF LifeInv, Before, Up, Down, DownCallback, Removing, Destroying, DestroyCallback, Destroyed
  <2> QED BY <2>1, <2>2, <2>3, KeptLife
<1> QED BY <1>1, <1>2, <1>3, <1>4, <1>5, <1>6 DEF Next

\* It holds of every behaviour of users that keep to the calls they may mix.
LEMMA LifeInvariance == ASSUME AllDisciplined PROVE Spec => []LifeInv
<1>1. Init => LifeInv BY LifeInit
<1>2. DataInv /\ LifeInv /\ [Next]_vars => LifeInv' BY LifeStep
<1> QED BY <1>1, <1>2, DataInvariance, PTL DEF Spec

\* No assertion fails (handleClose, connectEstablished, Channel::remove, removeConnectionInLoop) for
\* users that keep to the calls they may mix; CleanAssumption says that those of the runs do.
THEOREM NoAssertionFails == ASSUME AllDisciplined PROVE Spec => []AssertsHold
<1>1. LifeInv => AssertsHold BY DEF LifeInv, AssertsHold
<1> QED BY <1>1, LifeInvariance, PTL

\* UP once, then messages, then DOWN once, whoever of handleClose and connectDestroyed ends it.
THEOREM CallbacksInOrder == ASSUME AllDisciplined PROVE Spec => []Lifecycle
<1>1. LifeInv => Lifecycle
  BY DEF LifeInv, Lifecycle, Before, Up, Down, DownCallback, Removing, Destroying, DestroyCallback,
         Destroyed
<1> QED BY <1>1, LifeInvariance, PTL

\* The last shared_ptr goes only when the channel is out of the poller, which ~Channel asserts, and the
\* connection kDisconnected, which ~TCPConnection asserts, unless another thread's shutdown() stored
\* kDisconnecting after the connection had gone down.
THEOREM DestroyedClean == ASSUME AllDisciplined PROVE Spec => []CleanDestruction
<1>1. DataInv /\ LifeInv => CleanDestruction
  <2> SUFFICES ASSUME DataInv, LifeInv, ~Held
               PROVE  /\ ~ch.addedToLoop /\ ch.index = "kNew"
                      /\ state = "kDisconnected" \/ StoredLate
    BY DEF CleanDestruction
  <2>1. owner = "gone" /\ ~userRef /\ cb = "none" /\ Range(pend \o run) \cap Owning = {} BY DEF Held
  <2>2. Range(pend \o run) = Range(pend) \cup Range(run)
    BY DataTypes, RangeConcatenation DEF ControlType
  <2>3. ~Queued("destroyed") BY <2>1, <2>2 DEF Queued, InQueues, Owning
  <2>4. Down /\ Destroyed
    BY <2>1, <2>3 DEF LifeInv, Before, Up, Down, DownCallback, Removing, Destroying, DestroyCallback
  <2>5. ch = NewChannel /\ downs = 1 BY <2>4 DEF Down, Destroyed
  <2>6. CASE InLoopUse(contract) BY <2>4, <2>5, <2>6 DEF Down, NewChannel
  <2>7. CASE OtherThreadUse(contract) /\ ~InLoopUse(contract)
    <3>1. "shutdownOther" \in contract BY <2>7 DEF OtherThreadUse, InLoopUse, ForceCloses
    <3>2. state \in {"kDisconnected", "kDisconnecting"} BY <2>4 DEF Down
    <3> QED BY <2>5, <3>1, <3>2 DEF StoredLate, NewChannel
  <2> QED BY <2>6, <2>7 DEF LifeInv, Disciplined
<1> QED BY <1>1, DataInvariance, LifeInvariance, PTL
====
