---- MODULE TCPServerProofs ----
(***************************************************************************)
(* TCPServer for any number of descriptors, peers and threads: the type    *)
(* invariant, that every connection is held in exactly one place until it  *)
(* is destroyed, and that every descriptor is accounted for.               *)
(***************************************************************************)
EXTENDS TCPServer, SequenceTheorems, FiniteSetTheorems, TLAPS

----
(* Queues of functors as sequences: what a push and a pop do to the functors in them *)

\* The range of a queue after a push.
LEMMA RangeAppend ==
  ASSUME NEW S, NEW s \in Seq(S), NEW x \in S
  PROVE  Range(Append(s, x)) = Range(s) \cup {x}
<1>1. /\ DOMAIN s = 1..Len(s)
      /\ DOMAIN Append(s, x) = 1..(Len(s) + 1)
      /\ Append(s, x)[Len(s) + 1] = x
      /\ \A i \in 1..Len(s) : Append(s, x)[i] = s[i]
OBVIOUS
<1>2. Len(s) \in Nat
OBVIOUS
<1>3. \A i \in 1..(Len(s) + 1) : i \in 1..Len(s) \/ i = Len(s) + 1
  BY <1>2
<1>4. 1..Len(s) \subseteq 1..(Len(s) + 1) /\ Len(s) + 1 \in 1..(Len(s) + 1)
  BY <1>2
<1> QED BY <1>1, <1>3, <1>4, Zenon DEF Range

\* The range of an empty queue.
LEMMA RangeEmpty == Range(<<>>) = {}
<1>1. <<>> \in Seq({}) OBVIOUS
<1>2. Range(<<>>) \in SUBSET {} BY <1>1, RangeOfSeq, Zenon
<1> QED BY <1>2, Zenon

\* No element occurs twice.
Distinct(s) == \A i, j \in DOMAIN s : s[i] = s[j] => i = j

\* Popping the head of a sequence without repetitions.
LEMMA DistinctTail ==
  ASSUME NEW S, NEW s \in Seq(S), s # <<>>, Distinct(s)
  PROVE  Distinct(Tail(s)) /\ Range(Tail(s)) = Range(s) \ {Head(s)}
<1>1. /\ DOMAIN s = 1..Len(s) /\ Len(s) \in Nat /\ Len(s) >= 1
      /\ DOMAIN Tail(s) = 1..(Len(s) - 1)
      /\ Head(s) = s[1]
      /\ \A i \in 1..(Len(s) - 1) : Tail(s)[i] = s[i + 1]
  OBVIOUS
<1>2. \A i \in 1..(Len(s) - 1) : i + 1 \in 1..Len(s) /\ i + 1 # 1
  BY <1>1
<1>3. \A i \in 1..Len(s) : i = 1 \/ (i - 1 \in 1..(Len(s) - 1) /\ i = (i - 1) + 1)
  BY <1>1
<1>4. Distinct(Tail(s))
  BY <1>1, <1>2 DEF Distinct
<1>5. \A i \in DOMAIN Tail(s) : Tail(s)[i] \in Range(s) /\ Tail(s)[i] # Head(s)
  <2> TAKE i \in DOMAIN Tail(s)
  <2>1. i + 1 \in DOMAIN s /\ 1 \in DOMAIN s /\ i + 1 # 1 BY <1>1, <1>2
  <2>2. Tail(s)[i] = s[i + 1] BY <1>1
  <2> QED BY <1>1, <2>1, <2>2, Zenon DEF Distinct, Range
<1>6. \A i \in DOMAIN s : s[i] = Head(s) \/ s[i] \in Range(Tail(s))
  <2> TAKE i \in DOMAIN s
  <2>1. CASE i = 1 BY <1>1, <2>1
  <2>2. CASE i - 1 \in DOMAIN Tail(s)
    <3>1. s[i] = Tail(s)[i - 1] BY <1>1, <2>2
    <3> QED BY <2>2, <3>1, Zenon DEF Range
  <2> QED BY <1>1, <1>3, <2>1, <2>2
<1> QED BY <1>4, <1>5, <1>6, Zenon DEF Range

\* Pushing a new element on a sequence without repetitions.
LEMMA DistinctAppend ==
  ASSUME NEW S, NEW s \in Seq(S), NEW x \in S, Distinct(s), x \notin Range(s)
  PROVE  Distinct(Append(s, x))
<1>1. \A i \in DOMAIN Append(s, x) :
        \/ i \in DOMAIN s /\ Append(s, x)[i] = s[i]
        \/ i = Len(s) + 1 /\ Append(s, x)[i] = x
  OBVIOUS
<1>2. \A i \in DOMAIN s : s[i] # x BY Zenon DEF Range
<1> QED BY <1>1, <1>2, Zenon DEF Distinct

\* The same of a whole pop, and of a push, for a queue that stays a queue.
LEMMA Popped ==
  ASSUME NEW S, NEW s \in Seq(S), s # <<>>, Distinct(s)
  PROVE  /\ Tail(s) \in Seq(S) /\ Distinct(Tail(s))
         /\ Head(s) \in Range(s)
         /\ Range(Tail(s)) = Range(s) \ {Head(s)}
<1>1. 1 \in DOMAIN s /\ Head(s) = s[1] /\ Tail(s) \in Seq(S)
  OBVIOUS
<1>2. Head(s) \in Range(s)
  BY <1>1, Zenon DEF Range
<1> QED BY <1>1, <1>2, DistinctTail

\* A push of something new keeps a queue without repetitions.
LEMMA Pushed ==
  ASSUME NEW S, NEW s \in Seq(S), Distinct(s), NEW x \in S, x \notin Range(s)
  PROVE  Append(s, x) \in Seq(S) /\ Distinct(Append(s, x)) /\ Range(Append(s, x)) = Range(s) \cup {x}
BY RangeAppend, DistinctAppend, AppendProperties

\* The empty queue repeats nothing.
LEMMA EmptyDistinct == Distinct(<<>>)
BY DEF Distinct

----
(***************************************************************************)
(* The queues of the loops, as any function q of that type.                *)
(***************************************************************************)
F(fn, c) == [f |-> fn, conn |-> c]

Names == {"established", "remove", "destroyed"}

QueuesOK(q) ==
  /\ q \in [Loops -> Seq(Functor)]
  /\ \A l \in Loops : Distinct(q[l])

In(q, x) == \E l \in Loops : x \in Range(q[l])

\* The functor x enters the queue of l, or leaves it.
Enters(q, r, l, x) ==
  /\ \A m \in Loops : Range(r[m]) = Range(q[m]) \cup (IF m = l THEN {x} ELSE {})
  /\ \A y : In(r, y) <=> In(q, y) \/ y = x

Leaves(q, r, l, x) ==
  /\ \A m \in Loops : Range(r[m]) = Range(q[m]) \ (IF m = l THEN {x} ELSE {})
  /\ \A y : In(r, y) <=> In(q, y) /\ y # x

\* A push on one queue of a functor that is in none.
LEMMA PushOne ==
  ASSUME NEW q, QueuesOK(q), NEW l \in Loops, NEW x \in Functor, ~In(q, x),
         NEW r, r = [q EXCEPT ![l] = Append(@, x)]
  PROVE  QueuesOK(r) /\ Enters(q, r, l, x)
<1>1. /\ q \in [Loops -> Seq(Functor)] /\ q[l] \in Seq(Functor)
      /\ Distinct(q[l]) /\ x \notin Range(q[l])
      /\ \A m \in Loops : Distinct(q[m])
  BY Zenon DEF QueuesOK, In
<1>2. /\ Append(q[l], x) \in Seq(Functor) /\ Distinct(Append(q[l], x))
      /\ Range(Append(q[l], x)) = Range(q[l]) \cup {x}
  BY <1>1, Pushed, Zenon
<1>3. /\ r \in [Loops -> Seq(Functor)]
      /\ r[l] = Append(q[l], x)
      /\ \A m \in Loops : m # l => r[m] = q[m]
  BY <1>1, <1>2, Zenon
<1>4. QueuesOK(r)
  BY <1>1, <1>2, <1>3, Zenon DEF QueuesOK
<1>5. \A m \in Loops : Range(r[m]) = Range(q[m]) \cup (IF m = l THEN {x} ELSE {})
  <2> TAKE m \in Loops
  <2>1. CASE m = l BY <1>2, <1>3, <2>1, Zenon
  <2>2. CASE m # l
    <3>1. Range(r[m]) = Range(q[m]) BY <1>3, <2>2, Zenon
    <3> HIDE <1>3
    <3> QED BY <2>2, <3>1, Zenon
  <2> QED BY <2>1, <2>2
<1>6. \A y : In(r, y) <=> In(q, y) \/ y = x
  BY <1>5, Zenon DEF In
<1> QED BY <1>4, <1>5, <1>6 DEF Enters

\* A pop from one queue of a functor that is in no other.
LEMMA PopOne ==
  ASSUME NEW q, QueuesOK(q), NEW l \in Loops, q[l] # <<>>,
         \A m \in Loops : Head(q[l]) \in Range(q[m]) => m = l,
         NEW r, r = [q EXCEPT ![l] = Tail(@)]
  PROVE  QueuesOK(r) /\ In(q, Head(q[l])) /\ Leaves(q, r, l, Head(q[l]))
<1>1. /\ q \in [Loops -> Seq(Functor)] /\ q[l] \in Seq(Functor)
      /\ Distinct(q[l])
      /\ \A m \in Loops : Distinct(q[m])
  BY Zenon DEF QueuesOK
<1>2. /\ Tail(q[l]) \in Seq(Functor) /\ Distinct(Tail(q[l]))
      /\ Head(q[l]) \in Range(q[l])
      /\ Range(Tail(q[l])) = Range(q[l]) \ {Head(q[l])}
  BY <1>1, Popped, Zenon
<1>3. /\ r \in [Loops -> Seq(Functor)]
      /\ r[l] = Tail(q[l])
      /\ \A m \in Loops : m # l => r[m] = q[m]
  BY <1>1, <1>2, Zenon
<1>4. QueuesOK(r)
  BY <1>1, <1>2, <1>3, Zenon DEF QueuesOK
<1>5. \A m \in Loops : Range(r[m]) = Range(q[m]) \ (IF m = l THEN {Head(q[l])} ELSE {})
  <2> TAKE m \in Loops
  <2>1. CASE m = l BY <1>2, <1>3, <2>1, Zenon
  <2>2. CASE m # l
    <3>1. Range(r[m]) = Range(q[m]) BY <1>3, <2>2, Zenon
    <3> HIDE <1>3
    <3> QED BY <2>2, <3>1, Zenon
  <2> QED BY <2>1, <2>2
<1>6. In(q, Head(q[l]))
  BY <1>2, Zenon DEF In
<1>7. \A y : In(r, y) <=> In(q, y) /\ y # Head(q[l])
  BY <1>5, Zenon DEF In
<1> QED BY <1>4, <1>5, <1>6, <1>7 DEF Leaves

----
(***************************************************************************)
(* The inductive invariant.  HeldOnce and FdsAccounted need where every    *)
(* functor waits, which states it can find its connection in, and what     *)
(* handleRead() holds at each of its steps.                                *)
(***************************************************************************)

\* removeConnection() goes to the server's loop, the other two to the connection's.
Home(x) == IF x.f = "remove" THEN 0 ELSE loopOf[x.conn]

\* Every functor is in the queue of the loop that it is for.
AtHome(q) == \A l \in Loops : \A x \in Range(q[l]) : l = Home(x)

Queues == QueuesOK(queue) /\ AtHome(queue)

\* Connections are numbered in the order of accept(), and given to loops of the pool.
Numbers ==
  /\ nextConnId - 1 + backlog <= peers
  /\ \A c \in Conns : (state[c] = "none" <=> c >= nextConnId) /\ loopOf[c] <= numThreads

\* What state_, the map and the three functors of a connection say of one another.
Place(c) ==
  /\ c \in connections => state[c] \in {"kConnecting", "kConnected", "kDisconnected"}
  /\ state[c] \in {"kConnecting", "kConnected"} => c \in connections
  /\ state[c] = "kDisconnected" /\ c \notin connections => In(queue, F("destroyed", c))
  /\ state[c] = "kConnecting" <=> In(queue, F("established", c))
  /\ In(queue, F("established", c)) => loopOf[c] # 0
  /\ In(queue, F("remove", c)) => c \in connections /\ state[c] = "kDisconnected" /\ loopOf[c] # 0
  /\ In(queue, F("destroyed", c)) => c \notin connections /\ state[c] = "kDisconnected"

Places == aborted = "no" /\ \A c \in Conns : Place(c)

\* The listening socket, and the spare descriptor at each step of handleRead().
Listening ==
  /\ ~started => ~listenning
  /\ ~alive => ~listenning /\ spare = "rest" /\ connections = {}
  /\ spare \in {"rest", "give"} => idleFd # "peer"
  /\ spare \in {"accept", "open"} => idleFd = "closed"
  /\ spare = "close" => idleFd # "/dev/null"
  /\ alive /\ ~raced =>
       /\ spare \in {"rest", "give"} => idleFd = "/dev/null"
       /\ spare \in {"accept", "open"} => free >= 1
       /\ spare = "close" => idleFd = "peer" \/ free >= 1

\* free counts what no other variable holds.
Counted == free + others + Cardinality(LiveConns) + Bool(idleFd # "closed") = MaxFds

Inductive == TypeOK /\ Queues /\ Numbers /\ Places /\ Listening /\ Counted

----
(* The number of connections that are not destroyed, and its changes. *)

\* Connections are named after descriptors, so there are finitely many.
LEMMA LiveFinite ==
  IsFiniteSet(LiveConns) /\ Cardinality(LiveConns) \in Nat /\ LiveConns \subseteq Conns
<1>1. IsFiniteSet(Conns)
  BY FdsAssumption, FS_Interval DEF Conns
<1>2. LiveConns \subseteq Conns
  BY DEF LiveConns
<1> QED BY <1>1, <1>2, FS_Subset, FS_CardinalityType

\* accept() makes one, the last functor that holds one destroys it.
LEMMA LiveSteps ==
  ASSUME NEW c
  PROVE  /\ c \notin LiveConns => Cardinality(LiveConns \cup {c}) = Cardinality(LiveConns) + 1
         /\ c \in LiveConns => Cardinality(LiveConns \ {c}) = Cardinality(LiveConns) - 1
BY LiveFinite, FS_AddElement, FS_RemoveElement

\* The server destroys those that it still holds.
LEMMA LiveDestroyed ==
  ASSUME NEW S, S \subseteq LiveConns
  PROVE  /\ Cardinality(LiveConns \ S) = Cardinality(LiveConns) - Cardinality(S)
         /\ Cardinality(S) \in Nat /\ Cardinality(LiveConns \ S) \in Nat
<1>1. IsFiniteSet(S) /\ IsFiniteSet(LiveConns \ S)
  BY LiveFinite, FS_Subset
<1>2. (LiveConns \ S) \cup S = LiveConns /\ (LiveConns \ S) \cap S = {}
  OBVIOUS
<1>3. Cardinality(LiveConns \ S) \in Nat /\ Cardinality(S) \in Nat
  BY <1>1, FS_CardinalityType
<1>4. Cardinality(LiveConns) = Cardinality(LiveConns \ S) + Cardinality(S) - Cardinality({})
  BY <1>1, <1>2, FS_Union
<1> QED BY <1>3, <1>4, FS_EmptySet, LiveFinite

----
(* The steps of the invariant *)

\* A server that has not started: no connection, no functor, no descriptor in use.
LEMMA InductiveInit == Init => Inductive
<1> SUFFICES ASSUME Init PROVE Inductive
  OBVIOUS
<1> USE DEF Init, AcceptorInit
<1>1. /\ Conns \subseteq Nat /\ 0 \in Loops /\ Loops \subseteq Nat
      /\ 1 \in 1..MaxPeers + 1 /\ 0 \in 0..MaxPeers /\ 0 \in 0..MaxFds /\ MaxFds - 1 \in 0..MaxFds
      /\ 0..MaxThreads \subseteq Nat /\ \A n \in 0..MaxThreads : n <= MaxThreads
      /\ MaxFds \in Nat
  BY FdsAssumption, ThreadsAssumption DEF Conns, Loops
<1>2. QueuesOK(queue) /\ \A l \in Loops : Range(queue[l]) = {}
  <2>1. <<>> \in Seq(Functor) OBVIOUS
  <2> QED BY <2>1, EmptyDistinct, RangeEmpty, Zenon DEF QueuesOK
<1>3. TypeOK
  BY <1>1, <1>2 DEF TypeOK, AcceptorTypeOK, PoolTypeOK, QueuesOK
<1>4. Queues BY <1>2 DEF Queues, AtHome
<1>5. Numbers
  <2>1. \A c \in Conns : c >= 1 BY DEF Conns
  <2> QED BY <1>1, <2>1 DEF Numbers
<1>6. Places
  <2>1. \A x : ~In(queue, x) BY <1>2, Zenon DEF In
  <2> QED BY <2>1 DEF Places, Place
<1>7. Listening BY DEF Listening
<1>8. Counted
  <2>1. LiveConns = {} BY DEF LiveConns
  <2>2. Cardinality(LiveConns) = 0 BY <2>1, FS_EmptySet
  <2> QED BY <1>1, <2>2 DEF Counted, Bool
<1> QED BY <1>3, <1>4, <1>5, <1>6, <1>7, <1>8 DEF Inductive

\* The types that a step of the acceptor or of the environment leaves alone.
ConnTypes ==
  /\ PoolTypeOK /\ numThreads <= MaxThreads
  /\ connections \subseteq Conns
  /\ nextConnId \in 1..MaxPeers + 1
  /\ state \in [Conns -> {"none", "kConnecting", "kConnected", "kDisconnected", "destroyed"}]
  /\ loopOf \in [Conns -> Loops]
  /\ queue \in [Loops -> Seq(Functor)]

\* A step of the acceptor, a peer or another user of descriptors leaves the connections alone.
LEMMA SameConnections ==
  ASSUME Inductive, UNCHANGED <<pool, connections, nextConnId, state, loopOf, queue, aborted>>
  PROVE  Queues' /\ Places' /\ ConnTypes' /\ LiveConns' = LiveConns
<1> USE DEF Inductive, pool
<1>1. Queues' BY DEF Queues, QueuesOK, AtHome, Home
<1>2. Places' BY DEF Places, Place, In
<1>3. ConnTypes' BY DEF TypeOK, ConnTypes, PoolTypeOK
<1>4. LiveConns' = LiveConns BY DEF LiveConns
<1> QED BY <1>1, <1>2, <1>3, <1>4

\* The types that follow from the count of descriptors.
LEMMA InLimits ==
  ASSUME NEW f \in Nat, NEW o \in Nat, NEW k \in Nat, NEW b \in {0, 1}, f + o + k + b = MaxFds
  PROVE  f \in 0..MaxFds /\ o \in 0..MaxFds
BY FdsAssumption

\* Steps of the acceptor, of peers and of other threads, which touch no connection.
LEMMA AcceptorStep ==
  ASSUME Inductive, Start \/ HandleAborted \/ HandleEmfile \/ Environment
  PROVE  Inductive'
<1> USE DEF Inductive, acceptor, kernel
<1>1. UNCHANGED <<pool, connections, nextConnId, state, loopOf, queue, aborted>>
  BY DEF Start, Assert, HandleAborted, HandleEmfile, Environment, Places, Listening
<1>2. Queues' /\ Places' /\ ConnTypes' /\ LiveConns' = LiveConns
  BY <1>1, SameConnections
<1>3. Cardinality(LiveConns) \in Nat
  BY LiveFinite
<1>4. DEFINE k == Cardinality(LiveConns)
<1>5. /\ free \in Nat /\ others \in Nat /\ backlog \in 0..MaxPeers /\ peers \in 0..MaxPeers
      /\ MaxFds \in Nat /\ MaxPeers \in Nat /\ nextConnId \in 1..MaxPeers + 1
      /\ nextConnId - 1 + backlog <= peers
      /\ free + others + k + Bool(idleFd # "closed") = MaxFds
      /\ k \in Nat
  BY <1>3, FdsAssumption DEF TypeOK, AcceptorTypeOK, Numbers, Counted
<1>6. /\ listenning \in BOOLEAN /\ raced \in BOOLEAN
      /\ idleFd \in {"/dev/null", "peer", "closed"}
      /\ spare \in {"rest", "give", "accept", "close", "open"}
      /\ {started, alive} \subseteq BOOLEAN
  BY DEF TypeOK, AcceptorTypeOK
<1> HIDE DEF k, Inductive
<1> USE DEF Bool
\* What each of the steps does to the counts and to the spare descriptor.
<1>10. /\ free' \in Nat /\ others' \in Nat
       /\ free' + others' + k + Bool((idleFd # "closed")') = MaxFds
       /\ backlog' \in 0..MaxPeers /\ peers' \in 0..MaxPeers
       /\ nextConnId - 1 + backlog' <= peers'
       /\ listenning' \in BOOLEAN /\ raced' \in BOOLEAN
       /\ idleFd' \in {"/dev/null", "peer", "closed"}
       /\ spare' \in {"rest", "give", "accept", "close", "open"}
       /\ {started', alive'} \subseteq BOOLEAN
       /\ Listening'
  <2>1. CASE Start
    BY <1>5, <1>6, <2>1 DEF Start, Listen, Listening, Inductive
  <2>2. CASE HandleAborted
    BY <1>5, <1>6, <2>2 DEF HandleAborted, AcceptAborted, Readable, Listening, Inductive
  <2>3. CASE HandleEmfile
    <3>1. CASE AcceptEmfile
      BY <1>5, <1>6, <2>3, <3>1 DEF HandleEmfile, AcceptEmfile, Readable, Listening, Inductive
    <3>2. CASE CloseIdleFd
      BY <1>5, <1>6, <2>3, <3>2 DEF HandleEmfile, CloseIdleFd, Listening, Inductive
    <3>3. CASE AcceptToIdleFd
      BY <1>5, <1>6, <2>3, <3>3 DEF HandleEmfile, AcceptToIdleFd, Listening, Inductive
    <3>4. CASE OpenIdleFd
      BY <1>5, <1>6, <2>3, <3>4 DEF HandleEmfile, OpenIdleFd, Listening, Inductive
    <3> QED BY <2>3, <3>1, <3>2, <3>3, <3>4 DEF HandleEmfile, HandleReadRest
  <2>4. CASE Environment
    <3>1. CASE PeerConnects
      BY <1>5, <1>6, <2>4, <3>1 DEF Environment, PeerConnects, Listening, Inductive
    <3>2. CASE OtherOpens
      BY <1>5, <1>6, <2>4, <3>2 DEF Environment, OtherOpens, Listening, Inductive
    <3>3. CASE OtherCloses
      BY <1>5, <1>6, <2>4, <3>3 DEF Environment, OtherCloses, Listening, Inductive
    <3> QED BY <2>4, <3>1, <3>2, <3>3 DEF Environment
  <2> QED BY <2>1, <2>2, <2>3, <2>4
<1>11. free' \in 0..MaxFds /\ others' \in 0..MaxFds
  BY <1>5, <1>10, InLimits
<1>12. TypeOK'
  BY <1>2, <1>10, <1>11 DEF TypeOK, AcceptorTypeOK, ConnTypes, Listening
<1>13. Counted'
  BY <1>2, <1>10 DEF Counted, k
<1>14. Numbers'
  BY <1>1, <1>10 DEF Numbers, Inductive, pool
<1> QED BY <1>2, <1>10, <1>12, <1>13, <1>14 DEF Inductive

\* What the invariant says of a connection that does not exist yet.
LEMMA NewOne ==
  ASSUME Inductive, backlog > 0
  PROVE  /\ nextConnId \in Conns /\ nextConnId + 1 \in 1..MaxPeers + 1
         /\ state[nextConnId] = "none" /\ nextConnId \notin connections
         /\ nextConnId \notin LiveConns
         /\ \A fn \in Names : ~In(queue, F(fn, nextConnId))
         /\ NextLoop \in Loops /\ NextLoop <= numThreads
<1> USE DEF Inductive
<1>1. nextConnId \in Conns /\ nextConnId + 1 \in 1..MaxPeers + 1
  BY FdsAssumption DEF TypeOK, AcceptorTypeOK, Numbers, Conns
<1>2. state[nextConnId] = "none"
  BY <1>1 DEF Numbers, Conns
<1>3. Place(nextConnId)
  BY <1>1 DEF Places
<1>4. NextLoop \in Loops /\ NextLoop <= numThreads
  BY ThreadsAssumption DEF NextLoop, TypeOK, PoolTypeOK, Loops
<1> QED BY <1>1, <1>2, <1>3, <1>4 DEF Place, Names, LiveConns

\* accept() succeeds and newConnection() hands the connection out.
LEMMA AcceptStep ==
  ASSUME Inductive, HandleAccept
  PROVE  Inductive'
<1> DEFINE c == nextConnId
           l == NextLoop
           x == F("established", c)
<1>1. /\ spare = "rest" /\ listenning /\ backlog > 0 /\ free > 0
      /\ backlog' = backlog - 1 /\ free' = free - 1
      /\ nextConnId' = c + 1
      /\ connections' = connections \cup {c}
      /\ loopOf' = [loopOf EXCEPT ![c] = l]
      /\ state' = [state EXCEPT ![c] = IF l = 0 THEN "kConnected" ELSE "kConnecting"]
      /\ queue' = IF l = 0 THEN queue ELSE [queue EXCEPT ![l] = Append(@, x)]
      /\ next' = IF next + 1 >= numThreads THEN 0 ELSE next + 1
      /\ UNCHANGED <<listenning, idleFd, spare, peers, others, raced, numThreads, started, alive, aborted>>
  BY DEF HandleAccept, Accept, Readable, NewConnection, Advance, QueueInLoop, acceptor, F
<1>2. /\ c \in Conns /\ c + 1 \in 1..MaxPeers + 1
      /\ state[c] = "none" /\ c \notin connections /\ c \notin LiveConns
      /\ \A fn \in Names : ~In(queue, F(fn, c))
      /\ l \in Loops /\ l <= numThreads
  BY <1>1, NewOne
<1>3. alive
  BY <1>1 DEF Inductive, Listening
<1> HIDE DEF c, l
<1>4. /\ x \in Functor /\ x.f = "established" /\ x.conn = c
      /\ \A fn, d : F(fn, d) = x <=> fn = "established" /\ d = c
  BY <1>2 DEF F, Functor
<1>5. QueuesOK(queue) /\ ~In(queue, x)
  BY <1>2 DEF Inductive, Queues, Names
<1>6. /\ QueuesOK(queue')
      /\ \A m \in Loops : Range(queue'[m]) = Range(queue[m]) \cup (IF m = l /\ l # 0 THEN {x} ELSE {})
      /\ \A y : In(queue', y) <=> In(queue, y) \/ (y = x /\ l # 0)
  <2>1. CASE l = 0 BY <1>1, <1>5, <2>1
  <2>2. CASE l # 0
    <3>1. queue' = [queue EXCEPT ![l] = Append(@, x)] BY <1>1, <2>2
    <3>2. QueuesOK(queue') /\ Enters(queue, queue', l, x)
      <4>1. x \in Functor /\ l \in Loops /\ QueuesOK(queue) /\ ~In(queue, x)
        BY <1>2, <1>4, <1>5
      <4> HIDE DEF x
      <4> QED BY <3>1, <4>1, PushOne
    <3> HIDE DEF x
    <3> QED BY <2>2, <3>2 DEF Enters
  <2> QED BY <2>1, <2>2
<1> HIDE DEF x
<1>7. \A d \in Conns :
        /\ loopOf'[d] = IF d = c THEN l ELSE loopOf[d]
        /\ state'[d] = IF d # c THEN state[d] ELSE IF l = 0 THEN "kConnected" ELSE "kConnecting"
  BY <1>1, <1>2 DEF Inductive, TypeOK
<1>8. Queues'
  <2>1. ASSUME NEW m \in Loops, NEW y \in Range(queue'[m]) PROVE m = Home(y)'
    <3>1. CASE y = x /\ m = l /\ l # 0
      BY <1>2, <1>4, <1>7, <3>1 DEF Home
    <3>2. CASE y \in Range(queue[m])
      <4>1. m = Home(y) BY <3>2 DEF Inductive, Queues, AtHome
      <4>2. y \in Functor
        <5>1. queue[m] \in Seq(Functor) BY DEF Inductive, TypeOK
        <5> QED BY <3>2, <5>1, RangeOfSeq
      <4>3. y.conn # c
        <5>1. In(queue, y) BY <3>2 DEF In
        <5>2. y.f \in Names /\ y.conn \in Conns /\ y = F(y.f, y.conn)
          BY <4>2 DEF Functor, Names, F
        <5> QED BY <1>2, <5>1, <5>2
      <4>4. y.conn \in Conns BY <4>2 DEF Functor
      <4> QED BY <1>7, <4>1, <4>3, <4>4 DEF Home
    <3> QED BY <1>6, <2>1, <3>1, <3>2
  <2> QED BY <1>6, <2>1 DEF Queues, AtHome
<1>9. Numbers'
  <2>1. c \in Nat /\ backlog \in Nat /\ peers \in Nat /\ Conns \subseteq Nat /\ c - 1 + backlog <= peers
    BY <1>2 DEF Inductive, TypeOK, AcceptorTypeOK, Numbers, Conns, c
  <2>2. nextConnId' - 1 + backlog' <= peers'
    BY <1>1, <2>1
  <2>3. ASSUME NEW d \in Conns
        PROVE  (state[d]' = "none" <=> d >= nextConnId') /\ loopOf[d]' <= numThreads'
    <3>1. d \in Nat /\ (state[d] = "none" <=> d >= c) /\ loopOf[d] <= numThreads
      BY <2>1 DEF Inductive, Numbers, c
    <3>2. d # c => (d >= c <=> d >= c + 1)
      BY <2>1, <3>1
    <3>3. CASE d = c BY <1>1, <1>2, <1>7, <2>1, <3>3
    <3>4. CASE d # c BY <1>1, <1>7, <3>1, <3>2, <3>4
    <3> QED BY <3>3, <3>4
  <2> QED BY <2>2, <2>3 DEF Numbers
<1>10. Places'
  <2>1. ASSUME NEW d \in Conns, d # c PROVE Place(d)'
    <3>1. \A fn \in Names : In(queue', F(fn, d)) <=> In(queue, F(fn, d))
      BY <1>4, <1>6, <2>1
    <3>2. state'[d] = state[d] /\ loopOf'[d] = loopOf[d] /\ (d \in connections' <=> d \in connections)
      BY <1>1, <1>7, <2>1
    <3>3. Place(d) BY DEF Inductive, Places
    <3> QED BY <3>1, <3>2, <3>3 DEF Place, Names
  <2>2. ASSUME NEW d \in Conns, d = c PROVE Place(d)'
    <3>1. \A fn \in Names : In(queue', F(fn, d)) <=> fn = "established" /\ l # 0
      BY <1>2, <1>4, <1>6, <2>2
    <3>2. d \in connections' /\ loopOf'[d] = l
      BY <1>1, <1>2, <1>7, <2>2
    <3>3. state'[d] = IF l = 0 THEN "kConnected" ELSE "kConnecting"
      BY <1>2, <1>7, <2>2
    <3> QED BY <3>1, <3>2, <3>3 DEF Place, Names
  <2> QED BY <1>1, <2>1, <2>2 DEF Inductive, Places
<1>11. Listening'
  BY <1>1, <1>3 DEF Inductive, Listening
<1>12. Counted' /\ free' \in 0..MaxFds
  <2>1. LiveConns' = LiveConns \cup {c}
    BY <1>2, <1>7 DEF LiveConns
  <2>2. Cardinality(LiveConns') = Cardinality(LiveConns) + 1 /\ Cardinality(LiveConns) \in Nat
    BY <1>2, <2>1, LiveSteps, LiveFinite
  <2> QED
    BY <1>1, <2>2, FdsAssumption DEF Inductive, Counted, Bool, TypeOK, AcceptorTypeOK
<1>13. TypeOK'
  <2>1. /\ connections' \subseteq Conns /\ nextConnId' \in 1..MaxPeers + 1
        /\ state' \in [Conns -> {"none", "kConnecting", "kConnected", "kDisconnected", "destroyed"}]
        /\ loopOf' \in [Conns -> Loops]
    BY <1>1, <1>2 DEF Inductive, TypeOK
  <2>2. queue' \in [Loops -> Seq(Functor)]
    BY <1>6 DEF QueuesOK
  <2>3. PoolTypeOK' /\ numThreads' <= MaxThreads
    BY <1>1 DEF Inductive, TypeOK, PoolTypeOK
  <2>4. AcceptorTypeOK'
    BY <1>1, <1>12, FdsAssumption DEF Inductive, TypeOK, AcceptorTypeOK
  <2> QED BY <1>1, <2>1, <2>2, <2>3, <2>4 DEF Inductive, TypeOK
<1> QED BY <1>8, <1>9, <1>10, <1>11, <1>12, <1>13 DEF Inductive

----
(* The functors of a connection, pushed and popped *)

\* A functor is known by its name and its connection, and has one loop to go to.
LEMMA FunctorOf ==
  ASSUME NEW fn \in Names, NEW c \in Conns
  PROVE  /\ F(fn, c) \in Functor
         /\ Home(F(fn, c)) = IF fn = "remove" THEN 0 ELSE loopOf[c]
         /\ \A gn, d : F(gn, d) = F(fn, c) <=> gn = fn /\ d = c
BY DEF Names, F, Functor, Home

\* queueInLoop of a functor that is in no queue keeps every functor in its own loop, once.
LEMMA PushHome ==
  ASSUME NEW q, QueuesOK(q), AtHome(q), NEW x \in Functor, Home(x) \in Loops, ~In(q, x),
         NEW r, r = [q EXCEPT ![Home(x)] = Append(@, x)]
  PROVE  QueuesOK(r) /\ AtHome(r) /\ Enters(q, r, Home(x), x)
<1>1. QueuesOK(r) /\ Enters(q, r, Home(x), x)
  BY PushOne
<1>2. AtHome(r)
  BY <1>1, Zenon DEF AtHome, Enters
<1> QED BY <1>1, <1>2

\* doPendingFunctors calls a functor in the one loop that has it, and it is in no queue afterwards.
LEMMA PopHome ==
  ASSUME NEW q, QueuesOK(q), AtHome(q), NEW l \in Loops, NEW x, q[l] # <<>>, Head(q[l]) = x,
         NEW r, r = [q EXCEPT ![l] = Tail(@)]
  PROVE  QueuesOK(r) /\ AtHome(r) /\ Leaves(q, r, l, x) /\ In(q, x) /\ l = Home(x)
<1>1. q[l] \in Seq(Functor) /\ Distinct(q[l])
  BY Zenon DEF QueuesOK
<1>2. x \in Range(q[l])
  BY <1>1, Popped, Zenon
<1>3. l = Home(x) /\ \A m \in Loops : x \in Range(q[m]) => m = l
  BY <1>2, Zenon DEF AtHome
<1>4. QueuesOK(r) /\ In(q, x) /\ Leaves(q, r, l, x)
  BY <1>3, PopOne
<1>5. AtHome(r)
  BY <1>4, Zenon DEF AtHome, Leaves
<1> QED BY <1>3, <1>4, <1>5

\* The rest of the invariant, of a step that moves a connection on and leaves the acceptor alone.
LEMMA ConnectionFrame ==
  ASSUME Inductive, QueuesOK(queue'), AtHome(queue'), Places', Counted', Cardinality(LiveConns') \in Nat,
         UNCHANGED <<acceptor, backlog, peers, others, raced, pool, started, alive, nextConnId, loopOf>>,
         connections' \subseteq connections,
         state' \in [Conns -> {"none", "kConnecting", "kConnected", "kDisconnected", "destroyed"}],
         \A c \in Conns : state'[c] = "none" <=> state[c] = "none",
         free' \in Nat, free' >= free
  PROVE  Inductive'
<1> USE DEF Inductive, acceptor, pool
<1>1. Queues'
  BY DEF Queues, AtHome, Home
<1>2. Numbers'
  BY DEF Numbers
<1>3. Listening'
  BY DEF Listening, TypeOK, AcceptorTypeOK
<1>4. free' \in 0..MaxFds
  BY FdsAssumption DEF Counted, Bool, TypeOK, AcceptorTypeOK
<1>5. TypeOK'
  BY <1>4 DEF TypeOK, AcceptorTypeOK, PoolTypeOK, QueuesOK
<1> QED BY <1>1, <1>2, <1>3, <1>5

\* A step that is about connection c only.
Only(c) ==
  \A d \in Conns \ {c} :
    /\ state'[d] = state[d]
    /\ d \in connections' <=> d \in connections
    /\ \A fn \in Names : In(queue', F(fn, d)) <=> In(queue, F(fn, d))

\* A step on one connection leaves all others where they are.
LEMMA OnlyPlaces ==
  ASSUME Inductive, NEW c \in Conns, Only(c), Place(c)', loopOf' = loopOf, aborted' = "no"
  PROVE  Places'
<1>1. ASSUME NEW d \in Conns, d # c PROVE Place(d)'
  <2>1. Place(d) BY DEF Inductive, Places
  <2> QED BY <1>1, <2>1 DEF Only, Place, Names
<1> QED BY <1>1 DEF Places

\* The connection goes down in its loop.
LEMMA CloseStep ==
  ASSUME Inductive, NEW c \in Conns, Close(c)
  PROVE  Inductive'
<1> DEFINE fn == IF loopOf[c] = 0 THEN "destroyed" ELSE "remove"
           x == F(fn, c)
<1>1. Place(c) /\ QueuesOK(queue) /\ AtHome(queue) /\ aborted = "no"
  BY DEF Inductive, Places, Queues
<1>2. /\ state[c] = "kConnected" /\ c \in connections
      /\ state' = [state EXCEPT ![c] = "kDisconnected"]
      /\ \A gn \in Names : ~In(queue, F(gn, c))
  BY <1>1 DEF Close, Place, Names
<1>3. /\ UNCHANGED <<acceptor, kernel, pool, started, alive, nextConnId, loopOf>>
      /\ aborted' = "no"
      /\ connections' = IF loopOf[c] = 0 THEN connections \ {c} ELSE connections
  BY <1>1, <1>2 DEF Close, RemoveConnectionInLoop, Assert
<1>4. /\ x \in Functor /\ Home(x) = 0 /\ Home(x) \in Loops /\ fn \in Names
      /\ \A gn, d : F(gn, d) = x <=> gn = fn /\ d = c
  <2>1. fn \in Names BY DEF Names
  <2> HIDE DEF fn
  <2>2. Home(x) = 0 BY <2>1, FunctorOf DEF fn
  <2>3. 0 \in Loops BY ThreadsAssumption DEF Loops
  <2> QED BY <2>1, <2>2, <2>3, FunctorOf
<1>5. queue' = [queue EXCEPT ![Home(x)] = Append(@, x)]
  BY <1>4 DEF Close, QueueInLoop, F
<1>6. QueuesOK(queue') /\ AtHome(queue') /\ Enters(queue, queue', Home(x), x)
  <2>1. ~In(queue, x) BY <1>2, <1>4
  <2> HIDE DEF x
  <2> QED BY <1>1, <1>4, <1>5, <2>1, PushHome
<1>7. \A gn, d : In(queue', F(gn, d)) <=> In(queue, F(gn, d)) \/ (gn = fn /\ d = c)
  <2> HIDE DEF x
  <2> QED BY <1>4, <1>6 DEF Enters
<1>8. \A d \in Conns : state'[d] = IF d = c THEN "kDisconnected" ELSE state[d]
  BY <1>2 DEF Inductive, TypeOK
<1>9. Only(c)
  BY <1>3, <1>7, <1>8 DEF Only
<1>10. Place(c)'
  BY <1>2, <1>3, <1>7, <1>8 DEF Place, Names
<1>11. Places'
  BY <1>3, <1>9, <1>10, OnlyPlaces
<1>12. LiveConns' = LiveConns
  BY <1>2, <1>8 DEF LiveConns
<1>13. Counted'
  BY <1>3, <1>12 DEF Inductive, Counted, acceptor, kernel
<1>14. free' \in Nat /\ free' >= free /\ connections' \subseteq connections
  BY <1>3, FdsAssumption DEF Inductive, TypeOK, AcceptorTypeOK, kernel
<1>15. state' \in [Conns -> {"none", "kConnecting", "kConnected", "kDisconnected", "destroyed"}]
  BY <1>2 DEF Inductive, TypeOK
<1>16. \A d \in Conns : state'[d] = "none" <=> state[d] = "none"
  BY <1>2, <1>8
<1>17. Cardinality(LiveConns') \in Nat
  BY <1>12, LiveFinite
<1> QED BY <1>3, <1>6, <1>11, <1>13, <1>14, <1>15, <1>16, <1>17, ConnectionFrame DEF kernel

\* What a loop's next functor says, and the queues without it.
LEMMA TakesOne ==
  ASSUME Inductive, NEW l \in Loops, NEW c \in Conns, NEW fn \in Names, Takes(l, fn, c)
  PROVE  /\ QueuesOK(Rest(l)) /\ AtHome(Rest(l)) /\ Place(c) /\ aborted = "no"
         /\ Leaves(queue, Rest(l), l, F(fn, c)) /\ In(queue, F(fn, c)) /\ l = Home(F(fn, c))
<1>1. /\ QueuesOK(queue) /\ AtHome(queue) /\ queue[l] # <<>>
      /\ Head(queue[l]) = F(fn, c) /\ Rest(l) = [queue EXCEPT ![l] = Tail(@)]
  BY DEF Inductive, Queues, Takes, Rest, F
<1>2. Place(c) /\ aborted = "no"
  BY DEF Inductive, Places
<1> HIDE DEF Inductive
<1> QED BY <1>1, <1>2, PopHome

\* connectEstablished() of a connection of a pool's loop.
LEMMA EstablishedStep ==
  ASSUME Inductive, NEW l \in Loops, NEW c \in Conns, RunEstablished(l, c)
  PROVE  Inductive'
<1>1. "established" \in Names /\ Takes(l, "established", c)
  BY DEF RunEstablished, Names
<1>2. /\ QueuesOK(queue') /\ AtHome(queue') /\ Place(c) /\ aborted = "no"
      /\ Leaves(queue, queue', l, F("established", c)) /\ In(queue, F("established", c))
  BY <1>1, TakesOne DEF RunEstablished
<1>3. /\ state[c] = "kConnecting" /\ c \in connections /\ loopOf[c] # 0
      /\ state' = [state EXCEPT ![c] = "kConnected"]
      /\ UNCHANGED <<acceptor, kernel, pool, started, alive, connections, nextConnId, loopOf>>
      /\ aborted' = "no"
      /\ ~In(queue, F("remove", c)) /\ ~In(queue, F("destroyed", c))
  BY <1>2 DEF RunEstablished, Assert, Place
<1>4. \A gn, d : F(gn, d) = F("established", c) <=> gn = "established" /\ d = c
  BY <1>1, FunctorOf
<1>5. \A gn, d : In(queue', F(gn, d)) <=> In(queue, F(gn, d)) /\ ~(gn = "established" /\ d = c)
  BY <1>2, <1>4 DEF Leaves
<1>6. \A d \in Conns : state'[d] = IF d = c THEN "kConnected" ELSE state[d]
  BY <1>3 DEF Inductive, TypeOK
<1>7. Only(c)
  BY <1>3, <1>5, <1>6 DEF Only
<1>8. Place(c)'
  BY <1>3, <1>5, <1>6 DEF Place, Names
<1>9. Places'
  BY <1>3, <1>7, <1>8, OnlyPlaces
<1>10. LiveConns' = LiveConns
  BY <1>3, <1>6 DEF LiveConns
<1>11. Counted' /\ Cardinality(LiveConns') \in Nat
  BY <1>3, <1>10, LiveFinite DEF Inductive, Counted, acceptor, kernel
<1>12. free' \in Nat /\ free' >= free /\ connections' \subseteq connections
  BY <1>3, FdsAssumption DEF Inductive, TypeOK, AcceptorTypeOK, kernel
<1>13. state' \in [Conns -> {"none", "kConnecting", "kConnected", "kDisconnected", "destroyed"}]
  BY <1>3 DEF Inductive, TypeOK
<1>14. \A d \in Conns : state'[d] = "none" <=> state[d] = "none"
  BY <1>3, <1>6
<1> QED BY <1>2, <1>3, <1>9, <1>11, <1>12, <1>13, <1>14, ConnectionFrame DEF kernel

\* removeConnectionInLoop() in the server's loop, which queues connectDestroyed.
LEMMA RemoveStep ==
  ASSUME Inductive, NEW c \in Conns, RunRemove(c)
  PROVE  Inductive'
<1> DEFINE q == Rest(0)
           x == F("destroyed", c)
<1>1. /\ "remove" \in Names /\ "destroyed" \in Names /\ 0 \in Loops
      /\ Takes(0, "remove", c)
  BY ThreadsAssumption DEF RunRemove, Names, Loops
<1>2. /\ QueuesOK(q) /\ AtHome(q) /\ Place(c) /\ aborted = "no"
      /\ Leaves(queue, q, 0, F("remove", c)) /\ In(queue, F("remove", c))
  BY <1>1, TakesOne
<1>3. /\ state[c] = "kDisconnected" /\ c \in connections /\ loopOf[c] # 0
      /\ connections' = connections \ {c}
      /\ UNCHANGED <<acceptor, kernel, pool, started, alive, nextConnId, state, loopOf>>
      /\ aborted' = "no"
      /\ ~In(queue, F("established", c)) /\ ~In(queue, x)
  BY <1>2 DEF RunRemove, RemoveConnectionInLoop, Assert, Place
<1>4. \A gn, d : F(gn, d) = F("remove", c) <=> gn = "remove" /\ d = c
  BY <1>1, FunctorOf
<1>5. x \in Functor /\ Home(x) = loopOf[c] /\ \A gn, d : F(gn, d) = x <=> gn = "destroyed" /\ d = c
  BY <1>1, FunctorOf
<1>6. loopOf[c] \in Loops
  BY DEF Inductive, TypeOK
<1>7. QueuesOK(queue') /\ AtHome(queue') /\ Enters(q, queue', Home(x), x)
  <2>1. ~In(q, x)
    BY <1>2, <1>3 DEF Leaves
  <2>2. queue' = [q EXCEPT ![Home(x)] = Append(@, x)]
    BY <1>5 DEF RunRemove, F
  <2> HIDE DEF q, x
  <2> QED BY <1>2, <1>5, <1>6, <2>1, <2>2, PushHome
<1>8. \A gn, d : In(queue', F(gn, d)) <=>
        (In(queue, F(gn, d)) /\ ~(gn = "remove" /\ d = c)) \/ (gn = "destroyed" /\ d = c)
  <2> HIDE DEF q, x
  <2>1. \A gn, d : In(q, F(gn, d)) <=> In(queue, F(gn, d)) /\ ~(gn = "remove" /\ d = c)
    BY <1>2, <1>4 DEF Leaves
  <2>2. \A gn, d : In(queue', F(gn, d)) <=> In(q, F(gn, d)) \/ (gn = "destroyed" /\ d = c)
    BY <1>5, <1>7 DEF Enters
  <2> QED BY <2>1, <2>2
<1>9. Only(c)
  BY <1>3, <1>8 DEF Only
<1>10. Place(c)'
  BY <1>3, <1>8 DEF Place, Names
<1>11. Places'
  BY <1>3, <1>9, <1>10, OnlyPlaces
<1>12. LiveConns' = LiveConns
  BY <1>3 DEF LiveConns
<1>13. Counted' /\ Cardinality(LiveConns') \in Nat
  BY <1>3, <1>12, LiveFinite DEF Inductive, Counted, acceptor, kernel
<1>14. free' \in Nat /\ free' >= free /\ connections' \subseteq connections
  BY <1>3, FdsAssumption DEF Inductive, TypeOK, AcceptorTypeOK, kernel
<1>15. state' \in [Conns -> {"none", "kConnecting", "kConnected", "kDisconnected", "destroyed"}]
  BY <1>3 DEF Inductive, TypeOK
<1> QED BY <1>3, <1>7, <1>11, <1>13, <1>14, <1>15, ConnectionFrame DEF kernel

\* connectDestroyed(), whose functor was the last to hold the connection.
LEMMA DestroyedStep ==
  ASSUME Inductive, NEW l \in Loops, NEW c \in Conns, RunDestroyed(l, c)
  PROVE  Inductive'
<1>1. "destroyed" \in Names /\ Takes(l, "destroyed", c)
  BY DEF RunDestroyed, Names
<1>2. /\ QueuesOK(queue') /\ AtHome(queue') /\ Place(c) /\ aborted = "no"
      /\ Leaves(queue, queue', l, F("destroyed", c)) /\ In(queue, F("destroyed", c))
  BY <1>1, TakesOne DEF RunDestroyed
<1>3. /\ state[c] = "kDisconnected" /\ c \notin connections
      /\ state' = [state EXCEPT ![c] = "destroyed"]
      /\ free' = free + 1
      /\ UNCHANGED <<acceptor, backlog, peers, others, raced, pool, started, alive, connections, nextConnId, loopOf>>
      /\ aborted' = "no"
      /\ ~In(queue, F("remove", c)) /\ ~In(queue, F("established", c))
  BY <1>2 DEF RunDestroyed, Assert, Place
<1>4. \A gn, d : F(gn, d) = F("destroyed", c) <=> gn = "destroyed" /\ d = c
  BY <1>1, FunctorOf
<1>5. \A gn, d : In(queue', F(gn, d)) <=> In(queue, F(gn, d)) /\ ~(gn = "destroyed" /\ d = c)
  BY <1>2, <1>4 DEF Leaves
<1>6. \A d \in Conns : state'[d] = IF d = c THEN "destroyed" ELSE state[d]
  BY <1>3 DEF Inductive, TypeOK
<1>7. Only(c)
  BY <1>3, <1>5, <1>6 DEF Only
<1>8. Place(c)'
  BY <1>3, <1>5, <1>6 DEF Place, Names
<1>9. Places'
  BY <1>3, <1>7, <1>8, OnlyPlaces
<1>10. c \in LiveConns /\ LiveConns' = LiveConns \ {c}
  BY <1>3, <1>6 DEF LiveConns
<1>11. free \in Nat /\ others \in Nat
  BY FdsAssumption DEF Inductive, TypeOK, AcceptorTypeOK
<1>12. Counted' /\ Cardinality(LiveConns') \in Nat
  <2>1. Cardinality(LiveConns') = Cardinality(LiveConns) - 1 /\ Cardinality(LiveConns) \in Nat
    BY <1>10, LiveSteps, LiveFinite
  <2>2. Cardinality(LiveConns') \in Nat
    <3>1. IsFiniteSet(LiveConns \ {c}) BY LiveFinite, FS_RemoveElement
    <3> QED BY <1>10, <3>1, FS_CardinalityType
  <2> QED BY <1>3, <1>11, <2>1, <2>2, FdsAssumption DEF Inductive, Counted, Bool, acceptor
<1>13. free' \in Nat /\ free' >= free /\ connections' \subseteq connections
  BY <1>3, <1>11
<1>14. state' \in [Conns -> {"none", "kConnecting", "kConnected", "kDisconnected", "destroyed"}]
  BY <1>3 DEF Inductive, TypeOK
<1>15. \A d \in Conns : state'[d] = "none" <=> state[d] = "none"
  BY <1>3, <1>6
<1> QED BY <1>2, <1>3, <1>9, <1>12, <1>13, <1>14, <1>15, ConnectionFrame

\* ~TCPServer(), which finds no functor that is still to come to it.
LEMMA DestroyStep ==
  ASSUME Inductive, Destroy
  PROVE  Inductive'
<1>1. /\ alive /\ spare = "rest" /\ MayDestroy
      /\ alive' = FALSE /\ connections' = {} /\ listenning' = FALSE /\ idleFd' = "closed" /\ backlog' = 0
      /\ state' = [c \in Conns |-> IF c \in connections THEN "destroyed" ELSE state[c]]
      /\ free' = free + Cardinality(connections) + (IF idleFd = "closed" THEN 0 ELSE 1)
      /\ UNCHANGED <<spare, peers, others, raced, pool, started, nextConnId, loopOf, queue, aborted>>
  BY DEF Destroy, AcceptorDestroyed
<1>2. \A c \in Conns : Place(c) /\ loopOf[c] <= numThreads /\ loopOf[c] \in Loops
  BY DEF Inductive, Places, Numbers, TypeOK
<1>3. \A c \in connections : c \in Conns /\ state[c] \in {"kConnecting", "kConnected", "kDisconnected"}
  BY <1>2 DEF Inductive, TypeOK, Place
<1>4. ASSUME NEW c \in Conns
      PROVE  ~In(queue, F("established", c)) /\ ~In(queue, F("remove", c))
  <2>1. CASE numThreads = 0
    <3>1. loopOf[c] = 0
      BY <1>2, <2>1, ThreadsAssumption DEF Loops
    <3> QED BY <1>2, <3>1 DEF Place
  <2>2. CASE \A l \in Loops : queue[l] = <<>>
    BY <2>2, RangeEmpty, Zenon DEF In
  <2> QED BY <1>1, <2>1, <2>2 DEF MayDestroy
<1>5. Queues' BY <1>1 DEF Inductive, Queues, QueuesOK, AtHome, Home
<1>6. Numbers'
  <2>1. nextConnId' - 1 + backlog' <= peers'
    BY <1>1, FdsAssumption DEF Inductive, Numbers, TypeOK, AcceptorTypeOK
  <2>2. ASSUME NEW c \in Conns PROVE (state[c]' = "none" <=> c >= nextConnId') /\ loopOf[c]' <= numThreads'
    BY <1>1, <1>2, <1>3 DEF Inductive, Numbers, pool
  <2> QED BY <2>1, <2>2 DEF Numbers
<1>7. Places'
  <2>1. ASSUME NEW c \in Conns PROVE Place(c)'
    <3>1. \A fn : In(queue', F(fn, c)) <=> In(queue, F(fn, c))
      BY <1>1
    <3>2. state'[c] = (IF c \in connections THEN "destroyed" ELSE state[c]) /\ connections' = {}
      BY <1>1
    <3>3. Place(c) BY <1>2
    <3> QED BY <1>4, <3>1, <3>2, <3>3 DEF Place
  <2> QED BY <1>1, <2>1 DEF Inductive, Places
<1>8. Listening'
  BY <1>1 DEF Inductive, Listening
<1>9. free \in Nat /\ others \in Nat /\ MaxFds \in Nat /\ idleFd \in {"/dev/null", "peer", "closed"}
      /\ peers \in 0..MaxPeers /\ MaxPeers \in Nat
  BY FdsAssumption DEF Inductive, TypeOK, AcceptorTypeOK
<1>10. connections \subseteq LiveConns /\ LiveConns' = LiveConns \ connections
  BY <1>1, <1>3 DEF LiveConns
<1>11. /\ Cardinality(LiveConns') = Cardinality(LiveConns) - Cardinality(connections)
       /\ Cardinality(connections) \in Nat /\ Cardinality(LiveConns') \in Nat /\ Cardinality(LiveConns) \in Nat
  BY <1>10, LiveDestroyed, LiveFinite
<1>12. Counted'
  BY <1>1, <1>9, <1>11 DEF Inductive, Counted, Bool
<1>13. free' \in 0..MaxFds
  BY <1>1, <1>9, <1>11, <1>12 DEF Counted, Bool
<1>14. TypeOK'
  <2>1. AcceptorTypeOK'
    <3>1. AcceptorTypeOK /\ 0 \in 0..MaxPeers
      BY <1>9 DEF Inductive, TypeOK
    <3> QED BY <1>1, <1>13, <3>1 DEF AcceptorTypeOK
  <2>2. state' \in [Conns -> {"none", "kConnecting", "kConnected", "kDisconnected", "destroyed"}]
    BY <1>1 DEF Inductive, TypeOK
  <2> QED BY <1>1, <2>1, <2>2 DEF Inductive, TypeOK, PoolTypeOK, pool
<1> QED BY <1>5, <1>6, <1>7, <1>8, <1>12, <1>14 DEF Inductive

\* Every step of the server, its loops and its peers keeps the invariant.
LEMMA InductiveStep == Inductive /\ [Next]_vars => Inductive'
<1> SUFFICES ASSUME Inductive, [Next]_vars PROVE Inductive'
  OBVIOUS
<1>1. CASE Start \/ HandleAborted \/ HandleEmfile \/ Environment BY <1>1, AcceptorStep
<1>2. CASE HandleAccept BY <1>2, AcceptStep
<1>3. CASE Destroy BY <1>3, DestroyStep
<1>4. ASSUME NEW l \in Loops, RunFunctor(l) PROVE Inductive'
  BY <1>4, EstablishedStep, RemoveStep, DestroyedStep DEF RunFunctor
<1>5. ASSUME NEW c \in Conns, Close(c) PROVE Inductive'
  BY <1>5, CloseStep
<1>6. CASE UNCHANGED vars
  <2>1. Queues' /\ Places' /\ LiveConns' = LiveConns
    BY <1>6, SameConnections DEF vars
  <2> QED
    BY <1>6, <2>1 DEF vars, acceptor, kernel, pool, Inductive, TypeOK, AcceptorTypeOK, PoolTypeOK,
         Numbers, Listening, Counted
<1> QED BY <1>1, <1>2, <1>3, <1>4, <1>5, <1>6 DEF Next, Accepting

\* The invariant holds in every reachable state.
LEMMA Invariance == Spec => []Inductive
BY InductiveInit, InductiveStep, PTL DEF Spec

----
(* Theorems *)

\* TCPServer, Acceptor and EventLoopThreadPool keep their types: next_ stays in the pool, the spare
\* descriptor is at rest whenever handleRead() has returned.
THEOREM ServerTypeCorrect == Spec => []TypeOK
<1>1. Inductive => TypeOK BY DEF Inductive
<1> QED BY <1>1, Invariance, PTL

\* newConnection(), removeConnection(), removeConnectionInLoop() and ~TCPServer() hold every connection
\* in exactly one place, whatever the loops and the order in which they run their functors.
THEOREM ConnectionsHeldOnce == Spec => []HeldOnce
<1>1. Inductive => HeldOnce
  <2> SUFFICES ASSUME Inductive PROVE HeldOnce
    OBVIOUS
  <2>1. aborted = "no" /\ \A c \in Conns : Place(c)
    BY DEF Inductive, Places
  <2>2. \A fn, c : Queued(fn, c) <=> In(queue, F(fn, c))
    BY DEF Queued, In, F
  <2>3. connections \subseteq Conns /\ ~alive => connections = {}
    BY DEF Inductive, TypeOK, Listening
  <2>4. ASSUME NEW c \in LiveConns
        PROVE  Bool(c \in connections /\ ~Queued("remove", c)) + Bool(Queued("remove", c))
                 + Bool(Queued("destroyed", c)) = 1
    <3>1. c \in Conns /\ state[c] \in {"kConnecting", "kConnected", "kDisconnected"}
      BY DEF LiveConns, Inductive, TypeOK
    <3>2. /\ Queued("remove", c) => c \in connections
          /\ Queued("destroyed", c) <=> c \notin connections
      BY <2>1, <2>2, <3>1 DEF Place
    <3> QED BY <3>2 DEF Bool
  <2>5. \A c \in Conns : Queued("remove", c) => alive /\ c \in connections /\ state[c] = "kDisconnected"
    BY <2>1, <2>2, <2>3 DEF Place, Inductive, Listening
  <2>6. \A c \in connections : c \in LiveConns
    BY <2>1, <2>3 DEF Place, LiveConns, Inductive, TypeOK
  <2> QED BY <2>1, <2>4, <2>5, <2>6 DEF HeldOnce
<1> QED BY <1>1, Invariance, PTL

\* No descriptor is leaked or closed twice by the exchange of the spare one, by newConnection(), by
\* connectDestroyed() or by ~Acceptor(), and handleRead() gets the spare one back.
THEOREM DescriptorsAccounted == Spec => []FdsAccounted
<1>1. Inductive => FdsAccounted BY DEF Inductive, Counted, Listening, FdsAccounted
<1> QED BY <1>1, Invariance, PTL
====
