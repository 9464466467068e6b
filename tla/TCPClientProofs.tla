---- MODULE TCPClientProofs ----
(***************************************************************************)
(* TCPClient and Connector for any bound on the calls and any delays.      *)
(***************************************************************************)
EXTENDS TCPClient, FiniteSetTheorems, SequenceTheorems, TLAPS

----
(* How often a functor is in a queue *)

\* A queue has finitely many places.
LEMMA OccurrencesNat ==
  ASSUME NEW S, NEW s \in Seq(S), NEW f
  PROVE  IsFiniteSet({i \in DOMAIN s : s[i] = f}) /\ Occurrences(s, f) \in Nat
<1>1. DOMAIN s = 1..Len(s) /\ Len(s) \in Nat
  OBVIOUS
<1>2. IsFiniteSet(DOMAIN s)
  BY <1>1, FS_Interval
<1>3. {i \in DOMAIN s : s[i] = f} \in SUBSET DOMAIN s
  OBVIOUS
<1>4. IsFiniteSet({i \in DOMAIN s : s[i] = f})
  BY <1>2, <1>3, FS_Subset, Zenon
<1> QED BY <1>4, FS_CardinalityType, Zenon DEF Occurrences

\* The empty queue.
LEMMA OccurrencesEmpty == \A f : Occurrences(<<>>, f) = 0
<1> TAKE f
<1>1. {i \in DOMAIN <<>> : <<>>[i] = f} = {}
  OBVIOUS
<1> QED BY <1>1, FS_EmptySet, Zenon DEF Occurrences

\* queueInLoop.
LEMMA OccurrencesAppend ==
  ASSUME NEW S, NEW s \in Seq(S), NEW x \in S, NEW f
  PROVE  Occurrences(Append(s, x), f) = Occurrences(s, f) + (IF x = f THEN 1 ELSE 0)
<1> DEFINE P == {i \in DOMAIN s : s[i] = f}
           R == {i \in DOMAIN Append(s, x) : Append(s, x)[i] = f}
<1>1. /\ DOMAIN s = 1..Len(s) /\ Len(s) \in Nat
      /\ DOMAIN Append(s, x) = 1..(Len(s) + 1)
      /\ Append(s, x)[Len(s) + 1] = x
      /\ \A i \in 1..Len(s) : Append(s, x)[i] = s[i]
  OBVIOUS
<1>2. \A i : i \in 1..(Len(s) + 1) <=> i \in 1..Len(s) \/ i = Len(s) + 1
  BY <1>1
<1>3. R = IF x = f THEN P \cup {Len(s) + 1} ELSE P
  BY <1>1, <1>2, Zenon
<1>4. Len(s) + 1 \notin P
  BY <1>1
<1>5. IsFiniteSet(P) /\ Cardinality(P) \in Nat
  BY OccurrencesNat DEF Occurrences
<1>6. Cardinality(R) = Cardinality(P) + (IF x = f THEN 1 ELSE 0)
  <2> HIDE DEF P, R
  <2>1. Cardinality(P \cup {Len(s) + 1}) = Cardinality(P) + 1 BY <1>4, <1>5, FS_AddElement, Zenon
  <2>2. CASE x = f BY <1>3, <2>1, <2>2
  <2>3. CASE x # f BY <1>3, <1>5, <2>3
  <2> QED BY <2>2, <2>3
<1> QED BY <1>6, Zenon DEF Occurrences

\* doPendingFunctors takes the first functor.
LEMMA OccurrencesTail ==
  ASSUME NEW S, NEW s \in Seq(S), s # <<>>, NEW f
  PROVE  Occurrences(s, f) = Occurrences(Tail(s), f) + (IF Head(s) = f THEN 1 ELSE 0)
<1> DEFINE P == {i \in DOMAIN Tail(s) : Tail(s)[i] = f}
           R == {i \in DOMAIN s : s[i] = f}
           M == R \ {1}
           shift == [i \in P |-> i + 1]
<1>1. /\ DOMAIN s = 1..Len(s) /\ Len(s) \in Nat /\ Len(s) >= 1
      /\ DOMAIN Tail(s) = 1..(Len(s) - 1) /\ Tail(s) \in Seq(S)
      /\ Head(s) = s[1]
      /\ \A i \in 1..(Len(s) - 1) : Tail(s)[i] = s[i + 1]
  OBVIOUS
<1>2. \A i \in P : i \in Nat /\ i + 1 \in M
  BY <1>1
<1>3. \A j \in M : j - 1 \in P /\ j = (j - 1) + 1
  BY <1>1
<1>4. shift \in Bijection(P, M)
  <2>1. shift \in [P -> M] BY <1>2
  <2>2. \A i, j \in P : shift[i] = shift[j] => i = j BY <1>2
  <2>3. \A j \in M : \E i \in P : shift[i] = j BY <1>3
  <2> HIDE DEF shift, P, M
  <2> QED BY <2>1, <2>2, <2>3, Zenon DEF Bijection, Injection, Surjection, IsInjective
<1>5. IsFiniteSet(P) /\ Cardinality(P) \in Nat
  BY <1>1, OccurrencesNat DEF Occurrences
<1>6. IsFiniteSet(M) /\ Cardinality(M) = Cardinality(P)
  <2> HIDE DEF shift, P, M
  <2> QED BY <1>4, <1>5, FS_Bijection, Zenon DEF ExistsBijection
<1>7. R = IF Head(s) = f THEN M \cup {1} ELSE M
  <2>1. 1 \in DOMAIN s BY <1>1
  <2> QED BY <1>1, <2>1, Zenon
<1>8. 1 \notin M
  OBVIOUS
<1>9. Cardinality(R) = Cardinality(P) + (IF Head(s) = f THEN 1 ELSE 0)
  <2> HIDE DEF P, R, M
  <2>1. Cardinality(M \cup {1}) = Cardinality(M) + 1 BY <1>6, <1>8, FS_AddElement, Zenon
  <2>2. CASE Head(s) = f BY <1>6, <1>7, <2>1, <2>2
  <2>3. CASE Head(s) # f BY <1>5, <1>6, <1>7, <2>3
  <2> QED BY <2>2, <2>3
<1> QED BY <1>9, Zenon DEF Occurrences

\* What is counted is in the queues.
LEMMA OccurrencesIn ==
  ASSUME NEW S, NEW s \in Seq(S), NEW f
  PROVE  Occurrences(s, f) = 0 <=> f \notin Range(s)
<1>1. IsFiniteSet({i \in DOMAIN s : s[i] = f})
  BY OccurrencesNat
<1>2. Occurrences(s, f) = 0 <=> {i \in DOMAIN s : s[i] = f} = {}
  BY <1>1, FS_EmptySet, Zenon DEF Occurrences
<1> QED BY <1>2 DEF Range

----
(* The inductive invariant *)

Functor == Raw \cup {"forceCloseInLoop", "connectDestroyed"}

\* Types, and where the loop is.
Shape ==
  /\ ConnectorTypeOK
  /\ pend \in Seq(Functor) /\ run \in Seq(Functor) /\ todo \subseteq Events
  /\ {alive, retry, wanted, connection, hack, started, stopped, seen, overtaken} \subseteq BOOLEAN
  /\ conn \in {"none", "down"} \cup Open
  /\ closeCallback \in {"client", "detached"}
  /\ cb \in {"none", "up", "down", "restart"}
  /\ upc \in {"idle", "queueStart", "queueStop"}
  /\ calls \in 0..MaxCalls
  /\ place # "functors" => run = <<>>
  /\ place # "batch" => todo = {}
  /\ place = "poll" => cb = "none"

\* An attempt to be made, waited for or under way, or a connection: one at a time, and state_ and the
\* channel say which.
OneThing ==
  /\ Count("startInLoop") + Bool(upc = "queueStart") + timers
       + Bool(channel = "registered") + Bool(conn # "none") <= 1
  /\ fds = Bool(channel = "registered") + Bool(conn # "none") + Count("connectDestroyed")
  /\ Count("resetChannel") = Bool(channel = "removed")
  /\ state = "kConnecting" <=> channel = "registered"
  /\ conn # "none" => state = "kConnected"
  /\ state = "kConnected" => Count("startInLoop") = 0 /\ upc # "queueStart" /\ timers = 0
  /\ Count("startInLoop") > 0 \/ upc = "queueStart" => channel = "none"

\* Nothing was begun before connect().
Unstarted ==
  ~started =>
    /\ ~connect /\ upc # "queueStart" /\ Count("startInLoop") = 0 /\ timers = 0
    /\ state = "kDisconnected" /\ channel = "none" /\ conn = "none"

\* The connector is not to connect, and nobody will tell it to.
NoRestart == ~connect /\ (~wanted \/ ~alive)

\* What a stop() that was not overtaken leaves to be done is done by a connector that does not connect.
Stopping ==
  /\ Count("stopInLoop") > 0 \/ upc = "queueStop" => NoRestart \/ overtaken
  /\ stopped => ~connect /\ ~wanted
  /\ Occurrences(pend, "resetChannel") > 0 /\ place # "batch" => NoRestart \/ (overtaken /\ conn = "none")

\* No address of the connector is queued or registered.
Unbound == channel = "none" /\ \A f \in Raw : Count(f) = 0

\* What the callbacks of a batch that are still to come will find.
BatchDue ==
  /\ "timer" \in todo => timers > 0
  /\ "close" \in todo => conn \in Open
  /\ "write" \in todo => conn = "none" /\ state # "kConnected"
  /\ "hack" \in todo => hack /\ Unbound
  /\ "timer" \in todo => channel = "none" \/ NoRestart \/ overtaken
  /\ "close" \in todo \/ cb = "down" => channel = "none" \/ NoRestart

\* The client's end.
Ending ==
  /\ connection <=> alive /\ conn # "none"
  /\ cb = "down" <=> conn = "down"
  /\ cb = "up" => conn \in Open
  /\ ~alive => upc = "idle" /\ (closeCallback = "detached" \/ (~connect /\ conn = "none"))
  /\ closeCallback = "detached" => ~alive /\ ~hack /\ timers = 0
  /\ hack => ~alive
  /\ ~alive /\ ~hack => Unbound
  /\ ~alive /\ channel = "registered" => Count("stopInLoop") > 0
  /\ Count("forceCloseInLoop") > 0 => closeCallback = "detached"
  /\ cb = "restart" => alive /\ started /\ ~stopped /\ conn = "none" /\ channel = "none" /\ state = "kConnected"

Inductive == Shape /\ OneThing /\ Unstarted /\ Stopping /\ BatchDue /\ Ending /\ aborted = "no"

\* The program ended in connecting(), which found the channel of an attempt that an overtaken stop() had
\* ended.
Ended ==
  /\ Shape /\ OneAtATime /\ NoUseAfterFree
  /\ overtaken /\ aborted = "connecting"
  /\ cb = "none" /\ place = "batch" /\ ~stopped

\* The types of the specification.
LEMMA ShapeTypes == Shape => TypeOK
<1> SUFFICES ASSUME Shape PROVE TypeOK
  OBVIOUS
<1>1. pend \o run \in Seq(Functor)
  BY ConcatProperties DEF Shape
<1>2. Range(pend \o run) \subseteq Raw \cup {"forceCloseInLoop", "connectDestroyed"}
  BY <1>1, RangeOfSeq, Zenon DEF Functor
<1> QED BY <1>2 DEF Shape, TypeOK, Events

----
(* What the steps are made of *)

\* How often a functor is in both queues is a number.
LEMMA CountNat ==
  ASSUME Shape, NEW f
  PROVE  Count(f) \in Nat /\ Occurrences(pend, f) \in Nat /\ Occurrences(run, f) \in Nat
<1>1. pend \in Seq(Functor) /\ run \in Seq(Functor)
  BY DEF Shape
<1>2. Occurrences(pend, f) \in Nat /\ Occurrences(run, f) \in Nat
  BY <1>1, OccurrencesNat, Zenon
<1> QED BY <1>2 DEF Count

\* What is not in the queues is there no time.
LEMMA NotQueued ==
  ASSUME Shape, NEW f
  PROVE  Count(f) = 0 <=> ~Queued(f)
<1>1. pend \in Seq(Functor) /\ run \in Seq(Functor)
  BY DEF Shape
<1>2. Range(pend \o run) = Range(pend) \cup Range(run)
  BY <1>1, RangeConcatenation, Zenon
<1>3. Queued(f) <=> f \in Range(pend) \/ f \in Range(run)
  BY <1>2, Zenon DEF Queued
<1>4. /\ Occurrences(pend, f) = 0 <=> f \notin Range(pend)
      /\ Occurrences(run, f) = 0 <=> f \notin Range(run)
  BY <1>1, OccurrencesIn, Zenon
<1>5. Count(f) = 0 <=> Occurrences(pend, f) = 0 /\ Occurrences(run, f) = 0
  BY CountNat DEF Count
<1> QED BY <1>3, <1>4, <1>5, Zenon

\* A client does one thing at a time.
LEMMA OnlyOne ==
  ASSUME Shape, OneThing
  PROVE  /\ Count("startInLoop") \in Nat /\ Count("connectDestroyed") \in Nat /\ timers \in Nat /\ fds \in Nat
         /\ Count("startInLoop") \in {0, 1} /\ timers \in {0, 1}
         /\ channel = "registered" =>
              conn = "none" /\ timers = 0 /\ Count("startInLoop") = 0 /\ upc # "queueStart" /\ fds >= 1
         /\ conn # "none" =>
              channel # "registered" /\ timers = 0 /\ Count("startInLoop") = 0 /\ upc # "queueStart" /\ fds >= 1
         /\ timers > 0 =>
              channel # "registered" /\ conn = "none" /\ Count("startInLoop") = 0 /\ upc # "queueStart"
         /\ Count("startInLoop") > 0 =>
              channel # "registered" /\ conn = "none" /\ timers = 0 /\ upc # "queueStart"
         /\ upc = "queueStart" =>
              channel # "registered" /\ conn = "none" /\ timers = 0 /\ Count("startInLoop") = 0
<1>1. Count("startInLoop") \in Nat /\ Count("connectDestroyed") \in Nat
  BY CountNat, Zenon
<1>2. timers \in Nat /\ fds \in Nat
  BY DEF Shape, ConnectorTypeOK
<1> QED BY <1>1, <1>2 DEF OneThing, Bool

\* A step that leaves the queues alone.
LEMMA QueuesSame ==
  ASSUME UNCHANGED <<pend, run>>
  PROVE  \A f : Count(f)' = Count(f)
BY DEF Count

\* queueInLoop.
LEMMA QueuePushed ==
  ASSUME Shape, NEW x \in Functor, pend' = Append(pend, x), run' = run
  PROVE  /\ pend' \in Seq(Functor) /\ run' \in Seq(Functor)
         /\ Occurrences(pend', x) = Occurrences(pend, x) + 1 /\ Count(x)' = Count(x) + 1
         /\ \A f : f # x => Occurrences(pend', f) = Occurrences(pend, f) /\ Count(f)' = Count(f)
<1>1. pend \in Seq(Functor) /\ run \in Seq(Functor)
  BY DEF Shape
<1>2. \A f : Occurrences(pend', f) = Occurrences(pend, f) + (IF f = x THEN 1 ELSE 0)
  BY <1>1, OccurrencesAppend
<1>3. \A f : Occurrences(pend, f) \in Nat /\ Occurrences(run, f) \in Nat
  BY CountNat
<1>4. \A f : Count(f)' = Count(f) + (IF f = x THEN 1 ELSE 0)
  BY <1>2, <1>3 DEF Count
<1>5. pend' \in Seq(Functor) /\ run' \in Seq(Functor)
  BY <1>1, AppendProperties
<1>6. Occurrences(pend', x) = Occurrences(pend, x) + 1 /\ Count(x)' = Count(x) + 1
  BY <1>2, <1>4
<1>7. ASSUME NEW f, f # x PROVE Occurrences(pend', f) = Occurrences(pend, f) /\ Count(f)' = Count(f)
  <2>1. Occurrences(pend', f) = Occurrences(pend, f) + 0 BY <1>2, <1>7
  <2>2. Count(f)' = Count(f) + 0 BY <1>4, <1>7
  <2> QED BY <1>3, <2>1, <2>2, CountNat
<1> QED BY <1>5, <1>6, <1>7

\* doPendingFunctors calls the functor x.
LEMMA QueuePopped ==
  ASSUME Shape, NEW x, TakeFunctor(x), pend' = pend
  PROVE  /\ pend' \in Seq(Functor) /\ run' \in Seq(Functor)
         /\ place = "functors" /\ UNCHANGED <<place, todo>>
         /\ \A f : Occurrences(pend', f) = Occurrences(pend, f)
         /\ Count(x) = Count(x)' + 1 /\ Count(x)' \in Nat
         /\ \A f : f # x => Count(f)' = Count(f)
<1>1. /\ pend \in Seq(Functor) /\ run \in Seq(Functor) /\ run # <<>> /\ run' = Tail(run) /\ Head(run) = x
      /\ place = "functors" /\ UNCHANGED <<place, todo>>
  BY DEF Shape, TakeFunctor
<1>2. run' \in Seq(Functor)
  BY <1>1
<1>3. \A f : Occurrences(run, f) = Occurrences(run', f) + (IF f = x THEN 1 ELSE 0)
  BY <1>1, OccurrencesTail
<1>4. \A f : Occurrences(pend, f) \in Nat /\ Occurrences(run', f) \in Nat
  BY <1>1, <1>2, OccurrencesNat
<1>8. \A f : Count(f)' \in Nat /\ Count(f)' = Occurrences(pend, f) + Occurrences(run', f)
  BY <1>4 DEF Count
<1>5. \A f : Count(f) = Count(f)' + (IF f = x THEN 1 ELSE 0)
  BY <1>3, <1>4 DEF Count
<1>6. Count(x) = Count(x)' + 1 /\ Count(x)' \in Nat
  BY <1>5, <1>8
<1>7. ASSUME NEW f, f # x PROVE Count(f)' = Count(f)
  <2>1. Count(f) = Count(f)' + 0 BY <1>5, <1>7
  <2> QED BY <1>8, <2>1
<1> QED BY <1>1, <1>2, <1>6, <1>7

\* doPendingFunctors calls x, which calls queueInLoop.
LEMMA QueueMoved ==
  ASSUME Shape, NEW x, TakeFunctor(x), NEW y \in Functor, y # x, pend' = Append(pend, y)
  PROVE  /\ pend' \in Seq(Functor) /\ run' \in Seq(Functor)
         /\ place = "functors" /\ UNCHANGED <<place, todo>>
         /\ Count(x) = Count(x)' + 1 /\ Count(x)' \in Nat
         /\ Count(y)' = Count(y) + 1
         /\ \A f : f # x /\ f # y => Count(f)' = Count(f)
<1>1. /\ pend \in Seq(Functor) /\ run \in Seq(Functor) /\ run # <<>> /\ run' = Tail(run) /\ Head(run) = x
      /\ place = "functors" /\ UNCHANGED <<place, todo>>
  BY DEF Shape, TakeFunctor
<1>2. pend' \in Seq(Functor) /\ run' \in Seq(Functor)
  BY <1>1, AppendProperties
<1>3. \A f : Occurrences(run, f) = Occurrences(run', f) + (IF f = x THEN 1 ELSE 0)
  BY <1>1, OccurrencesTail
<1>4. \A f : Occurrences(pend', f) = Occurrences(pend, f) + (IF f = y THEN 1 ELSE 0)
  BY <1>1, OccurrencesAppend
<1>5. \A f : Occurrences(pend, f) \in Nat /\ Occurrences(run, f) \in Nat
  BY <1>1, OccurrencesNat
<1>6. \A f : Occurrences(pend', f) \in Nat /\ Occurrences(run', f) \in Nat
  BY <1>2, OccurrencesNat
<1>7. \A f : Count(f) = Occurrences(pend, f) + Occurrences(run, f)
  BY DEF Count
<1>8. \A f : Count(f)' = Occurrences(pend', f) + Occurrences(run', f)
  BY DEF Count
<1>9. Count(x) = Count(x)' + 1 /\ Count(x)' \in Nat
  <2>1. Occurrences(pend', x) = Occurrences(pend, x) + 0 BY <1>4
  <2>2. Occurrences(run, x) = Occurrences(run', x) + 1 BY <1>3
  <2> QED BY <1>5, <1>6, <1>7, <1>8, <2>1, <2>2
<1>10. Count(y)' = Count(y) + 1
  <2>1. Occurrences(pend', y) = Occurrences(pend, y) + 1 BY <1>4
  <2>2. Occurrences(run, y) = Occurrences(run', y) + 0 BY <1>3
  <2> QED BY <1>5, <1>6, <1>7, <1>8, <2>1, <2>2
<1>11. ASSUME NEW f, f # x, f # y PROVE Count(f)' = Count(f)
  <2>1. Occurrences(pend', f) = Occurrences(pend, f) + 0 BY <1>4, <1>11
  <2>2. Occurrences(run, f) = Occurrences(run', f) + 0 BY <1>3, <1>11
  <2> QED BY <1>5, <1>6, <1>7, <1>8, <2>1, <2>2
<1> QED BY <1>1, <1>2, <1>9, <1>10, <1>11

\* The next delay is one of the delays.
LEMMA NextDelay ==
  ASSUME NEW delay \in InitDelay..MaxDelay
  PROVE  Min({2 * delay, MaxDelay}) \in InitDelay..MaxDelay
<1>1. InitDelay \in Nat /\ MaxDelay \in Nat /\ InitDelay <= MaxDelay
  BY DelayAssumption
<1> DEFINE S == {2 * delay, MaxDelay}
<1>2. \E x \in S : \A y \in S : x <= y
  BY <1>1
<1>3. Min(S) \in S /\ \A y \in S : Min(S) <= y
  BY <1>2 DEF Min
<1> QED BY <1>1, <1>3

\* startInLoop() of a connector that is disconnected and has no channel: the attempt is under way, to
\* be made again after a while, or given up.
LEMMA Started ==
  ASSUME Shape, aborted = "no", NEW again \in BOOLEAN, NEW delay \in InitDelay..MaxDelay, NEW left \in Nat,
         again => channel = "none", StartInLoop(again, "kDisconnected", delay, left)
  PROVE  /\ aborted' = "no" /\ retryDelay' \in InitDelay..MaxDelay /\ gaveUp' \in BOOLEAN
         /\ \/ again /\ state' = "kConnecting" /\ channel' = "registered" /\ fds' = fds + 1 /\ timers' = left
            \/ again /\ state' = "kDisconnected" /\ channel' = channel /\ fds' = fds /\ timers' = left + 1
            \/ state' = "kDisconnected" /\ channel' = channel /\ fds' = fds /\ timers' = left
<1>1. fds \in Nat /\ gaveUp \in BOOLEAN
  BY DEF Shape, ConnectorTypeOK
<1>2. Failed("startInLoop", "kDisconnected" = "kDisconnected") = "no"
  BY DEF Failed
<1>3. Min({2 * delay, MaxDelay}) \in InitDelay..MaxDelay
  BY NextDelay
<1>4. fds + 1 - 1 = fds
  BY <1>1
<1> QED BY <1>1, <1>2, <1>3, <1>4 DEF StartInLoop, Retry

\* retry() of the socket just opened, by a connector that is to connect.
LEMMA Retried ==
  ASSUME NEW again \in BOOLEAN, again, NEW delay \in InitDelay..MaxDelay, NEW left \in Nat, fds \in Nat,
         Retry(fds + 1, again, delay, left)
  PROVE  fds' = fds /\ state' = "kDisconnected" /\ timers' = left + 1 /\ retryDelay' \in InitDelay..MaxDelay
BY NextDelay DEF Retry

\* A stop() of which the loop knows, or will, and that found connect_ set again.
StopsCounted == Count("stopInLoop") > 0 \/ upc = "queueStop" => overtaken

\* Setting connect_ overtakes it.
LEMMA Overtakes ==
  ASSUME Shape, overtaken' = (overtaken \/ StopPending), UNCHANGED <<pend, run>>,
         upc' = upc \/ upc' # "queueStop"
  PROVE  StopsCounted'
<1>1. Count("stopInLoop")' = Count("stopInLoop")
  BY QueuesSame
<1>2. Count("stopInLoop") > 0 => Queued("stopInLoop")
  BY NotQueued
<1> QED BY <1>1, <1>2 DEF StopsCounted, StopPending

----
(* The steps of the invariant *)

\* A client that has just been made.
LEMMA InductiveInit == Init => Inductive
<1> SUFFICES ASSUME Init PROVE Inductive
  OBVIOUS
<1>1. pend = <<>> /\ run = <<>> /\ \A f : Count(f) = 0 /\ Occurrences(pend, f) = 0
  BY OccurrencesEmpty DEF Init, ConnectorInit, Count
<1>2. pend \in Seq(Functor) /\ run \in Seq(Functor)
  BY <1>1
<1>3. Shape
  <2>2. MaxCalls \in Nat /\ InitDelay \in InitDelay..MaxDelay
    BY CallsAssumption, DelayAssumption
  <2>3. ConnectorTypeOK
    BY <1>1, <2>2 DEF Init, ConnectorInit, ConnectorTypeOK
  <2>4. {alive, retry, wanted, connection, hack, started, stopped, seen, overtaken} \subseteq BOOLEAN
    BY Zenon DEF Init
  <2> QED BY <1>1, <1>2, <2>2, <2>3, <2>4 DEF Init, ConnectorInit, Shape
<1>4. OneThing /\ Unstarted /\ Stopping /\ BatchDue /\ Ending /\ aborted = "no"
  BY <1>1 DEF Init, ConnectorInit, OneThing, Unstarted, Stopping, BatchDue, Ending, Bool, Unbound
<1> QED BY <1>3, <1>4 DEF Inductive

\* An attempt is over: handleError() or handleWrite() takes its channel off the poller and closes its
\* socket, and it is tried again if that is still wanted.
LEMMA AttemptOver ==
  ASSUME Inductive, state = "kConnecting", RemoveAndResetChannel, place = "batch", cb = "none",
         \/ Retry(fds, connect, retryDelay, timers)
         \/ ~connect /\ fds' = fds - 1 /\ state' = "kConnected" /\ "write" \notin todo'
            /\ UNCHANGED <<timers, retryDelay>>,
         todo' \subseteq todo,
         UNCHANGED <<run, place, connect, gaveUp, aborted, client, link, users, seen>>
  PROVE  Inductive'
<1>1. /\ channel = "registered" /\ channel' = "removed" /\ pend' = Append(pend, "resetChannel")
      /\ timers = 0 /\ conn = "none" /\ Count("startInLoop") = 0 /\ upc # "queueStart"
      /\ fds \in Nat /\ fds >= 1
  BY OnlyOne DEF Inductive, OneThing, RemoveAndResetChannel
<1>2. /\ UNCHANGED <<run, place, connect, gaveUp, aborted, wanted, alive, retry, connection, closeCallback>>
      /\ UNCHANGED <<hack, conn, cb, upc, calls, started, stopped, overtaken, seen>>
  BY DEF client, members, link, users
<1>3. /\ fds' = fds - 1 /\ retryDelay' \in InitDelay..MaxDelay
      /\ \/ state' = "kDisconnected" /\ timers' = timers + (IF connect THEN 1 ELSE 0)
         \/ ~connect /\ state' = "kConnected" /\ timers' = timers /\ "write" \notin todo'
  BY NextDelay DEF Retry, Inductive, Shape, ConnectorTypeOK
<1>4. /\ pend' \in Seq(Functor) /\ run' \in Seq(Functor)
      /\ Count("resetChannel")' = Count("resetChannel") + 1
      /\ \A f : f # "resetChannel" => Count(f)' = Count(f)
  BY <1>1, <1>2, QueuePushed DEF Inductive, Functor, Raw
<1>5. \A f : Count(f) \in Nat
  BY CountNat DEF Inductive
<1>6. OneThing'
  <2>0. Count("startInLoop")' = 0 /\ Count("connectDestroyed")' = Count("connectDestroyed")
    BY <1>1, <1>4
  <2>9. Count("connectDestroyed") \in Nat
    BY <1>5
  <2>1. Count("resetChannel")' = 1
    BY <1>1, <1>4, <1>5 DEF Inductive, OneThing, Bool
  <2> QED BY <1>1, <1>2, <1>3, <2>0, <2>1, <2>9 DEF Inductive, OneThing, Bool
<1>7. Shape'
  <2>2. fds' \in Nat /\ timers' \in Nat
    BY <1>1, <1>3
  <2> QED BY <1>1, <1>2, <1>3, <1>4, <2>2 DEF Inductive, Shape, ConnectorTypeOK
<1>8. Unstarted' /\ Stopping'
  BY <1>1, <1>2, <1>3, <1>4, <1>5 DEF Inductive, Unstarted, Stopping, NoRestart
<1>9. BatchDue'
  BY <1>1, <1>2, <1>3 DEF Inductive, BatchDue, Ending, Unbound, Open
<1>10. Ending'
  BY <1>1, <1>2, <1>3, <1>4, <1>5 DEF Inductive, Ending, Unbound, Raw
<1> QED BY <1>2, <1>6, <1>7, <1>8, <1>9, <1>10 DEF Inductive

\* A callback is taken off the batch and does nothing.
LEMMA Skipped ==
  ASSUME Inductive, todo' \subseteq todo,
         UNCHANGED <<connector, pend, run, place, aborted, client, link, users, seen>>
  PROVE  Inductive'
<1>1. /\ UNCHANGED <<connect, state, channel, retryDelay, timers, fds, gaveUp, pend, run, place, aborted>>
      /\ UNCHANGED <<wanted, alive, retry, connection, closeCallback, hack, conn, cb, upc, calls>>
      /\ UNCHANGED <<started, stopped, overtaken, seen>>
  BY DEF connector, attempt, client, members, link, users
<1>2. \A f : Count(f)' = Count(f)
  BY <1>1, QueuesSame
<1>3. Shape' BY <1>1 DEF Inductive, Shape, ConnectorTypeOK
<1>4. OneThing' BY <1>1, <1>2 DEF Inductive, OneThing, Bool
<1>5. Unstarted' /\ Stopping' BY <1>1, <1>2 DEF Inductive, Unstarted, Stopping, NoRestart
<1>6. Unbound => Unbound' BY <1>1, <1>2, Zenon DEF Unbound
<1>7. BatchDue' BY <1>1, <1>6 DEF Inductive, BatchDue, NoRestart
<1>8. Ending' BY <1>1, <1>2, <1>6 DEF Inductive, Ending
<1> QED BY <1>1, <1>3, <1>4, <1>5, <1>7, <1>8 DEF Inductive

\* handleWrite() of an attempt that failed, or is not wanted any more, or was dealt with by handleError().
LEMMA WriteStep ==
  ASSUME Inductive, Write
  PROVE  Inductive'
<1>1. /\ cb = "none" /\ place = "batch" /\ "write" \in todo /\ todo' = todo \ {"write"}
      /\ UNCHANGED <<run, place, connect, gaveUp, client, link, users, seen>>
  BY DEF Write, Free, Dispatch
<1>2. CASE (HandleWriteRetry \/ HandleWriteClose) /\ UNCHANGED aborted
  BY <1>1, <1>2, AttemptOver DEF HandleWriteRetry, HandleWriteClose
<1>3. CASE HandleWriteLate /\ UNCHANGED <<state, channel, fds, timers, retryDelay, pend>>
  <2>1. state = "kDisconnected"
    BY <1>1, <1>3 DEF HandleWriteLate, Inductive, BatchDue, Shape, ConnectorTypeOK
  <2>2. UNCHANGED aborted
    BY <1>3, <2>1 DEF HandleWriteLate, Assert, Failed
  <2> QED BY <1>1, <1>3, <2>2, Skipped DEF connector, attempt
<1> QED BY <1>2, <1>3 DEF Write

\* handleError().
LEMMA ErrorStep ==
  ASSUME Inductive, Error
  PROVE  Inductive'
<1>1. /\ cb = "none" /\ place = "batch" /\ todo' = todo \ {"error"}
      /\ UNCHANGED <<run, place, connect, gaveUp, aborted, client, link, users, seen>>
  BY DEF Error, Free, Dispatch
<1>2. CASE state = "kConnecting"
  BY <1>1, <1>2, AttemptOver DEF Error, HandleError
<1>3. CASE state # "kConnecting"
  <2>1. UNCHANGED <<attempt, pend>> BY <1>3 DEF Error, HandleError
  <2> QED BY <1>1, <2>1, Skipped DEF connector
<1> QED BY <1>2, <1>3

\* handleWrite() of an attempt that succeeded, and newConnection().
LEMMA ConnectedStep ==
  ASSUME Inductive, Connected
  PROVE  Inductive'
<1>1. /\ cb = "none" /\ place = "batch" /\ "write" \in todo /\ todo' = todo \ {"write"}
      /\ state = "kConnecting" /\ connect /\ state' = "kConnected"
      /\ channel' = "removed" /\ pend' = Append(pend, "resetChannel")
      /\ connection' = TRUE /\ conn' = "up" /\ closeCallback' = "client" /\ cb' = "up" /\ seen' = TRUE
      /\ UNCHANGED <<fds, timers, retryDelay, run, place, connect, gaveUp, alive, retry, wanted, hack>>
      /\ UNCHANGED <<upc, calls, started, stopped, overtaken>>
      /\ aborted' = Failed("newConnection", alive)
  BY DEF Connected, Free, Dispatch, HandleWriteConnected, RemoveAndResetChannel, NewConnection, Assert, users
<1>2. /\ channel = "registered" /\ timers = 0 /\ conn = "none" /\ Count("startInLoop") = 0
      /\ upc # "queueStart"
  BY <1>1, OnlyOne DEF Inductive, OneThing
<1>3. alive
  BY <1>1, <1>2 DEF Inductive, Ending, Unbound
<1>4. aborted' = "no"
  BY <1>1, <1>3 DEF Failed, Inductive
<1>5. /\ pend' \in Seq(Functor) /\ run' \in Seq(Functor)
      /\ Count("resetChannel")' = Count("resetChannel") + 1
      /\ \A f : f # "resetChannel" => Count(f)' = Count(f)
  BY <1>1, QueuePushed DEF Inductive, Functor, Raw
<1>6. Shape' BY <1>1, <1>5 DEF Inductive, Shape, ConnectorTypeOK, Open
<1>7. OneThing'
  <2>1. Count("startInLoop")' = 0 /\ Count("connectDestroyed")' = Count("connectDestroyed")
    BY <1>2, <1>5
  <2>2. Count("connectDestroyed") \in Nat /\ Count("resetChannel") \in Nat BY CountNat DEF Inductive
  <2>3. Count("resetChannel")' = 1 BY <1>2, <1>5, <2>2 DEF Inductive, OneThing, Bool
  <2> QED BY <1>1, <1>2, <2>1, <2>2, <2>3 DEF Inductive, OneThing, Bool
<1>8. Unstarted' /\ Stopping'
  BY <1>1, <1>2, <1>5 DEF Inductive, Unstarted, Stopping, NoRestart
<1>9. BatchDue' BY <1>1, <1>2 DEF Inductive, BatchDue, Unbound, Open
<1>10. Ending' BY <1>1, <1>2, <1>3, <1>5 DEF Inductive, Ending, Open
<1> QED BY <1>4, <1>6, <1>7, <1>8, <1>9, <1>10 DEF Inductive

\* A retry timer: startInLoop().
LEMMA TimerStep ==
  ASSUME Inductive, Timer
  PROVE  Inductive' \/ Ended'
<1>1. /\ cb = "none" /\ place = "batch" /\ "timer" \in todo /\ todo' = todo \ {"timer"}
      /\ StartInLoop(connect, state, retryDelay, timers - 1)
      /\ UNCHANGED <<run, place, connect, pend, alive, retry, wanted, connection, closeCallback, hack>>
      /\ UNCHANGED <<conn, cb, upc, calls, started, stopped, overtaken, seen>>
  BY DEF Timer, Free, Dispatch, client, members, link, users
<1>2. /\ timers = 1 /\ conn = "none" /\ Count("startInLoop") = 0 /\ upc # "queueStart"
      /\ channel # "registered" /\ state = "kDisconnected" /\ started
      /\ (connect => channel = "none" \/ overtaken) /\ (connect => alive)
  <2>1. timers > 0 BY <1>1 DEF Inductive, BatchDue
  <2>2. /\ timers = 1 /\ conn = "none" /\ Count("startInLoop") = 0 /\ upc # "queueStart"
        /\ channel # "registered"
    BY <2>1, OnlyOne DEF Inductive
  <2>3. state = "kDisconnected"
    BY <2>1, <2>2 DEF Inductive, OneThing, Shape, ConnectorTypeOK
  <2>4. started BY <2>1, <2>2 DEF Inductive, Unstarted
  <2>5. (connect => channel = "none" \/ overtaken) /\ (connect => alive)
    BY <1>1, <2>2 DEF Inductive, BatchDue, NoRestart, Ending
  <2> QED BY <2>2, <2>3, <2>4, <2>5
<1>12. CASE connect /\ channel # "none" /\ aborted' # "no"
  <2>1. StartInLoop(connect, "kDisconnected", retryDelay, 0)
    BY <1>1, <1>2
  <2>2. /\ aborted' = "connecting" /\ overtaken' /\ channel' = "registered" /\ state' = "kConnecting"
        /\ fds' = fds + 1 /\ timers' = 0 /\ retryDelay' = retryDelay /\ gaveUp' = gaveUp
    BY <1>1, <1>2, <1>12, <2>1 DEF StartInLoop, Failed, Inductive
  <2>3. fds \in Nat /\ Count("connectDestroyed") \in Nat
    BY OnlyOne DEF Inductive
  <2>4. \A f : Count(f)' = Count(f)
    BY <1>1, QueuesSame
  <2>5. Shape' BY <1>1, <2>2, <2>3 DEF Inductive, Shape, ConnectorTypeOK
  <2>6. OneAtATime'
    BY <1>1, <1>2, <2>2, <2>3, <2>4 DEF Inductive, OneThing, OneAtATime, Bool
  <2>7. NoUseAfterFree' BY <1>1, <1>2, <1>12 DEF NoUseAfterFree, ConnectorAlive
  <2>8. ~stopped' BY <1>1, <1>12 DEF Inductive, Stopping
  <2> QED BY <1>1, <2>2, <2>5, <2>6, <2>7, <2>8 DEF Ended
<1>13. CASE ~(connect /\ channel # "none" /\ aborted' # "no")
  <2>1. /\ StartInLoop(connect, "kDisconnected", retryDelay, 0) /\ connect \in BOOLEAN
        /\ retryDelay \in InitDelay..MaxDelay
    BY <1>1, <1>2 DEF Inductive, Shape, ConnectorTypeOK
  <2>2. fds \in Nat /\ Count("connectDestroyed") \in Nat
    BY OnlyOne DEF Inductive
  <2>3. /\ aborted' = "no" /\ retryDelay' \in InitDelay..MaxDelay /\ gaveUp' \in BOOLEAN
        /\ \/ connect /\ channel = "none"
              /\ state' = "kConnecting" /\ channel' = "registered" /\ fds' = fds + 1 /\ timers' = 0
           \/ connect /\ state' = "kDisconnected" /\ channel' = channel /\ fds' = fds /\ timers' = 1
           \/ state' = "kDisconnected" /\ channel' = channel /\ fds' = fds /\ timers' = 0
    <3>1. CASE connect => channel = "none"
      BY <1>2, <2>1, <3>1, Started DEF Inductive
    <3>2. CASE connect /\ channel # "none"
      <4>2. gaveUp \in BOOLEAN /\ aborted' = "no"
        BY <1>13, <3>2 DEF Inductive, Shape, ConnectorTypeOK
      <4>4. \/ Retry(fds + 1, connect, retryDelay, 0) /\ UNCHANGED <<channel, gaveUp>>
            \/ /\ state' = "kDisconnected" /\ timers' = 0 /\ retryDelay' = retryDelay
               /\ gaveUp' = (gaveUp \/ connect) /\ UNCHANGED <<channel, fds>>
        BY <2>1, <3>2, <4>2 DEF StartInLoop
      <4>5. Retry(fds + 1, connect, retryDelay, 0) =>
              fds' = fds /\ state' = "kDisconnected" /\ timers' = 0 + 1 /\ retryDelay' \in InitDelay..MaxDelay
        <5>1. 0 \in Nat OBVIOUS
        <5> QED BY <2>1, <2>2, <3>2, <5>1, Retried, Zenon
      <4>7. 0 + 1 = 1 OBVIOUS
      <4>6. gaveUp' \in BOOLEAN
        BY <4>2, <4>4, Zenon
      <4> QED BY <2>1, <3>2, <4>2, <4>4, <4>5, <4>6, <4>7
    <3> QED BY <3>1, <3>2
  <2>4. \A f : Count(f)' = Count(f)
    BY <1>1, QueuesSame
  <2>6. Shape' BY <1>1, <2>2, <2>3 DEF Inductive, Shape, ConnectorTypeOK
  <2>7. OneThing' BY <1>1, <1>2, <2>2, <2>3, <2>4 DEF Inductive, OneThing, Bool
  <2>8. Unstarted' /\ Stopping' BY <1>1, <1>2, <2>4 DEF Inductive, Unstarted, Stopping, NoRestart
  <2>9. ~alive /\ Unbound => Unbound' BY <1>2, <2>3, <2>4 DEF Unbound
  <2>10. BatchDue'
    BY <1>1, <1>2, <2>3, <2>9 DEF Inductive, BatchDue, Ending, Open
  <2>11. Ending' BY <1>1, <1>2, <2>3, <2>4, <2>9 DEF Inductive, Ending
  <2> QED BY <2>3, <2>6, <2>7, <2>8, <2>10, <2>11 DEF Inductive
<1> QED BY <1>12, <1>13

\* The destructor's timer lets the connector go.
LEMMA HackTimerStep ==
  ASSUME Inductive, HackTimer
  PROVE  Inductive'
<1>1. /\ cb = "none" /\ place = "batch" /\ "hack" \in todo /\ todo' = todo \ {"hack"} /\ hack' = FALSE
      /\ UNCHANGED <<connect, state, channel, retryDelay, timers, fds, gaveUp, pend, run, place, aborted>>
      /\ UNCHANGED <<wanted, alive, retry, connection, closeCallback, conn, cb, upc, calls>>
      /\ UNCHANGED <<started, stopped, overtaken, seen>>
  BY DEF HackTimer, Free, Dispatch, connector, attempt, link, users
<1>2. hack /\ Unbound
  BY <1>1 DEF Inductive, BatchDue
<1>3. (\A f : Count(f)' = Count(f)) /\ Unbound'
  BY <1>1, <1>2, QueuesSame DEF Unbound
<1>4. Shape' BY <1>1 DEF Inductive, Shape, ConnectorTypeOK
<1>5. OneThing' BY <1>1, <1>3 DEF Inductive, OneThing, Bool
<1>6. Unstarted' /\ Stopping' BY <1>1, <1>3 DEF Inductive, Unstarted, Stopping, NoRestart
<1>7. BatchDue' BY <1>1 DEF Inductive, BatchDue, NoRestart
<1>8. Ending' BY <1>1, <1>2, <1>3 DEF Inductive, Ending
<1> QED BY <1>1, <1>4, <1>5, <1>6, <1>7, <1>8 DEF Inductive

\* The connection goes down: handleClose().
LEMMA DownKept ==
  ASSUME Inductive, cb = "none", conn \in Open, GoDown, todo' \subseteq todo, "close" \notin todo',
         channel = "none" \/ NoRestart, place # "poll",
         pend' \in Seq(Functor), run' \in Seq(Functor), place # "functors" => run' = <<>>,
         Occurrences(pend', "resetChannel") = Occurrences(pend, "resetChannel"),
         \A f : f # "forceCloseInLoop" => Count(f)' = Count(f),
         Count("forceCloseInLoop")' > 0 => closeCallback = "detached",
         UNCHANGED <<connector, place, aborted, client, users, seen>>
  PROVE  Inductive'
<1>1. /\ UNCHANGED <<connect, state, channel, retryDelay, timers, fds, gaveUp, place, aborted>>
      /\ UNCHANGED <<wanted, alive, retry, connection, closeCallback, hack, upc, calls>>
      /\ UNCHANGED <<started, stopped, overtaken, seen>>
      /\ conn' = "down" /\ cb' = "down"
  BY DEF connector, attempt, client, members, users, GoDown
<1>2. conn # "none"
  BY DEF Open
<1>3. Unbound => Unbound' BY <1>1 DEF Unbound, Raw
<1>4. Shape' BY <1>1 DEF Inductive, Shape, ConnectorTypeOK
<1>5. OneThing' BY <1>1, <1>2 DEF Inductive, OneThing, Bool
<1>6. Unstarted' /\ Stopping' BY <1>1, <1>2 DEF Inductive, Unstarted, Stopping, NoRestart
<1>7. BatchDue' BY <1>1, <1>2, <1>3 DEF Inductive, BatchDue, NoRestart
<1>8. Ending' BY <1>1, <1>2, <1>3 DEF Inductive, Ending
<1> QED BY <1>1, <1>4, <1>5, <1>6, <1>7, <1>8 DEF Inductive

\* The connection closes.
LEMMA CloseStep ==
  ASSUME Inductive, Close
  PROVE  Inductive'
<1>1. /\ cb = "none" /\ place = "batch" /\ "close" \in todo /\ todo' = todo \ {"close"} /\ GoDown
      /\ UNCHANGED <<run, place, connector, pend, aborted, client, users, seen>>
  BY DEF Close, Free, Dispatch
<1>2. conn \in Open /\ (channel = "none" \/ NoRestart)
  BY <1>1 DEF Inductive, BatchDue
<1>3. /\ pend' \in Seq(Functor) /\ run' \in Seq(Functor) /\ run' = <<>>
  BY <1>1 DEF Inductive, Shape
<1>4. \A f : Count(f)' = Count(f)
  BY <1>1, QueuesSame
<1>5. Count("forceCloseInLoop")' > 0 => closeCallback = "detached"
  BY <1>4 DEF Inductive, Ending
<1> QED BY <1>1, <1>2, <1>3, <1>4, <1>5, DownKept

\* forceCloseInLoop(), for the destructor.
LEMMA RunForceCloseStep ==
  ASSUME Inductive, RunForceClose
  PROVE  Inductive'
<1>1. /\ cb = "none" /\ TakeFunctor("forceCloseInLoop")
      /\ UNCHANGED <<connector, pend, aborted, client, users, seen>>
      /\ IF conn \in Open THEN GoDown ELSE UNCHANGED link
  BY DEF RunForceClose, Free
<1>2. /\ pend' \in Seq(Functor) /\ run' \in Seq(Functor) /\ place = "functors" /\ UNCHANGED <<place, todo>>
      /\ Count("forceCloseInLoop") = Count("forceCloseInLoop")' + 1 /\ Count("forceCloseInLoop")' \in Nat
      /\ \A f : f # "forceCloseInLoop" => Count(f)' = Count(f)
      /\ UNCHANGED pend /\ todo = {}
  BY <1>1, QueuePopped DEF Inductive, Shape
<1>3. closeCallback = "detached" /\ channel = "none"
  BY <1>2 DEF Inductive, Ending, Unbound
<1>4. CASE conn \in Open
  BY <1>1, <1>2, <1>3, <1>4, DownKept
<1>5. CASE conn \notin Open
  <2>1. /\ UNCHANGED <<connect, state, channel, retryDelay, timers, fds, gaveUp, pend, place, todo, aborted>>
        /\ UNCHANGED <<wanted, alive, retry, connection, closeCallback, hack, conn, cb, upc, calls>>
        /\ UNCHANGED <<started, stopped, overtaken, seen>>
    BY <1>1, <1>2, <1>5 DEF connector, attempt, client, members, link, users
  <2>2. Unbound => Unbound' BY <1>2, <2>1 DEF Unbound, Raw
  <2>3. Shape' BY <1>2, <2>1 DEF Inductive, Shape, ConnectorTypeOK
  <2>4. OneThing' BY <1>2, <2>1 DEF Inductive, OneThing, Bool
  <2>5. Unstarted' /\ Stopping' BY <1>2, <2>1 DEF Inductive, Unstarted, Stopping, NoRestart
  <2>6. BatchDue' BY <1>2, <2>1, <2>2 DEF Inductive, BatchDue, NoRestart
  <2>7. Ending' BY <1>2, <1>3, <2>1, <2>2 DEF Inductive, Ending
  <2> QED BY <2>1, <2>3, <2>4, <2>5, <2>6, <2>7 DEF Inductive
<1> QED BY <1>4, <1>5

\* startInLoop() that another thread queued.
LEMMA RunStartStep ==
  ASSUME Inductive, RunStart
  PROVE  Inductive'
<1>1. /\ cb = "none" /\ TakeFunctor("startInLoop") /\ StartInLoop(connect, state, retryDelay, timers)
      /\ UNCHANGED <<connect, pend, alive, retry, wanted, connection, closeCallback, hack>>
      /\ UNCHANGED <<conn, cb, upc, calls, started, stopped, overtaken, seen>>
  BY DEF RunStart, Free, client, members, link, users
<1>2. /\ pend' \in Seq(Functor) /\ run' \in Seq(Functor) /\ place = "functors" /\ UNCHANGED <<place, todo>>
      /\ Count("startInLoop") = Count("startInLoop")' + 1 /\ Count("startInLoop")' \in Nat
      /\ \A f : f # "startInLoop" => Count(f)' = Count(f)
      /\ UNCHANGED pend /\ todo = {}
  BY <1>1, QueuePopped DEF Inductive, Shape
<1>3. /\ Count("startInLoop")' = 0 /\ timers = 0 /\ conn = "none" /\ upc # "queueStart"
      /\ channel = "none" /\ state = "kDisconnected" /\ started /\ (connect => alive)
  <2>1. Count("startInLoop") > 0 BY <1>2
  <2>2. Count("startInLoop") = 1 /\ timers = 0 /\ conn = "none" /\ upc # "queueStart"
    BY <2>1, OnlyOne DEF Inductive
  <2>3. channel = "none" BY <2>1 DEF Inductive, OneThing
  <2>4. state = "kDisconnected" BY <2>2, <2>3 DEF Inductive, OneThing, Shape, ConnectorTypeOK
  <2>5. started BY <2>2 DEF Inductive, Unstarted
  <2>6. connect => alive BY <2>2 DEF Inductive, Ending, Unbound, Raw
  <2> QED BY <1>2, <2>2, <2>3, <2>4, <2>5, <2>6
<1>4. /\ aborted' = "no" /\ retryDelay' \in InitDelay..MaxDelay /\ gaveUp' \in BOOLEAN
      /\ \/ connect /\ state' = "kConnecting" /\ channel' = "registered" /\ fds' = fds + 1 /\ timers' = 0
         \/ connect /\ state' = "kDisconnected" /\ channel' = channel /\ fds' = fds /\ timers' = 1
         \/ state' = "kDisconnected" /\ channel' = channel /\ fds' = fds /\ timers' = 0
  <2>1. /\ StartInLoop(connect, "kDisconnected", retryDelay, 0) /\ connect \in BOOLEAN
        /\ retryDelay \in InitDelay..MaxDelay
    BY <1>1, <1>3 DEF Inductive, Shape, ConnectorTypeOK
  <2> QED BY <1>3, <2>1, Started DEF Inductive
<1>5. fds \in Nat /\ Count("connectDestroyed") \in Nat
  BY OnlyOne DEF Inductive
<1>6. Shape' BY <1>1, <1>2, <1>4, <1>5 DEF Inductive, Shape, ConnectorTypeOK
<1>7. OneThing' BY <1>1, <1>2, <1>3, <1>4, <1>5 DEF Inductive, OneThing, Bool
<1>8. Unstarted' /\ Stopping' BY <1>1, <1>2, <1>3 DEF Inductive, Unstarted, Stopping, NoRestart
<1>9. ~alive /\ Unbound => Unbound' BY <1>2, <1>3, <1>4 DEF Unbound, Raw
<1>10. BatchDue' BY <1>1, <1>2, <1>3 DEF Inductive, BatchDue, Ending
<1>11. Ending' BY <1>1, <1>2, <1>3, <1>4, <1>9 DEF Inductive, Ending, Unbound, Raw
<1> QED BY <1>4, <1>6, <1>7, <1>8, <1>10, <1>11 DEF Inductive

\* stopInLoop(): an attempt under way is over.
LEMMA RunStopStep ==
  ASSUME Inductive, RunStop
  PROVE  Inductive'
<1>1. /\ cb = "none" /\ TakeFunctor("stopInLoop") /\ StopInLoop
      /\ UNCHANGED <<connect, gaveUp, aborted, alive, retry, wanted, connection, closeCallback, hack>>
      /\ UNCHANGED <<conn, cb, upc, calls, started, stopped, overtaken, seen>>
  BY DEF RunStop, Free, client, members, link, users
<1>2. CASE state = "kConnecting"
  <2>1. pend' = Append(pend, "resetChannel") /\ channel' = "removed" /\ Retry(fds, connect, retryDelay, timers)
    BY <1>1, <1>2 DEF StopInLoop, RemoveAndResetChannel
  <2>2. /\ pend' \in Seq(Functor) /\ run' \in Seq(Functor) /\ place = "functors" /\ UNCHANGED <<place, todo>>
        /\ Count("stopInLoop") = Count("stopInLoop")' + 1 /\ Count("stopInLoop")' \in Nat
        /\ Count("resetChannel")' = Count("resetChannel") + 1
        /\ \A f : f # "stopInLoop" /\ f # "resetChannel" => Count(f)' = Count(f)
    BY <1>1, <2>1, QueueMoved DEF Inductive, Functor, Raw
  <2>3. Count("stopInLoop") > 0 /\ todo = {}
    BY <2>2 DEF Inductive, Shape
  <2>4. NoRestart \/ overtaken
    BY <2>3 DEF Inductive, Stopping
  <2>5. /\ channel = "registered" /\ timers = 0 /\ conn = "none" /\ Count("startInLoop") = 0
        /\ upc # "queueStart" /\ fds \in Nat /\ fds >= 1
    BY <1>2, OnlyOne DEF Inductive, OneThing
  <2>13. retryDelay \in InitDelay..MaxDelay /\ started
    BY <2>5 DEF Inductive, Shape, ConnectorTypeOK, Unstarted
  <2>14. /\ state' = "kDisconnected" /\ fds' = fds - 1 /\ retryDelay' \in InitDelay..MaxDelay
         /\ timers' = timers + (IF connect THEN 1 ELSE 0)
    BY <2>1, <2>13, NextDelay DEF Retry
  <2>15. connect => alive
    BY <2>3, <2>5 DEF Inductive, Ending, Unbound, Raw
  <2>6. /\ state' = "kDisconnected" /\ fds' = fds - 1 /\ fds' \in Nat /\ timers' \in {0, 1}
        /\ retryDelay' \in InitDelay..MaxDelay /\ started /\ (timers' = 1 => connect /\ alive)
    BY <2>5, <2>13, <2>14, <2>15
  <2>7. Shape' BY <1>1, <2>1, <2>2, <2>6 DEF Inductive, Shape, ConnectorTypeOK
  <2>8. OneThing'
    <3>1. Count("startInLoop")' = 0 /\ Count("connectDestroyed")' = Count("connectDestroyed")
      BY <2>2, <2>5
    <3>2. Count("connectDestroyed") \in Nat /\ Count("resetChannel") \in Nat BY CountNat DEF Inductive
    <3>3. Count("resetChannel")' = 1 BY <2>2, <2>5, <3>2 DEF Inductive, OneThing, Bool
    <3>4. fds' = Count("connectDestroyed")
      BY <2>5, <2>6, <3>2 DEF Inductive, OneThing, Bool
    <3>5. upc' # "queueStart" /\ conn' = "none"
      BY <1>1, <2>5
    <3> QED BY <2>1, <2>6, <3>1, <3>2, <3>3, <3>4, <3>5 DEF OneThing, Bool
  <2>9. NoRestart' \/ overtaken' BY <1>1, <2>4 DEF NoRestart
  <2>10. Unstarted' /\ Stopping' BY <1>1, <2>2, <2>5, <2>9 DEF Inductive, Unstarted, Stopping
  <2>11. BatchDue' BY <1>1, <2>2, <2>3, <2>9 DEF Inductive, BatchDue
  <2>12. Ending' BY <1>1, <2>1, <2>2, <2>5, <2>6 DEF Inductive, Ending, Unbound
  <2> QED BY <1>1, <2>7, <2>8, <2>10, <2>11, <2>12 DEF Inductive
<1>3. CASE state # "kConnecting"
  <2>1. UNCHANGED <<state, channel, retryDelay, timers, fds, pend>>
    BY <1>1, <1>3 DEF StopInLoop, attempt
  <2>2. /\ pend' \in Seq(Functor) /\ run' \in Seq(Functor) /\ place = "functors" /\ UNCHANGED <<place, todo>>
        /\ Count("stopInLoop") = Count("stopInLoop")' + 1 /\ Count("stopInLoop")' \in Nat
        /\ \A f : f # "stopInLoop" => Count(f)' = Count(f)
    BY <1>1, <2>1, QueuePopped DEF Inductive
  <2>3. Count("stopInLoop") > 0 /\ todo = {}
    BY <2>2 DEF Inductive, Shape
  <2>4. channel # "registered" /\ ~Unbound
    BY <1>3, <2>3 DEF Inductive, OneThing, Unbound, Raw
  <2>5. Shape' BY <1>1, <2>1, <2>2 DEF Inductive, Shape, ConnectorTypeOK
  <2>6. OneThing' BY <1>1, <2>1, <2>2 DEF Inductive, OneThing, Bool
  <2>7. Unstarted' /\ Stopping'
    BY <1>1, <2>1, <2>2, <2>3 DEF Inductive, Unstarted, Stopping, NoRestart
  <2>8. BatchDue' BY <1>1, <2>1, <2>2, <2>3 DEF Inductive, BatchDue, NoRestart
  <2>9. Ending' BY <1>1, <2>1, <2>2, <2>4 DEF Inductive, Ending
  <2> QED BY <1>1, <2>5, <2>6, <2>7, <2>8, <2>9 DEF Inductive
<1> QED BY <1>2, <1>3

\* resetChannel().
LEMMA RunResetStep ==
  ASSUME Inductive, RunReset
  PROVE  Inductive'
<1>1. /\ cb = "none" /\ TakeFunctor("resetChannel") /\ channel' = "none"
      /\ UNCHANGED <<connect, state, retryDelay, timers, fds, gaveUp, pend, aborted>>
      /\ UNCHANGED <<wanted, alive, retry, connection, closeCallback, hack, conn, cb, upc, calls>>
      /\ UNCHANGED <<started, stopped, overtaken, seen>>
  BY DEF RunReset, Free, client, members, link, users
<1>2. /\ pend' \in Seq(Functor) /\ run' \in Seq(Functor) /\ place = "functors" /\ UNCHANGED <<place, todo>>
      /\ Count("resetChannel") = Count("resetChannel")' + 1 /\ Count("resetChannel")' \in Nat
      /\ \A f : f # "resetChannel" => Count(f)' = Count(f)
      /\ \A f : Occurrences(pend', f) = Occurrences(pend, f)
      /\ todo = {}
  BY <1>1, QueuePopped DEF Inductive, Shape
<1>3. channel = "removed" /\ Count("resetChannel")' = 0 /\ ~Unbound
  BY <1>2 DEF Inductive, OneThing, Bool, Unbound
<1>4. Shape' BY <1>1, <1>2 DEF Inductive, Shape, ConnectorTypeOK
<1>5. OneThing' BY <1>1, <1>2, <1>3 DEF Inductive, OneThing, Bool
<1>6. Unstarted' BY <1>1, <1>2 DEF Inductive, Unstarted
<1>7. Stopping' BY <1>1, <1>2 DEF Inductive, Stopping, NoRestart
<1>8. BatchDue' BY <1>1, <1>2 DEF Inductive, BatchDue
<1>9. Ending' BY <1>1, <1>2, <1>3 DEF Inductive, Ending
<1> QED BY <1>1, <1>4, <1>5, <1>6, <1>7, <1>8, <1>9 DEF Inductive

\* connectDestroyed().
LEMMA RunDestroyedStep ==
  ASSUME Inductive, RunDestroyed
  PROVE  Inductive'
<1>1. /\ cb = "none" /\ TakeFunctor("connectDestroyed") /\ fds' = fds - 1
      /\ UNCHANGED <<connect, state, channel, retryDelay, timers, gaveUp, pend, aborted>>
      /\ UNCHANGED <<wanted, alive, retry, connection, closeCallback, hack, conn, cb, upc, calls>>
      /\ UNCHANGED <<started, stopped, overtaken, seen>>
  BY DEF RunDestroyed, Free, client, members, link, users
<1>2. /\ pend' \in Seq(Functor) /\ run' \in Seq(Functor) /\ place = "functors" /\ UNCHANGED <<place, todo>>
      /\ Count("connectDestroyed") = Count("connectDestroyed")' + 1 /\ Count("connectDestroyed")' \in Nat
      /\ \A f : f # "connectDestroyed" => Count(f)' = Count(f)
      /\ todo = {}
  BY <1>1, QueuePopped DEF Inductive, Shape
<1>3. fds' \in Nat
  BY <1>1, <1>2 DEF Inductive, OneThing, Bool
<1>4. Unbound => Unbound' BY <1>1, <1>2 DEF Unbound, Raw
<1>5. Shape' BY <1>1, <1>2, <1>3 DEF Inductive, Shape, ConnectorTypeOK
<1>6. OneThing'
  <2>1. Count("startInLoop")' = Count("startInLoop") /\ Count("resetChannel")' = Count("resetChannel")
    BY <1>2
  <2> QED BY <1>1, <1>2, <2>1 DEF Inductive, OneThing, Bool
<1>7. Unstarted' /\ Stopping' BY <1>1, <1>2 DEF Inductive, Unstarted, Stopping, NoRestart
<1>8. BatchDue' BY <1>1, <1>2 DEF Inductive, BatchDue, NoRestart
<1>9. Ending' BY <1>1, <1>2, <1>4 DEF Inductive, Ending
<1> QED BY <1>1, <1>5, <1>6, <1>7, <1>8, <1>9 DEF Inductive

\* The user's connection callback returns to newConnection().
LEMMA UpReturnsStep ==
  ASSUME Inductive, UpReturns
  PROVE  Inductive'
<1>1. /\ cb = "up" /\ cb' = "none"
      /\ UNCHANGED <<connect, state, channel, retryDelay, timers, fds, gaveUp, pend, run, place, todo, aborted>>
      /\ UNCHANGED <<wanted, alive, retry, connection, closeCallback, hack, conn, upc, calls>>
      /\ UNCHANGED <<started, stopped, overtaken, seen>>
  BY DEF UpReturns, connector, attempt, loop, client, members, users
<1>2. \A f : Count(f)' = Count(f)
  BY <1>1, QueuesSame
<1>3. Unbound => Unbound' BY <1>1, <1>2 DEF Unbound
<1>4. Shape' BY <1>1 DEF Inductive, Shape, ConnectorTypeOK
<1>5. OneThing' BY <1>1, <1>2 DEF Inductive, OneThing, Bool
<1>6. Unstarted' /\ Stopping' BY <1>1, <1>2 DEF Inductive, Unstarted, Stopping, NoRestart
<1>7. BatchDue' BY <1>1, <1>3 DEF Inductive, BatchDue, NoRestart
<1>8. Ending' BY <1>1, <1>2, <1>3 DEF Inductive, Ending, Open
<1> QED BY <1>1, <1>4, <1>5, <1>6, <1>7, <1>8 DEF Inductive

\* The user's connection callback returns to handleClose(), which calls removeConnection() of a client
\* that exists: it will connect again, or not.
LEMMA DownReturnsStep ==
  ASSUME Inductive, DownReturns
  PROVE  Inductive'
<1>1. /\ cb = "down" /\ conn' = "none" /\ pend' = Append(pend, "connectDestroyed")
      /\ UNCHANGED <<connect, state, channel, retryDelay, timers, fds, gaveUp>>
      /\ UNCHANGED <<run, place, todo, alive, retry, wanted, closeCallback, hack, upc, calls>>
      /\ UNCHANGED <<started, stopped, overtaken, seen>>
      /\ cb' \in {"none", "restart"}
      /\ cb' = "restart" => closeCallback = "client" /\ connection /\ wanted
      /\ (closeCallback = "client" => connection' = FALSE /\ aborted' = Failed("removeConnection", connection))
      /\ (closeCallback # "client" => UNCHANGED <<connection, aborted>>)
  BY DEF DownReturns, RemoveConnection, Assert, users, connector, attempt
<1>2. /\ pend' \in Seq(Functor) /\ run' \in Seq(Functor)
      /\ Count("connectDestroyed")' = Count("connectDestroyed") + 1
      /\ \A f : f # "connectDestroyed" => Count(f)' = Count(f) /\ Occurrences(pend', f) = Occurrences(pend, f)
  BY <1>1, QueuePushed DEF Inductive, Functor
<1>3. /\ conn = "down" /\ channel # "registered" /\ timers = 0 /\ Count("startInLoop") = 0
      /\ upc # "queueStart" /\ started /\ fds \in Nat /\ Count("connectDestroyed") \in Nat
      /\ (channel = "none" \/ NoRestart) /\ state = "kConnected"
  BY <1>1, OnlyOne DEF Inductive, OneThing, Ending, Unstarted, BatchDue
<1>4. "timer" \notin todo /\ "close" \notin todo /\ "write" \notin todo
  BY <1>3 DEF Inductive, BatchDue, Open
<1>5. alive => closeCallback = "client" /\ connection
  BY <1>3 DEF Inductive, Ending, Shape
<1>6. ~alive => closeCallback = "detached" /\ ~connection
  BY <1>3 DEF Inductive, Ending
<1>7. aborted' = "no" /\ ~connection'
  BY <1>1, <1>5, <1>6 DEF Inductive, Failed
<1>8. connection' \in BOOLEAN
  BY <1>1, Zenon DEF Inductive, Shape
<1>9. Shape'
  <2>1. ConnectorTypeOK' BY <1>1 DEF Inductive, Shape, ConnectorTypeOK
  <2>2. place' # "poll" BY <1>1 DEF Inductive, Shape
  <2> QED BY <1>1, <1>2, <1>8, <2>1, <2>2 DEF Inductive, Shape
<1>10. OneThing'
  <2>1. /\ Count("startInLoop")' = 0 /\ Count("resetChannel")' = Count("resetChannel")
        /\ fds = 1 + Count("connectDestroyed")
    BY <1>2, <1>3 DEF Inductive, OneThing, Bool
  <2>2. upc' # "queueStart"
    BY <1>1, <1>3
  <2> QED BY <1>1, <1>2, <1>3, <2>1, <2>2 DEF Inductive, OneThing, Bool
<1>11. Unstarted' /\ Stopping'
  BY <1>1, <1>2, <1>3 DEF Inductive, Unstarted, Stopping, NoRestart
<1>12. Unbound => Unbound' BY <1>1, <1>2 DEF Unbound, Raw
<1>13. BatchDue' BY <1>1, <1>4, <1>12 DEF Inductive, BatchDue
<1>14. cb' = "restart" => alive /\ started /\ ~stopped /\ channel = "none" /\ state = "kConnected"
  BY <1>1, <1>3, <1>6 DEF Inductive, Stopping, NoRestart
<1>15. Ending' BY <1>1, <1>2, <1>6, <1>7, <1>12, <1>14 DEF Inductive, Ending
<1> QED BY <1>7, <1>9, <1>10, <1>11, <1>13, <1>15 DEF Inductive

\* removeConnection() goes on to restart().
LEMMA RestartStep ==
  ASSUME Inductive, Restart
  PROVE  Inductive'
<1>1. /\ cb = "restart" /\ cb' = "none" /\ connect' = TRUE /\ StartInLoop(TRUE, "kDisconnected", InitDelay, timers)
      /\ overtaken' = (overtaken \/ StopPending)
      /\ UNCHANGED <<pend, run, place, todo, wanted, alive, retry, connection, closeCallback, hack, conn>>
      /\ UNCHANGED <<upc, calls, started, stopped, seen>>
  BY DEF Restart, ConnectAgain, loop, client, members
<1>2. /\ alive /\ ~hack /\ started /\ ~stopped /\ conn = "none" /\ channel = "none" /\ state = "kConnected"
      /\ Count("startInLoop") = 0 /\ upc # "queueStart" /\ timers = 0 /\ fds \in Nat
      /\ Count("connectDestroyed") \in Nat
  BY <1>1, OnlyOne DEF Inductive, OneThing, Ending
<1>3. \A f : Count(f)' = Count(f)
  BY <1>1, QueuesSame
<1>4. InitDelay \in InitDelay..MaxDelay
  BY DelayAssumption
<1>5. /\ aborted' = "no" /\ retryDelay' \in InitDelay..MaxDelay /\ gaveUp' \in BOOLEAN
      /\ \/ state' = "kConnecting" /\ channel' = "registered" /\ fds' = fds + 1 /\ timers' = 0
         \/ state' = "kDisconnected" /\ channel' = channel /\ fds' = fds /\ timers' = 1
         \/ state' = "kDisconnected" /\ channel' = channel /\ fds' = fds /\ timers' = 0
  <2>1. TRUE \in BOOLEAN /\ 0 \in Nat /\ (TRUE => channel = "none") /\ Shape /\ aborted = "no"
    BY <1>2 DEF Inductive
  <2>2. ASSUME NEW again \in BOOLEAN, again, StartInLoop(again, "kDisconnected", InitDelay, 0)
        PROVE  /\ aborted' = "no" /\ retryDelay' \in InitDelay..MaxDelay /\ gaveUp' \in BOOLEAN
               /\ \/ state' = "kConnecting" /\ channel' = "registered" /\ fds' = fds + 1 /\ timers' = 0
                  \/ state' = "kDisconnected" /\ channel' = channel /\ fds' = fds /\ timers' = 0 + 1
                  \/ state' = "kDisconnected" /\ channel' = channel /\ fds' = fds /\ timers' = 0
    BY <1>2, <1>4, <2>1, <2>2, Started, Zenon
  <2>3. 0 + 1 = 1
    OBVIOUS
  <2>4. StartInLoop(TRUE, "kDisconnected", InitDelay, 0)
    BY <1>1, <1>2
  <2> QED BY <2>1, <2>2, <2>3, <2>4, Zenon
<1>6. StopsCounted'
  BY <1>1, <1>3, Overtakes DEF Inductive
<1>7. overtaken' \in BOOLEAN
  BY <1>1, Zenon DEF Inductive, Shape, StopPending
<1>8. Shape'
  <2>1. ConnectorTypeOK' BY <1>1, <1>2, <1>5 DEF Inductive, Shape, ConnectorTypeOK
  <2> QED BY <1>1, <1>7, <2>1 DEF Inductive, Shape
<1>9. Count("resetChannel") = 0 /\ Occurrences(pend, "resetChannel") = 0
  <2>1. Count("resetChannel") = 0 BY <1>2 DEF Inductive, OneThing, Bool
  <2> QED BY <2>1, CountNat DEF Inductive, Count
<1>10. OneThing'
  <2>1. fds = Count("connectDestroyed")
    BY <1>2 DEF Inductive, OneThing, Bool
  <2> QED BY <1>1, <1>2, <1>3, <1>5, <1>9, <2>1 DEF OneThing, Bool
<1>11. Unstarted' BY <1>1, <1>2 DEF Unstarted
<1>12. Stopping' BY <1>1, <1>2, <1>6, <1>9 DEF Stopping, StopsCounted
<1>13. BatchDue' BY <1>1, <1>2 DEF Inductive, BatchDue, Open
<1>14. Ending' BY <1>1, <1>2, <1>3 DEF Inductive, Ending
<1> QED BY <1>5, <1>8, <1>10, <1>11, <1>12, <1>13, <1>14 DEF Inductive

\* The batch is done: doPendingFunctors swaps the queue.
LEMMA StartFunctorsStep ==
  ASSUME Inductive, cb = "none", StartFunctors, UNCHANGED <<client, link, users, seen>>
  PROVE  Inductive'
<1>1. /\ place = "batch" /\ todo = {} /\ place' = "functors" /\ run' = pend /\ pend' = <<>>
      /\ UNCHANGED <<connect, state, channel, retryDelay, timers, fds, gaveUp, todo, aborted>>
      /\ UNCHANGED <<wanted, alive, retry, connection, closeCallback, hack, conn, cb, upc, calls>>
      /\ UNCHANGED <<started, stopped, overtaken, seen>>
  BY DEF StartFunctors, connector, attempt, client, members, link, users
<1>2. run = <<>> /\ pend \in Seq(Functor)
  BY <1>1 DEF Inductive, Shape
<1>3. \A f : Count(f)' = Count(f) /\ Occurrences(pend', f) = 0
  <2>1. \A f : Count(f)' = 0 + Occurrences(pend, f) /\ Count(f) = Occurrences(pend, f) + 0
    BY <1>1, <1>2, OccurrencesEmpty DEF Count
  <2>2. \A f : Occurrences(pend, f) \in Nat BY <1>2, OccurrencesNat
  <2>3. \A f : Occurrences(pend', f) = 0 BY <1>1, OccurrencesEmpty
  <2> QED BY <2>1, <2>2, <2>3
<1>4. pend' \in Seq(Functor) /\ run' \in Seq(Functor)
  BY <1>1, <1>2
<1>5. Unbound => Unbound' BY <1>1, <1>3 DEF Unbound
<1>6. Shape' BY <1>1, <1>4 DEF Inductive, Shape, ConnectorTypeOK
<1>7. OneThing' BY <1>1, <1>3 DEF Inductive, OneThing, Bool
<1>8. Unstarted' /\ Stopping' BY <1>1, <1>3 DEF Inductive, Unstarted, Stopping, NoRestart
<1>9. BatchDue' BY <1>1, <1>5 DEF Inductive, BatchDue, NoRestart
<1>10. Ending' BY <1>1, <1>3, <1>5 DEF Inductive, Ending
<1> QED BY <1>1, <1>6, <1>7, <1>8, <1>9, <1>10 DEF Inductive

\* Back to epoll_wait.
LEMMA EndFunctorsStep ==
  ASSUME Inductive, cb = "none", EndFunctors, UNCHANGED <<client, link, users, seen>>
  PROVE  Inductive'
<1>1. /\ place = "functors" /\ run = <<>> /\ place' = "poll"
      /\ UNCHANGED <<connect, state, channel, retryDelay, timers, fds, gaveUp, pend, run, todo, aborted>>
      /\ UNCHANGED <<wanted, alive, retry, connection, closeCallback, hack, conn, cb, upc, calls>>
      /\ UNCHANGED <<started, stopped, overtaken, seen>>
  BY DEF EndFunctors, connector, attempt, client, members, link, users
<1>2. \A f : Count(f)' = Count(f)
  BY <1>1, QueuesSame
<1>3. Unbound => Unbound' BY <1>1, <1>2 DEF Unbound
<1>4. Shape' BY <1>1 DEF Inductive, Shape, ConnectorTypeOK
<1>5. OneThing' BY <1>1, <1>2 DEF Inductive, OneThing, Bool
<1>6. Unstarted' /\ Stopping' BY <1>1, <1>2 DEF Inductive, Unstarted, Stopping, NoRestart
<1>7. BatchDue' BY <1>1, <1>3 DEF Inductive, BatchDue, NoRestart
<1>8. Ending' BY <1>1, <1>2, <1>3 DEF Inductive, Ending
<1> QED BY <1>1, <1>4, <1>5, <1>6, <1>7, <1>8 DEF Inductive

\* epoll_wait returns.
LEMMA LoopPollStep ==
  ASSUME Inductive, NEW due \in SUBSET Events, LoopPoll(due)
  PROVE  Inductive'
<1>1. /\ place = "poll" /\ place' = "batch" /\ todo' = due
      /\ UNCHANGED <<connect, state, channel, retryDelay, timers, fds, gaveUp, pend, run, aborted>>
      /\ UNCHANGED <<wanted, alive, retry, connection, closeCallback, hack, conn, cb, upc, calls>>
      /\ UNCHANGED <<started, stopped, overtaken, seen>>
  BY DEF LoopPoll, Poll, connector, attempt, client, members, link, users
<1>2. /\ "write" \in due => channel = "registered"
      /\ "timer" \in due => timers > 0
      /\ "close" \in due => conn \in Open
      /\ "hack" \in due => hack /\ \A f \in Raw : ~Queued(f)
  BY DEF LoopPoll, Poll
<1>3. run = <<>> /\ cb = "none"
  BY <1>1 DEF Inductive, Shape
<1>4. \A f : Count(f)' = Count(f)
  BY <1>1, QueuesSame
<1>5. channel # "registered" => channel = "none" \/ NoRestart \/ (overtaken /\ conn = "none")
  <2> SUFFICES ASSUME channel = "removed" PROVE NoRestart \/ (overtaken /\ conn = "none")
    BY DEF Inductive, Shape, ConnectorTypeOK
  <2>1. Count("resetChannel") = 1
    BY DEF Inductive, OneThing, Bool
  <2>2. Count("resetChannel") = Occurrences(pend, "resetChannel") + 0
    BY <1>3, OccurrencesEmpty DEF Count
  <2>3. Occurrences(pend, "resetChannel") \in Nat
    BY CountNat DEF Inductive
  <2> QED BY <1>1, <2>1, <2>2, <2>3 DEF Inductive, Stopping
<1>6. "hack" \in due => hack /\ Unbound
  <2> SUFFICES ASSUME "hack" \in due PROVE Unbound
    BY <1>2
  <2>1. \A f \in Raw : Count(f) = 0
    BY <1>2, NotQueued DEF Inductive
  <2>2. channel # "removed"
    BY <2>1 DEF Inductive, OneThing, Bool, Raw
  <2>3. channel # "registered"
    BY <1>2, <2>1 DEF Inductive, Ending, Raw
  <2> QED BY <2>1, <2>2, <2>3 DEF Unbound, Inductive, Shape, ConnectorTypeOK
<1>7. Unbound => Unbound' BY <1>1, <1>4 DEF Unbound
<1>8. Shape' BY <1>1, <1>3 DEF Inductive, Shape, ConnectorTypeOK
<1>9. OneThing' BY <1>1, <1>4 DEF Inductive, OneThing, Bool
<1>10. Unstarted' /\ Stopping' BY <1>1, <1>4 DEF Inductive, Unstarted, Stopping, NoRestart
<1>11. BatchDue'
  <2>1. "write" \in due => conn = "none" /\ state # "kConnected"
    BY <1>2, OnlyOne DEF Inductive, OneThing
  <2>2. "timer" \in due \/ "close" \in due => channel # "registered"
    BY <1>2, OnlyOne DEF Inductive, Open
  <2>3. "timer" \in due => channel = "none" \/ NoRestart \/ overtaken
    BY <1>5, <2>2
  <2>4. "close" \in due => channel = "none" \/ NoRestart
    BY <1>2, <1>5, <2>2 DEF Open
  <2>5. NoRestart' <=> NoRestart
    BY <1>1 DEF NoRestart
  <2> QED BY <1>1, <1>2, <1>3, <1>6, <1>7, <2>1, <2>3, <2>4, <2>5 DEF BatchDue
<1>12. Ending' BY <1>1, <1>4, <1>7 DEF Inductive, Ending
<1> QED BY <1>1, <1>8, <1>9, <1>10, <1>11, <1>12 DEF Inductive

----
(* The users *)

\* The second half of another thread's call.
LEMMA OtherQueuesStep ==
  ASSUME Inductive, OtherQueues
  PROVE  Inductive'
<1>1. /\ upc # "idle" /\ upc' = "idle" /\ run' = run
      /\ UNCHANGED <<connect, state, channel, retryDelay, timers, fds, gaveUp, place, todo, aborted>>
      /\ UNCHANGED <<wanted, alive, retry, connection, closeCallback, hack, conn, cb, calls>>
      /\ UNCHANGED <<started, stopped, overtaken, seen>>
  BY DEF OtherQueues, connector, attempt, client, members, link
<1>2. alive /\ ~hack /\ "hack" \notin todo
  BY <1>1 DEF Inductive, Ending, BatchDue
<1>4. BatchDue' BY <1>1, <1>2 DEF Inductive, BatchDue, NoRestart
<1>5. CASE upc = "queueStart"
  <2>1. pend' = Append(pend, "startInLoop") BY <1>5 DEF OtherQueues
  <2>2. Shape /\ "startInLoop" \in Functor BY DEF Inductive, Functor, Raw
  <2>3. /\ pend' \in Seq(Functor) /\ run' \in Seq(Functor)
        /\ Count("startInLoop")' = Count("startInLoop") + 1
        /\ \A f : f # "startInLoop" => Count(f)' = Count(f)
    BY <1>1, <2>1, <2>2, QueuePushed
  <2>4. Count("startInLoop") = 0 BY <1>5, OnlyOne DEF Inductive
  <2>5. Shape' BY <1>1, <2>3 DEF Inductive, Shape, ConnectorTypeOK
  <2>6. OneThing'
    <3>1. channel = "none" /\ conn = "none" /\ timers = 0 /\ state # "kConnected"
      BY <1>5, OnlyOne DEF Inductive, OneThing
    <3> QED BY <1>1, <2>3, <2>4, <3>1 DEF Inductive, OneThing, Bool
  <2>7. Stopping'
    <3>1. Occurrences(pend', "resetChannel") = Occurrences(pend, "resetChannel")
      BY <1>1, <2>1, <2>2, QueuePushed
    <3>2. Count("stopInLoop")' = Count("stopInLoop") BY <2>3
    <3> QED BY <1>1, <3>1, <3>2 DEF Inductive, Stopping, NoRestart
  <2>8. Ending' BY <1>1, <1>2, <2>3 DEF Inductive, Ending
  <2>9. Unstarted' BY <1>1, <1>5 DEF Inductive, Unstarted
  <2> QED BY <1>1, <1>4, <2>5, <2>6, <2>7, <2>8, <2>9 DEF Inductive
<1>6. CASE upc # "queueStart"
  <2>1. pend' = Append(pend, "stopInLoop") BY <1>6 DEF OtherQueues
  <2>2. Shape /\ "stopInLoop" \in Functor BY DEF Inductive, Functor, Raw
  <2>3. /\ pend' \in Seq(Functor) /\ run' \in Seq(Functor)
        /\ Count("stopInLoop")' = Count("stopInLoop") + 1
        /\ \A f : f # "stopInLoop" => Count(f)' = Count(f)
    BY <1>1, <2>1, <2>2, QueuePushed
  <2>4. Shape' BY <1>1, <2>3 DEF Inductive, Shape, ConnectorTypeOK
  <2>5. OneThing' BY <1>1, <1>6, <2>3 DEF Inductive, OneThing, Bool
  <2>6. Stopping'
    <3>1. Occurrences(pend', "resetChannel") = Occurrences(pend, "resetChannel")
      BY <1>1, <2>1, <2>2, QueuePushed
    <3>2. upc = "queueStop" BY <1>1, <1>6 DEF Inductive, Shape
    <3> QED BY <1>1, <3>1, <3>2 DEF Inductive, Stopping, NoRestart
  <2>7. Ending' BY <1>1, <1>2, <2>3 DEF Inductive, Ending
  <2>8. Unstarted' BY <1>1, <2>3 DEF Inductive, Unstarted
  <2> QED BY <1>1, <1>4, <2>4, <2>5, <2>6, <2>7, <2>8 DEF Inductive
<1> QED BY <1>5, <1>6

\* connect() in the loop's thread.
LEMMA LoopConnectStep ==
  ASSUME Inductive, LoopConnect
  PROVE  Inductive'
<1>1. /\ alive /\ place # "poll" /\ ~started /\ started' = TRUE /\ wanted' = TRUE /\ connect' = TRUE
      /\ stopped' = FALSE /\ overtaken' = (overtaken \/ StopPending) /\ cb # "restart"
      /\ StartInLoop(TRUE, state, retryDelay, timers)
      /\ UNCHANGED <<pend, run, place, todo, alive, retry, connection, closeCallback, hack>>
      /\ UNCHANGED <<conn, cb, upc, calls, seen>>
  BY DEF LoopConnect, ConnectAgain, InLoop, Usable, loop, members, link
<1>2. /\ ~connect /\ upc # "queueStart" /\ Count("startInLoop") = 0 /\ timers = 0
      /\ state = "kDisconnected" /\ channel = "none" /\ conn = "none" /\ ~hack
      /\ retryDelay \in InitDelay..MaxDelay /\ fds \in Nat /\ Count("connectDestroyed") \in Nat
  BY <1>1, OnlyOne DEF Inductive, Unstarted, Ending, Stopping, Shape, ConnectorTypeOK
<1>3. StopsCounted' /\ overtaken' \in BOOLEAN
  <2>1. StopsCounted' BY <1>1, Overtakes DEF Inductive
  <2>2. overtaken' \in BOOLEAN BY <1>1, Zenon DEF Inductive, Shape, StopPending
  <2> QED BY <2>1, <2>2
<1>4. /\ aborted' = "no" /\ retryDelay' \in InitDelay..MaxDelay /\ gaveUp' \in BOOLEAN
      /\ \/ state' = "kConnecting" /\ channel' = "registered" /\ fds' = fds + 1 /\ timers' = 0
         \/ state' = "kDisconnected" /\ channel' = channel /\ fds' = fds /\ timers' = 1
         \/ state' = "kDisconnected" /\ channel' = channel /\ fds' = fds /\ timers' = 0
  <2>1. Shape /\ aborted = "no" BY DEF Inductive
  <2>2. ASSUME NEW again \in BOOLEAN, again, StartInLoop(again, "kDisconnected", retryDelay, 0)
        PROVE  /\ aborted' = "no" /\ retryDelay' \in InitDelay..MaxDelay /\ gaveUp' \in BOOLEAN
               /\ \/ state' = "kConnecting" /\ channel' = "registered" /\ fds' = fds + 1 /\ timers' = 0
                  \/ state' = "kDisconnected" /\ channel' = channel /\ fds' = fds /\ timers' = 0 + 1
                  \/ state' = "kDisconnected" /\ channel' = channel /\ fds' = fds /\ timers' = 0
    <3>1. 0 \in Nat OBVIOUS
    <3> QED BY <1>2, <2>1, <2>2, <3>1, Started, Zenon
  <2>3. 0 + 1 = 1
    OBVIOUS
  <2>4. TRUE \in BOOLEAN /\ StartInLoop(TRUE, "kDisconnected", retryDelay, 0)
    BY <1>1, <1>2
  <2> QED BY <2>2, <2>3, <2>4, Zenon
<1>5. \A f : Count(f)' = Count(f)
  BY <1>1, QueuesSame
<1>6. Shape'
  <2>1. ConnectorTypeOK' BY <1>1, <1>2, <1>4 DEF Inductive, Shape, ConnectorTypeOK
  <2>2. started' \in BOOLEAN /\ wanted' \in BOOLEAN /\ stopped' \in BOOLEAN BY <1>1, Zenon
  <2> QED BY <1>1, <1>3, <2>1, <2>2 DEF Inductive, Shape
<1>7. OneThing'
  <2>1. Count("resetChannel") = 0 /\ fds = Count("connectDestroyed")
    BY <1>2 DEF Inductive, OneThing, Bool
  <2> QED BY <1>1, <1>2, <1>4, <1>5, <2>1 DEF OneThing, Bool
<1>8. Unstarted' BY <1>1 DEF Unstarted
<1>9. Stopping'
  <2>1. Occurrences(pend, "resetChannel") = 0
    <3>1. Count("resetChannel") = 0 BY <1>2 DEF Inductive, OneThing, Bool
    <3> QED BY <3>1, CountNat DEF Inductive, Count
  <2> QED BY <1>1, <1>3, <2>1 DEF Stopping, StopsCounted
<1>10. BatchDue' BY <1>1, <1>2, <1>4 DEF Inductive, BatchDue, Ending, Open
<1>11. Ending' BY <1>1, <1>2, <1>5 DEF Inductive, Ending
<1> QED BY <1>4, <1>6, <1>7, <1>8, <1>9, <1>10, <1>11 DEF Inductive

\* connect() in another thread, up to the queueing.
LEMMA OtherConnectStep ==
  ASSUME Inductive, OtherConnect
  PROVE  Inductive'
<1>1. /\ alive /\ ~started /\ started' = TRUE /\ wanted' = TRUE /\ connect' = TRUE
      /\ stopped' = FALSE /\ overtaken' = (overtaken \/ StopPending)
      /\ upc = "idle" /\ upc' = "queueStart"
      /\ UNCHANGED <<state, channel, retryDelay, timers, fds, gaveUp, pend, run, place, todo, aborted>>
      /\ UNCHANGED <<alive, retry, connection, closeCallback, hack, conn, cb, calls, seen>>
  BY DEF OtherConnect, ConnectAgain, Usable, attempt, loop, members, link
<1>2. /\ ~connect /\ Count("startInLoop") = 0 /\ timers = 0
      /\ state = "kDisconnected" /\ channel = "none" /\ conn = "none" /\ ~hack
  BY <1>1 DEF Inductive, Unstarted, Ending
<1>3. Count("resetChannel") = 0 /\ StopsCounted' /\ overtaken' \in BOOLEAN
  <2>1. Count("resetChannel") = 0 BY <1>2 DEF Inductive, OneThing, Bool
  <2>2. StopsCounted' BY <1>1, Overtakes DEF Inductive
  <2>3. overtaken' \in BOOLEAN BY <1>1, Zenon DEF Inductive, Shape, StopPending
  <2> QED BY <2>1, <2>2, <2>3
<1>4. Occurrences(pend, "resetChannel") = 0
  BY <1>3, CountNat DEF Inductive, Count
<1>5. \A f : Count(f)' = Count(f)
  BY <1>1, QueuesSame
<1>6. Shape'
  <2>1. ConnectorTypeOK' BY <1>1 DEF Inductive, Shape, ConnectorTypeOK
  <2>2. started' \in BOOLEAN /\ wanted' \in BOOLEAN /\ stopped' \in BOOLEAN BY <1>1, Zenon
  <2> QED BY <1>1, <1>3, <2>1, <2>2 DEF Inductive, Shape
<1>7. OneThing' BY <1>1, <1>2, <1>5 DEF Inductive, OneThing, Bool
<1>8. Unstarted' BY <1>1 DEF Unstarted
<1>9. Stopping' BY <1>1, <1>3, <1>4 DEF Stopping, StopsCounted
<1>10. BatchDue' BY <1>1, <1>2 DEF Inductive, BatchDue
<1>11. Ending' BY <1>1, <1>2, <1>5 DEF Inductive, Ending
<1> QED BY <1>1, <1>6, <1>7, <1>8, <1>9, <1>10, <1>11 DEF Inductive

\* stop() in the loop's thread.
LEMMA LoopStopStep ==
  ASSUME Inductive, LoopStop
  PROVE  Inductive'
<1>1. /\ alive /\ cb # "restart" /\ calls < MaxCalls /\ calls' = calls + 1
      /\ wanted' = FALSE /\ connect' = FALSE /\ stopped' = TRUE /\ pend' = Append(pend, "stopInLoop")
      /\ UNCHANGED <<state, channel, retryDelay, timers, fds, gaveUp, run, place, todo, aborted>>
      /\ UNCHANGED <<alive, retry, connection, closeCallback, hack, conn, cb, upc, started, overtaken, seen>>
  BY DEF LoopStop, InLoop, Usable, attempt, members, link
<1>2. ~hack /\ "hack" \notin todo
  BY <1>1 DEF Inductive, Ending, BatchDue
<1>3. /\ pend' \in Seq(Functor) /\ run' \in Seq(Functor)
      /\ \A f : f # "stopInLoop" => Count(f)' = Count(f)
  BY <1>1, QueuePushed DEF Inductive, Functor, Raw
<1>4. Shape'
  <2>1. ConnectorTypeOK' BY <1>1 DEF Inductive, Shape, ConnectorTypeOK
  <2>2. stopped' \in BOOLEAN /\ wanted' \in BOOLEAN BY <1>1, Zenon
  <2>3. calls' \in 0..MaxCalls BY <1>1, CallsAssumption DEF Inductive, Shape
  <2> QED BY <1>1, <1>3, <2>1, <2>2, <2>3 DEF Inductive, Shape
<1>5. OneThing' BY <1>1, <1>3 DEF Inductive, OneThing, Bool
<1>6. Unstarted' BY <1>1, <1>3 DEF Inductive, Unstarted
<1>7. Stopping' BY <1>1 DEF Stopping, NoRestart
<1>8. BatchDue' BY <1>1, <1>2 DEF Inductive, BatchDue, NoRestart
<1>9. Ending' BY <1>1, <1>2, <1>3 DEF Inductive, Ending
<1> QED BY <1>1, <1>4, <1>5, <1>6, <1>7, <1>8, <1>9 DEF Inductive

\* stop() in another thread, up to the queueing.
LEMMA OtherStopStep ==
  ASSUME Inductive, OtherStop
  PROVE  Inductive'
<1>1. /\ alive /\ calls < MaxCalls /\ calls' = calls + 1 /\ upc = "idle" /\ upc' = "queueStop"
      /\ wanted' = FALSE /\ connect' = FALSE
      /\ UNCHANGED <<state, channel, retryDelay, timers, fds, gaveUp, pend, run, place, todo, aborted>>
      /\ UNCHANGED <<alive, retry, connection, closeCallback, hack, conn, cb, started, stopped, overtaken, seen>>
  BY DEF OtherStop, Usable, attempt, loop, members, link
<1>2. ~hack /\ "hack" \notin todo
  BY <1>1 DEF Inductive, Ending, BatchDue
<1>3. \A f : Count(f)' = Count(f)
  BY <1>1, QueuesSame
<1>4. Shape'
  <2>1. ConnectorTypeOK' BY <1>1 DEF Inductive, Shape, ConnectorTypeOK
  <2>2. wanted' \in BOOLEAN BY <1>1, Zenon
  <2>3. calls' \in 0..MaxCalls BY <1>1, CallsAssumption DEF Inductive, Shape
  <2> QED BY <1>1, <2>1, <2>2, <2>3 DEF Inductive, Shape
<1>5. OneThing' BY <1>1, <1>3 DEF Inductive, OneThing, Bool
<1>6. Unstarted' BY <1>1, <1>3 DEF Inductive, Unstarted
<1>7. Stopping' BY <1>1 DEF Stopping, NoRestart
<1>8. BatchDue' BY <1>1, <1>2 DEF Inductive, BatchDue, NoRestart
<1>9. Ending' BY <1>1, <1>2, <1>3 DEF Inductive, Ending
<1> QED BY <1>1, <1>4, <1>5, <1>6, <1>7, <1>8, <1>9 DEF Inductive

\* disconnect().
LEMMA DisconnectStep ==
  ASSUME Inductive, Disconnect
  PROVE  Inductive'
<1>1. /\ alive /\ calls < MaxCalls /\ calls' = calls + 1 /\ wanted' = FALSE
      /\ conn' = IF connection /\ conn = "up" THEN "closing" ELSE conn
      /\ UNCHANGED <<connect, state, channel, retryDelay, timers, fds, gaveUp, pend, run, place, todo, aborted>>
      /\ UNCHANGED <<alive, retry, connection, closeCallback, hack, cb, upc, started, stopped, overtaken, seen>>
  BY DEF Disconnect, Usable, connector, attempt, loop, members
<1>2. /\ conn' \in Open <=> conn \in Open
      /\ conn' = "none" <=> conn = "none"
      /\ conn' = "down" <=> conn = "down"
  BY <1>1 DEF Open
<1>3. ~hack /\ "hack" \notin todo
  BY <1>1 DEF Inductive, Ending, BatchDue
<1>4. \A f : Count(f)' = Count(f)
  BY <1>1, QueuesSame
<1>5. Shape'
  <2>1. ConnectorTypeOK' BY <1>1 DEF Inductive, Shape, ConnectorTypeOK
  <2>2. wanted' \in BOOLEAN BY <1>1, Zenon
  <2>3. calls' \in 0..MaxCalls BY <1>1, CallsAssumption DEF Inductive, Shape
  <2>4. conn' \in {"none", "down"} \cup Open BY <1>2 DEF Inductive, Shape
  <2> QED BY <1>1, <2>1, <2>2, <2>3, <2>4 DEF Inductive, Shape
<1>6. OneThing' BY <1>1, <1>2, <1>4 DEF Inductive, OneThing, Bool
<1>7. Unstarted' BY <1>1, <1>2, <1>4 DEF Inductive, Unstarted
<1>8. Stopping' BY <1>1, <1>4 DEF Inductive, Stopping, NoRestart
<1>9. BatchDue' BY <1>1, <1>2, <1>3 DEF Inductive, BatchDue, NoRestart
<1>10. Ending' BY <1>1, <1>2, <1>3, <1>4 DEF Inductive, Ending
<1> QED BY <1>1, <1>5, <1>6, <1>7, <1>8, <1>9, <1>10 DEF Inductive

\* The destructor.
LEMMA DestroyStep ==
  ASSUME Inductive, Destroy
  PROVE  Inductive'
<1>1. /\ alive /\ cb # "restart" /\ alive' = FALSE /\ Settled /\ upc = "idle" /\ connection' = FALSE
      /\ IF connection THEN DestroyConnected ELSE DestroyIdle
      /\ UNCHANGED <<state, channel, retryDelay, timers, fds, gaveUp, run, place, todo, aborted>>
      /\ UNCHANGED <<retry, wanted, conn, cb, upc, calls, started, stopped, overtaken, seen>>
  BY DEF Destroy, InLoop, Usable, attempt, link, users
<1>2. ~hack /\ "hack" \notin todo /\ closeCallback # "detached"
  BY <1>1 DEF Inductive, Ending, BatchDue
<1>3. alive' \in BOOLEAN /\ connection' \in BOOLEAN
  BY <1>1, Zenon
<1>4. CASE connection
  <2>1. PICK unique \in BOOLEAN :
          /\ closeCallback' = "detached"
          /\ pend' = IF unique THEN Append(pend, "forceCloseInLoop") ELSE pend
          /\ UNCHANGED <<connect, hack>>
    BY <1>1, <1>4 DEF DestroyConnected
  <2>2. /\ pend' \in Seq(Functor) /\ run' \in Seq(Functor)
        /\ \A f : f # "forceCloseInLoop" => Count(f)' = Count(f) /\ Occurrences(pend', f) = Occurrences(pend, f)
    <3>1. CASE unique BY <1>1, <2>1, <3>1, QueuePushed DEF Inductive, Functor
    <3>2. CASE ~unique
      <4>1. UNCHANGED <<pend, run>> BY <1>1, <2>1, <3>2
      <4> QED BY <4>1, QueuesSame DEF Inductive, Shape
    <3> QED BY <3>1, <3>2
  <2>3. conn # "none" /\ timers = 0 /\ channel # "registered"
    BY <1>1, <1>4, OnlyOne DEF Inductive, Ending
  <2>4. \A f \in Raw : Count(f) = 0
    BY <1>1, <1>4, NotQueued DEF Inductive, Settled
  <2>5. channel = "none"
    <3>1. Count("resetChannel") = 0 BY <2>4 DEF Raw
    <3> QED BY <2>3, <3>1 DEF Inductive, OneThing, Bool, Shape, ConnectorTypeOK
  <2>6. Unbound'
    <3>1. \A f \in Raw : Count(f)' = 0 BY <2>2, <2>4 DEF Raw
    <3> QED BY <1>1, <2>5, <3>1 DEF Unbound
  <2>7. Shape' BY <1>1, <1>3, <2>1, <2>2 DEF Inductive, Shape, ConnectorTypeOK
  <2>8. OneThing' BY <1>1, <2>2 DEF Inductive, OneThing, Bool
  <2>9. Unstarted' /\ Stopping' BY <1>1, <2>1, <2>2 DEF Inductive, Unstarted, Stopping, NoRestart
  <2>10. BatchDue' BY <1>1, <1>2, <2>5 DEF Inductive, BatchDue
  <2>11. Ending' BY <1>1, <1>2, <2>1, <2>3, <2>5, <2>6 DEF Inductive, Ending
  <2> QED BY <1>1, <2>7, <2>8, <2>9, <2>10, <2>11 DEF Inductive
<1>5. CASE ~connection
  <2>1. connect' = FALSE /\ pend' = Append(pend, "stopInLoop") /\ hack' = TRUE /\ UNCHANGED closeCallback
    BY <1>1, <1>5 DEF DestroyIdle
  <2>2. conn = "none"
    BY <1>1, <1>5 DEF Inductive, Ending
  <2>3. /\ pend' \in Seq(Functor) /\ run' \in Seq(Functor)
        /\ Count("stopInLoop")' = Count("stopInLoop") + 1
        /\ \A f : f # "stopInLoop" => Count(f)' = Count(f)
    BY <1>1, <2>1, QueuePushed DEF Inductive, Functor, Raw
  <2>4. Count("stopInLoop")' > 0
    BY <2>3, CountNat DEF Inductive
  <2>5. Shape'
    <3>1. ConnectorTypeOK' BY <1>1, <2>1 DEF Inductive, Shape, ConnectorTypeOK
    <3>2. hack' \in BOOLEAN BY <2>1, Zenon
    <3> QED BY <1>1, <1>3, <2>1, <2>3, <3>1, <3>2 DEF Inductive, Shape
  <2>6. OneThing' BY <1>1, <2>3 DEF Inductive, OneThing, Bool
  <2>7. Unstarted' /\ Stopping' BY <1>1, <2>1, <2>3 DEF Inductive, Unstarted, Stopping, NoRestart
  <2>8. BatchDue' BY <1>1, <1>2, <2>1 DEF Inductive, BatchDue, NoRestart
  <2>9. Ending' BY <1>1, <1>2, <2>1, <2>2, <2>3, <2>4 DEF Inductive, Ending
  <2> QED BY <1>1, <2>5, <2>6, <2>7, <2>8, <2>9 DEF Inductive
<1> QED BY <1>4, <1>5

\* Every step of the loop and the users keeps the invariant, unless it ends the program.
LEMMA InductiveStep == Inductive /\ [Next]_vars => Inductive' \/ Ended'
<1> SUFFICES ASSUME Inductive, [Next]_vars PROVE Inductive' \/ Ended'
  OBVIOUS
<1>1. CASE UNCHANGED vars
  BY <1>1, Skipped DEF vars, loop
<1>2. CASE LoopStep
  BY <1>2, ConnectedStep, WriteStep, ErrorStep, TimerStep, HackTimerStep, CloseStep, RunStartStep,
     RunStopStep, RunResetStep, RunForceCloseStep, RunDestroyedStep, UpReturnsStep, DownReturnsStep,
     RestartStep, StartFunctorsStep, EndFunctorsStep
  DEF LoopStep, Free
<1>3. CASE \E due \in SUBSET Events : LoopPoll(due)
  BY <1>3, LoopPollStep
<1>4. CASE OtherQueues \/ LoopConnect \/ LoopStop \/ Disconnect \/ Destroy \/ OtherConnect \/ OtherStop
  BY <1>4, OtherQueuesStep, LoopConnectStep, LoopStopStep, DisconnectStep, DestroyStep,
     OtherConnectStep, OtherStopStep
<1> QED BY <1>1, <1>2, <1>3, <1>4 DEF Next

\* Nothing happens after the end.
LEMMA NothingElse == Ended /\ [Next]_vars => Ended' /\ UNCHANGED vars
<1> SUFFICES ASSUME Ended, [Next]_vars PROVE Ended' /\ UNCHANGED vars
  OBVIOUS
<1>1. aborted # "no" /\ cb = "none" /\ place = "batch"
  BY DEF Ended
<1>2. ~LoopStep
  BY <1>1 DEF LoopStep, Free, Connected, Write, Error, Timer, HackTimer, Close, RunStart, RunStop, RunReset,
     RunForceClose, RunDestroyed, UpReturns, DownReturns, Restart
<1>3. ~\E due \in SUBSET Events : LoopPoll(due)
  BY <1>1 DEF LoopPoll, Poll
<1>4. ~(OtherQueues \/ LoopConnect \/ LoopStop \/ Disconnect \/ Destroy \/ OtherConnect \/ OtherStop)
  BY <1>1 DEF OtherQueues, LoopConnect, LoopStop, Disconnect, Destroy, OtherConnect, OtherStop, InLoop, Usable
<1>5. UNCHANGED vars
  BY <1>2, <1>3, <1>4 DEF Next
<1>6. /\ UNCHANGED <<connect, state, channel, retryDelay, timers, fds, gaveUp, pend, run, place, todo, aborted>>
      /\ UNCHANGED <<wanted, alive, retry, connection, closeCallback, hack, conn, cb, upc, calls>>
      /\ UNCHANGED <<started, stopped, overtaken, seen>>
  BY <1>5 DEF vars, connector, attempt, loop, client, members, link, users
<1>7. Shape' BY <1>6 DEF Ended, Shape, ConnectorTypeOK
<1>8. OneAtATime'
  <2>1. \A f : Count(f)' = Count(f) BY <1>6, QueuesSame
  <2> QED BY <1>6, <2>1 DEF Ended, OneAtATime, Bool
<1>9. NoUseAfterFree'
  <2>1. \A f : Queued(f)' <=> Queued(f) BY <1>6 DEF Queued
  <2> QED BY <1>6, <2>1 DEF Ended, NoUseAfterFree, ConnectorAlive
<1> QED BY <1>5, <1>6, <1>7, <1>8, <1>9 DEF Ended

\* The invariant holds in every reachable state.
LEMMA Invariance == Spec => [](Inductive \/ Ended)
BY InductiveInit, InductiveStep, NothingElse, PTL DEF Spec

----
(* Theorems *)

\* TCPClient and Connector keep their types: retryDelayMs_ stays between its bounds, and the loop comes
\* back to epoll_wait with everything called.
THEOREM ClientTypeCorrect == Spec => []TypeOK
<1>1. Inductive \/ Ended => TypeOK BY ShapeTypes DEF Inductive, Ended
<1> QED BY <1>1, Invariance, PTL

\* One socket at a time (retry(), handleWrite(), newConnection(), removeConnection()), and none leaked.
THEOREM OneSocket == Spec => []OneAtATime
<1>1. Inductive \/ Ended => OneAtATime
  <2> SUFFICES ASSUME Inductive PROVE OneAtATime
    BY DEF Ended
  <2>1. Count("startInLoop") \in Nat /\ timers \in Nat
    BY OnlyOne DEF Inductive
  <2> QED BY <2>1 DEF Inductive, OneThing, OneAtATime, Bool
<1> QED BY <1>1, Invariance, PTL

\* No assertion of startInLoop(), handleWrite() or removeConnection() fails, connecting()'s only after a
\* stop() was overtaken by a connect() or a restart(), and nobody calls a connector or a client that is
\* gone.
THEOREM ClientAssertsHold == Spec => []AssertsHold
<1>1. Inductive \/ Ended => AssertsHold
  <2> SUFFICES ASSUME Inductive PROVE AssertsHold
    BY DEF Ended, AssertsHold
  <2>1. ASSUME ~ConnectorAlive PROVE channel = "none" /\ \A f \in Raw : ~Queued(f)
    <3>1. Unbound BY <2>1 DEF Inductive, Ending, ConnectorAlive
    <3> QED BY <3>1, NotQueued DEF Inductive, Unbound
  <2>2. ~alive /\ conn # "none" => closeCallback = "detached"
    BY DEF Inductive, Ending
  <2> QED BY <2>1, <2>2 DEF Inductive, AssertsHold, NoUseAfterFree
<1> QED BY <1>1, Invariance, PTL

\* The loop's thread's stop() is final: no connection comes up after it until connect() is called ("do
\* not connect").
THEOREM StopIsFinal == Spec => StopStays
<1>1. (Inductive \/ Ended) /\ [Next]_vars => [stopped => conn' # "up" \/ conn = "up"]_vars
  <2> SUFFICES ASSUME Inductive, Next, stopped, conn' = "up" PROVE conn = "up"
    BY DEF Ended
  <2>1. ~connect
    BY DEF Inductive, Stopping
  <2>2. ~Connected
    BY <2>1 DEF Connected, HandleWriteConnected
  <2>3. CASE LoopStep
    BY <2>2, <2>3 DEF LoopStep, Write, Error, Timer, HackTimer, Close, GoDown, RunStart, RunStop, RunReset,
       RunForceClose, RunDestroyed, UpReturns, DownReturns, Restart, link
  <2>4. CASE OtherQueues \/ (\E due \in SUBSET Events : LoopPoll(due))
    BY <2>4 DEF OtherQueues, LoopPoll, link
  <2>5. CASE LoopConnect \/ LoopStop \/ Disconnect \/ Destroy \/ OtherConnect \/ OtherStop
    BY <2>5 DEF LoopConnect, LoopStop, Disconnect, Destroy, OtherConnect, OtherStop, link
  <2> QED BY <2>3, <2>4, <2>5 DEF Next
<1> QED BY <1>1, Invariance, PTL DEF Spec, StopStays
====
