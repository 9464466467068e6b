---- MODULE TimerQueueProofs ----
(***************************************************************************)
(* TimerQueue for any heap, any delays and any threads: the types, that    *)
(* every Timer has exactly one owner until it is deleted, that none is     *)
(* lost, that the timerfd covers the earliest of them, and that a          *)
(* cancelled timer stays cancelled.                                        *)
(***************************************************************************)
EXTENDS TimerQueue, WellFoundedInduction, TLAPS

(***************************************************************************)
(* The functor queue, as any sequence q of entries.                        *)
(***************************************************************************)
Entry == ({"add"} \X Addrs) \cup ({"cancel"} \X Ids)

Positions(q, kind) == {i \in DOMAIN q : q[i][1] = kind}

Adds(q) == {q[i][2] : i \in Positions(q, "add")}

Cancels(q) == {q[i][2] : i \in Positions(q, "cancel")}

AddsOnce(q) == \A i, j \in Positions(q, "add") : q[i][2] = q[j][2] => i = j

\* A functor of addTimer() is queued.
LEMMA AddPushed ==
  ASSUME NEW q \in Seq(Entry), AddsOnce(q), NEW a \in Addrs, a \notin Adds(q)
  PROVE  LET r == Append(q, <<"add", a>>)
         IN r \in Seq(Entry) /\ AddsOnce(r) /\ Adds(r) = Adds(q) \cup {a} /\ Cancels(r) = Cancels(q)
<1> DEFINE r == Append(q, <<"add", a>>)
<1>1. r \in Seq(Entry)
  BY DEF Entry
<1>2. /\ DOMAIN q = 1..Len(q) /\ Len(q) \in Nat
      /\ DOMAIN r = DOMAIN q \cup {Len(q) + 1} /\ Len(q) + 1 \notin DOMAIN q
      /\ r[Len(q) + 1] = <<"add", a>>
      /\ \A i \in DOMAIN q : r[i] = q[i]
  OBVIOUS
<1>3. r[Len(q) + 1][1] = "add" /\ r[Len(q) + 1][2] = a /\ "add" # "cancel"
  BY <1>2
<1> HIDE DEF r
<1>4. /\ Positions(r, "add") = Positions(q, "add") \cup {Len(q) + 1}
      /\ Positions(r, "cancel") = Positions(q, "cancel")
  BY <1>2, <1>3 DEF Positions
<1>5. \A i \in Positions(q, "add") \cup Positions(q, "cancel") : r[i][2] = q[i][2]
  BY <1>2 DEF Positions
<1>6. Adds(r) = Adds(q) \cup {a} /\ Cancels(r) = Cancels(q)
  BY <1>3, <1>4, <1>5 DEF Adds, Cancels
<1>7. AddsOnce(r)
  <2>1. \A i \in Positions(q, "add") : r[i][2] # a
    BY <1>5 DEF Adds
  <2> QED BY <1>3, <1>4, <1>5, <2>1 DEF AddsOnce
<1> QED BY <1>1, <1>6, <1>7 DEF r

\* A functor of cancel() is queued.
LEMMA CancelPushed ==
  ASSUME NEW q \in Seq(Entry), AddsOnce(q), NEW id \in Ids
  PROVE  LET r == Append(q, <<"cancel", id>>)
         IN r \in Seq(Entry) /\ AddsOnce(r) /\ Adds(r) = Adds(q) /\ Cancels(r) = Cancels(q) \cup {id}
<1> DEFINE r == Append(q, <<"cancel", id>>)
<1>1. r \in Seq(Entry)
  BY DEF Entry
<1>2. /\ DOMAIN q = 1..Len(q) /\ Len(q) \in Nat
      /\ DOMAIN r = DOMAIN q \cup {Len(q) + 1} /\ Len(q) + 1 \notin DOMAIN q
      /\ r[Len(q) + 1] = <<"cancel", id>>
      /\ \A i \in DOMAIN q : r[i] = q[i]
  OBVIOUS
<1>3. r[Len(q) + 1][1] = "cancel" /\ r[Len(q) + 1][2] = id /\ "add" # "cancel"
  BY <1>2
<1> HIDE DEF r
<1>4. /\ Positions(r, "add") = Positions(q, "add")
      /\ Positions(r, "cancel") = Positions(q, "cancel") \cup {Len(q) + 1}
  BY <1>2, <1>3 DEF Positions
<1>5. \A i \in Positions(q, "add") \cup Positions(q, "cancel") : r[i][2] = q[i][2]
  BY <1>2 DEF Positions
<1>6. Adds(r) = Adds(q) /\ Cancels(r) = Cancels(q) \cup {id}
  BY <1>3, <1>4, <1>5 DEF Adds, Cancels
<1>7. AddsOnce(r)
  BY <1>4, <1>5 DEF AddsOnce
<1> QED BY <1>1, <1>6, <1>7 DEF r

\* doPendingFunctors takes the oldest functor.
LEMMA HeadPopped ==
  ASSUME NEW q \in Seq(Entry), AddsOnce(q), q # <<>>
  PROVE  /\ Tail(q) \in Seq(Entry) /\ AddsOnce(Tail(q)) /\ Head(q) \in Entry
         /\ Head(q)[1] = "add" => /\ Head(q)[2] \in Adds(q)
                                  /\ Adds(Tail(q)) = Adds(q) \ {Head(q)[2]}
                                  /\ Cancels(Tail(q)) = Cancels(q)
         /\ Head(q)[1] = "cancel" => /\ Adds(Tail(q)) = Adds(q)
                                     /\ Cancels(Tail(q)) \subseteq Cancels(q)
                                     /\ Head(q)[2] \in Cancels(q)
<1> DEFINE r == Tail(q)
<1>1. /\ DOMAIN q = 1..Len(q) /\ Len(q) \in Nat /\ Len(q) >= 1
      /\ DOMAIN r = 1..(Len(q) - 1) /\ r \in Seq(Entry)
      /\ Head(q) = q[1] /\ Head(q) \in Entry
      /\ \A i \in 1..(Len(q) - 1) : r[i] = q[i + 1]
  OBVIOUS
<1> HIDE DEF r
<1>2. /\ \A i \in DOMAIN r : i + 1 \in DOMAIN q /\ i + 1 # 1 /\ r[i] = q[i + 1]
      /\ \A j \in DOMAIN q : j = 1 \/ (j - 1 \in DOMAIN r /\ r[j - 1] = q[j])
      /\ 1 \in DOMAIN q
      /\ \A i, j \in DOMAIN r : i + 1 = j + 1 => i = j
  BY <1>1
<1>3. \A kind :
        /\ \A i \in Positions(r, kind) : i + 1 \in Positions(q, kind) /\ i + 1 # 1 /\ r[i][2] = q[i + 1][2]
        /\ \A j \in Positions(q, kind) : j = 1 \/ (j - 1 \in Positions(r, kind) /\ r[j - 1][2] = q[j][2])
        /\ 1 \in Positions(q, kind) <=> Head(q)[1] = kind
  BY <1>1, <1>2 DEF Positions
<1>4. AddsOnce(r)
  <2>1. \A i \in Positions(r, "add") : i \in DOMAIN r BY DEF Positions
  <2> QED BY <1>2, <1>3, <2>1 DEF AddsOnce
<1>5. ASSUME Head(q)[1] = "add"
      PROVE  Head(q)[2] \in Adds(q) /\ Adds(r) = Adds(q) \ {Head(q)[2]} /\ Cancels(r) = Cancels(q)
  <2>1. 1 \in Positions(q, "add") /\ 1 \notin Positions(q, "cancel")
    BY <1>3, <1>5
  <2>2. \A i \in Positions(q, "add") : i # 1 => q[i][2] # Head(q)[2]
    BY <1>1, <2>1 DEF AddsOnce
  <2>3. Head(q)[2] \in Adds(q)
    BY <1>1, <2>1 DEF Adds
  <2>4. Adds(r) = Adds(q) \ {Head(q)[2]}
    <3>1. \A x \in Adds(r) : x \in Adds(q) /\ x # Head(q)[2]
      BY <1>3, <2>2 DEF Adds
    <3>2. \A x \in Adds(q) : x # Head(q)[2] => x \in Adds(r)
      BY <1>1, <1>3 DEF Adds
    <3> QED BY <3>1, <3>2
  <2>5. Cancels(r) = Cancels(q)
    BY <1>3, <2>1 DEF Cancels
  <2> QED BY <2>3, <2>4, <2>5
<1>6. ASSUME Head(q)[1] = "cancel"
      PROVE  Adds(r) = Adds(q) /\ Cancels(r) \subseteq Cancels(q) /\ Head(q)[2] \in Cancels(q)
  <2>1. 1 \notin Positions(q, "add") /\ 1 \in Positions(q, "cancel")
    BY <1>3, <1>6
  <2>2. Adds(r) = Adds(q)
    BY <1>3, <2>1 DEF Adds
  <2>3. Cancels(r) \subseteq Cancels(q) /\ Head(q)[2] \in Cancels(q)
    <3>1. \A x \in Cancels(r) : x \in Cancels(q)
      BY <1>3 DEF Cancels
    <3>2. Head(q)[2] \in Cancels(q)
      BY <1>1, <2>1 DEF Cancels
    <3> QED BY <3>1, <3>2
  <2> QED BY <2>2, <2>3
<1> QED BY <1>1, <1>4, <1>5, <1>6 DEF r

----
(* The earliest expiration *)

\* A set of instants has a least one.
LEMMA Least ==
  ASSUME NEW T, T \subseteq Nat, T # {}
  PROVE  \E x \in T : \A y \in T : x <= y
<1> DEFINE R == {p \in Nat \X Nat : p[1] < p[2]}
<1>1. IsWellFoundedOn(R, Nat)
  BY NatLessThanWellFounded DEF OpToRel
<1>2. PICK x \in T : \A y \in T : <<y, x>> \notin R
  <2> HIDE DEF R
  <2> QED BY <1>1, WFMin
<1>3. \A y \in T : ~(y < x)
  <2> TAKE y \in T
  <2>1. <<y, x>> \in Nat \X Nat /\ <<y, x>>[1] = y /\ <<y, x>>[2] = x
    OBVIOUS
  <2> QED BY <1>2, <2>1
<1>4. x \in Nat /\ \A y \in T : y \in Nat
  OBVIOUS
<1> QED BY <1>3, <1>4

\* timers_.begin() is the entry with the least expiration.
LEMMA EarliestIsLeast ==
  ASSUME NEW entries, entries \subseteq Nat \X Addrs, entries # {}
  PROVE  /\ Earliest(entries) \in Nat
         /\ \E e \in entries : e[1] = Earliest(entries)
         /\ \A e \in entries : Earliest(entries) <= e[1]
<1> DEFINE T == {e[1] : e \in entries}
<1>1. T \subseteq Nat /\ T # {}
  OBVIOUS
<1>2. PICK x \in T : \A y \in T : x <= y
  <2> HIDE DEF T
  <2> QED BY <1>1, Least
<1>3. \E w \in T : \A e \in entries : w <= e[1]
  BY <1>2
<1>4. Earliest(entries) \in T /\ \A e \in entries : Earliest(entries) <= e[1]
  BY <1>3 DEF Earliest
<1> QED BY <1>1, <1>4

----
(***************************************************************************)
(* The inductive invariant, in parts: the types; which of the queue, the   *)
(* two sets and handleRead's vector owns a timer; sequence numbers; which  *)
(* callbacks were called; what was cancelled; and the timerfd.             *)
(***************************************************************************)
\* Types, and that addTimer queues a Timer to the loop once.
Shape ==
  /\ TypeOK
  /\ made \in Seq(Intervals) /\ Len(made) <= MaxTimers
  /\ jumps \in Nat
  /\ current \in Ids \cup {None}
  /\ AddsOnce(queue)

\* The addresses in timers_, and those in handleRead's vector of expired timers.
WaitingAt == {e[2] : e \in timers}

HandledAt == {e[2] : e \in expired}

\* Every Timer is in exactly one of timers_, the expired vector and the queued additions.
Owning ==
  /\ SetsAgree
  /\ \A e \in expired : heap[e[2]].when = e[1] /\ e[1] <= handleNow
  /\ \A a \in Addrs : heap[a].seq # 0 <=> a \in WaitingAt \cup HandledAt \cup Adds(queue)
  /\ WaitingAt \cap HandledAt = {}
  /\ Adds(queue) \cap (WaitingAt \cup HandledAt) = {}

\* A sequence number is that of one Timer at most, with the interval it was made with.
Seqs ==
  /\ \A a \in Addrs : heap[a].seq # 0 => heap[a].seq \in 1..Len(made) /\ made[heap[a].seq] = heap[a].interval
  /\ \A a, b \in Addrs : heap[a].seq # 0 /\ heap[a].seq = heap[b].seq => a = b

\* A Timer called once is about to be deleted by reset(), unless it repeats.
Called ==
  /\ ran \subseteq 1..Len(made)
  /\ \A e \in expired \ toRun : heap[e[2]].seq \in ran
  /\ \A a \in Addrs : heap[a].seq \in ran /\ heap[a].interval = 0 => \E e \in expired \ toRun : e[2] = a
  /\ current # None => lpc = "callback" /\ \E e \in expired \ toRun : current = Id(e[2])

\* reset() will delete the timer, whose callback handleRead has called, or has yet to call.
Dropped(id) == id \in cancelingTimers /\ \E e \in expired \ toRun : id = Id(e[2])
LastCall(id) == id \in cancelingTimers /\ \E e \in toRun : id = Id(e[2])

\* The timer is not there any more.
Deleted(id) == heap[id[1]].seq # id[2]

\* Whatever reset() or a functor will drop was asked for; a cancelled timer is deleted or on its way.
Cancelled ==
  /\ \A id \in cancelingTimers \cup Cancels(queue) : id[2] \in requested
  /\ \A id \in asked : LastCall(id)
  /\ dead \subseteq Addrs \X (1..Len(made))
  /\ \A id \in dead : Deleted(id) \/ Dropped(id)

\* The countdown ends no later than the earliest expiration, as long as the wall clock was not set.
Armed ==
  ~CallingExpiredTimers /\ timers # {} =>
    \/ readable
    \/ armed # Disarmed /\ (jumps = 0 => armed = 0 \/ \A e \in timers : now + armed <= e[1])

\* A Timer made is there, or was called and does not repeat, or was cancelled.
Accounted ==
  \A s \in 1..Len(made) :
    \/ \E a \in Addrs : heap[a].seq = s
    \/ made[s] = 0 /\ s \in ran
    \/ s \in requested

Inductive == Shape /\ Owning /\ Seqs /\ Called /\ Cancelled /\ Armed /\ Accounted

----
(* The steps of the invariant *)

\* An empty queue with its timerfd unarmed.
LEMMA InductiveInit == Init => Inductive
<1> SUFFICES ASSUME Init PROVE Inductive
  OBVIOUS
<1> USE DEF Init
<1>1. /\ <<>> \in Seq(Entry) /\ <<>> \in Seq(Intervals) /\ Len(<<>>) = 0
      /\ Freed \in [when : Nat, interval : Intervals \cup {0}, seq : 0..MaxTimers]
      /\ 1 \in 1..MaxTime /\ 0 \in 0..MaxTime /\ 0 <= MaxTimers
      /\ Freed.seq = 0 /\ 1..0 = {}
  BY TimeAssumption DEF Freed
<1>2. Adds(queue) = {} /\ Cancels(queue) = {} /\ AddsOnce(queue)
  <2>1. Positions(<<>>, "add") = {} /\ Positions(<<>>, "cancel") = {}
    BY DEF Positions
  <2> QED BY <2>1 DEF Adds, Cancels, AddsOnce
<1>3. TypeOK
  BY <1>1 DEF TypeOK, Entry, CallingExpiredTimers
<1>4. Shape
  BY <1>1, <1>2, <1>3 DEF Shape
<1>5. Owning
  <2>1. WaitingAt = {} /\ HandledAt = {} BY DEF WaitingAt, HandledAt
  <2> QED BY <1>1, <1>2, <2>1 DEF Owning, SetsAgree
<1>6. Seqs BY <1>1 DEF Seqs
<1>7. Called BY <1>1 DEF Called
<1>8. Cancelled BY <1>2 DEF Cancelled
<1>9. Armed BY DEF Armed
<1>10. Accounted BY <1>1 DEF Accounted
<1> QED BY <1>4, <1>5, <1>6, <1>7, <1>8, <1>9, <1>10 DEF Inductive

\* Steps that touch no timer: what they leave of the invariant.
LEMMA QuietFrame ==
  ASSUME Inductive,
         UNCHANGED <<heap, timers, activeTimers, batch, made, ran, asked, dead>>,
         Adds(queue)' = Adds(queue), requested \subseteq requested',
         \A id \in Cancels(queue)' : id \in Cancels(queue) \/ id[2] \in requested'
  PROVE  Owning' /\ Seqs' /\ Cancelled' /\ Accounted'
<1> USE DEF Inductive, batch
<1>1. WaitingAt' = WaitingAt /\ HandledAt' = HandledAt
  BY DEF WaitingAt, HandledAt
<1>2. Owning'
  BY <1>1 DEF Owning, SetsAgree, Id
<1>3. Seqs' BY DEF Seqs
<1>4. Cancelled' BY DEF Cancelled, Id, Deleted, Dropped, LastCall
<1>5. Accounted' BY DEF Accounted
<1> QED BY <1>2, <1>3, <1>4, <1>5

\* Steps that call no timer and delete none keep what is known of the calls.
LEMMA QuietCalled ==
  ASSUME Inductive,
         UNCHANGED <<heap, batch, made, ran>>,
         UNCHANGED <<current, lpc>> \/ current' = None \/ (current = None /\ UNCHANGED current)
  PROVE  Called'
BY DEF Inductive, batch, Called, Id

\* The clocks, epoll_wait and the return of a callback.
LEMMA ClockStep ==
  ASSUME Inductive, Tick \/ Jump \/ TimerfdExpires \/ PollTimerfd \/ CallbackReturn
  PROVE  Inductive'
<1>1. /\ UNCHANGED <<heap, timers, activeTimers, batch, queue, callers, made, ran, asked, dead>>
      /\ Adds(queue)' = Adds(queue) /\ Cancels(queue)' = Cancels(queue)
  BY DEF Tick, Jump, TimerfdExpires, PollTimerfd, CallbackReturn, callers, clock, timerfd, Adds, Cancels, Positions
<1>2. Owning' /\ Seqs' /\ Cancelled' /\ Accounted'
  BY <1>1, QuietFrame DEF callers
<1>3. Called'
  <2>1. current # None => lpc = "callback"
    BY DEF Inductive, Called
  <2> QED BY <1>1, <2>1, QuietCalled DEF Tick, Jump, TimerfdExpires, PollTimerfd, CallbackReturn
<1>4. Shape'
  <2>1. /\ now' \in 1..MaxTime /\ armed' \in Nat \cup {Disarmed} /\ readable' \in BOOLEAN
        /\ lpc' \in {"idle", "event", "handling", "callback"} /\ jumps' \in Nat
        /\ (~CallingExpiredTimers => expired = {})'
        /\ current' \in {current, None}
    <3> USE <1>1, TimeAssumption DEF Inductive, Shape, TypeOK, CallingExpiredTimers, clock, timerfd, batch, Disarmed
    <3>1. CASE Tick BY <3>1 DEF Tick
    <3>2. CASE Jump BY <3>2 DEF Jump
    <3>3. CASE TimerfdExpires BY <3>3 DEF TimerfdExpires
    <3>4. CASE PollTimerfd BY <3>4 DEF PollTimerfd
    <3>5. CASE CallbackReturn BY <3>5 DEF CallbackReturn
    <3> QED BY <3>1, <3>2, <3>3, <3>4, <3>5
  <2>2. AddsOnce(queue)'
    BY <1>1 DEF Inductive, Shape, AddsOnce, Positions
  <2> QED BY <1>1, <2>1, <2>2 DEF Inductive, Shape, TypeOK, batch, callers
<1>5. Armed'
  <2>1. /\ timers' = timers /\ timers \subseteq Nat \X Addrs
        /\ now \in Nat /\ armed \in Nat \cup {Disarmed} /\ jumps \in Nat
    BY <1>1 DEF Inductive, Shape, TypeOK
  <2> USE <2>1 DEF Inductive, Armed, CallingExpiredTimers, clock, timerfd, Disarmed
  <2>2. CASE Tick BY <2>2 DEF Tick
  <2>3. CASE Jump BY <2>3 DEF Jump
  <2>4. CASE TimerfdExpires BY <2>4 DEF TimerfdExpires
  <2>5. CASE PollTimerfd BY <2>5 DEF PollTimerfd
  <2>6. CASE CallbackReturn BY <2>6 DEF CallbackReturn
  <2> QED BY <2>2, <2>3, <2>4, <2>5, <2>6
<1> QED BY <1>2, <1>3, <1>4, <1>5 DEF Inductive

\* Another thread reads the sequence number of its timer, or asks for a cancellation.
LEMMA OtherAddReturnsStep ==
  ASSUME Inductive, NEW t \in Callers, OtherAddReturns(t)
  PROVE  Inductive'
<1>1. /\ UNCHANGED <<clock, timerfd, heap, timers, activeTimers, batch, lpc, queue, cancels, requested,
                     made, current, ran, asked, dead>>
      /\ Adds(queue)' = Adds(queue) /\ Cancels(queue)' = Cancels(queue) /\ AddsOnce(queue)' = AddsOnce(queue)
  BY DEF OtherAddReturns, Adds, Cancels, AddsOnce, Positions
<1>2. Owning' /\ Seqs' /\ Cancelled' /\ Accounted' /\ Called'
  BY <1>1, QuietFrame, QuietCalled
<1>3. Shape'
  <2>1. upc[t] \in Ids /\ upc[t][1] \in Addrs
    BY DEF OtherAddReturns, Inductive, Shape, TypeOK, Ids
  <2>2. heap[upc[t][1]].seq \in 0..MaxTimers
    BY <2>1 DEF Inductive, Shape, TypeOK
  <2>3. Id(upc[t][1]) \in Ids
    BY <2>1, <2>2 DEF Id, Ids
  <2>4. upc' \in [Callers -> Ids \cup {None}] /\ ids' \subseteq Ids
    BY <2>3 DEF OtherAddReturns, Inductive, Shape, TypeOK
  <2> QED BY <1>1, <2>4 DEF Inductive, Shape, TypeOK, clock, timerfd, batch, CallingExpiredTimers
<1>4. Armed'
  BY <1>1 DEF Inductive, Armed, clock, timerfd, CallingExpiredTimers
<1> QED BY <1>2, <1>3, <1>4 DEF Inductive

\* Another thread asks for a cancellation, which is queued to the loop.
LEMMA OtherCancelStep ==
  ASSUME Inductive, NEW t \in Callers, NEW id \in ids, OtherCancel(t, id)
  PROVE  Inductive'
<1>1. /\ UNCHANGED <<clock, timerfd, heap, timers, activeTimers, batch, lpc, upc, ids, made, current, ran, asked, dead>>
      /\ queue' = Append(queue, <<"cancel", id>>) /\ requested' = requested \cup {id[2]}
  BY DEF OtherCancel, RequestCancel
<1>2. queue \in Seq(Entry) /\ AddsOnce(queue) /\ id \in Ids
  BY DEF Inductive, Shape, TypeOK, Entry
<1>3. queue' \in Seq(Entry) /\ AddsOnce(queue)' /\ Adds(queue)' = Adds(queue) /\ Cancels(queue)' = Cancels(queue) \cup {id}
  <2>1. /\ queue' \in Seq(Entry) /\ AddsOnce(queue') /\ Adds(queue') = Adds(queue)
        /\ Cancels(queue') = Cancels(queue) \cup {id}
    BY <1>1, <1>2, CancelPushed
  <2> QED BY <2>1 DEF AddsOnce, Adds, Cancels, Positions
<1>4. Owning' /\ Seqs' /\ Cancelled' /\ Accounted' /\ Called'
  BY <1>1, <1>3, QuietFrame, QuietCalled
<1>5. Shape'
  BY <1>1, <1>3 DEF Inductive, Shape, TypeOK, clock, timerfd, batch, CallingExpiredTimers, Entry
<1>6. Armed'
  BY <1>1 DEF Inductive, Armed, clock, timerfd, CallingExpiredTimers
<1> QED BY <1>4, <1>5, <1>6 DEF Inductive

\* The entries of the two sets and of handleRead's vector.
LEMMA Entries ==
  ASSUME Inductive
  PROVE  /\ \A e \in timers \cup expired : e[1] \in Nat /\ e[2] \in Addrs /\ e = <<e[1], e[2]>>
         /\ \A e \in timers : e[2] \in WaitingAt /\ heap[e[2]].when = e[1] /\ heap[e[2]].seq # 0
         /\ \A e \in expired : e[2] \in HandledAt /\ heap[e[2]].when = e[1] /\ heap[e[2]].seq # 0
         /\ \A d, e \in timers \cup expired : d[2] = e[2] => d = e
         /\ \A a \in Addrs : heap[a].seq \in 0..MaxTimers /\ heap[a].when \in Nat /\ Id(a) \in Ids
                              /\ heap[a].interval \in Nat
         /\ Len(made) \in Nat
<1> USE DEF Inductive
<1>1. /\ timers \subseteq Nat \X Addrs /\ expired \subseteq Nat \X Addrs
      /\ heap \in [Addrs -> [when : Nat, interval : Intervals \cup {0}, seq : 0..MaxTimers]]
  BY DEF Shape, TypeOK
<1>2. \A e \in timers \cup expired : e[1] \in Nat /\ e[2] \in Addrs /\ e = <<e[1], e[2]>>
  BY <1>1
<1>3. \A e \in timers : e[2] \in WaitingAt /\ heap[e[2]].when = e[1] /\ heap[e[2]].seq # 0
  BY DEF Owning, SetsAgree, WaitingAt
<1>4. \A e \in expired : e[2] \in HandledAt /\ heap[e[2]].when = e[1] /\ heap[e[2]].seq # 0
  BY <1>2 DEF Owning, HandledAt
<1>5. \A d, e \in timers \cup expired : d[2] = e[2] => d = e
  BY <1>2, <1>3, <1>4
<1>6. ASSUME NEW a \in Addrs
      PROVE  heap[a].seq \in 0..MaxTimers /\ heap[a].when \in Nat /\ Id(a) \in Ids /\ heap[a].interval \in Nat
  <2>1. heap[a] \in [when : Nat, interval : Intervals \cup {0}, seq : 0..MaxTimers]
    BY <1>1
  <2>2. heap[a].seq \in 0..MaxTimers /\ heap[a].when \in Nat /\ heap[a].interval \in Intervals \cup {0}
    BY <2>1
  <2>3. heap[a].interval \in Nat
    <3>1. Intervals \subseteq Nat /\ 0 \in Nat BY TimeAssumption
    <3> QED BY <2>2, <3>1, Zenon
  <2>4. Id(a) \in Ids
    BY <2>2 DEF Id, Ids
  <2> QED BY <2>2, <2>3, <2>4
<1>7. Len(made) \in Nat
  BY DEF Shape
<1> QED BY <1>2, <1>3, <1>4, <1>5, <1>6, <1>7

\* handleRead() takes what is due from both sets.
LEMMA HandleReadStep ==
  ASSUME Inductive, HandleRead
  PROVE  Inductive'
<1>1. /\ lpc = "event" /\ lpc' = "handling" /\ expired = {} /\ readable' = FALSE
      /\ expired' = {e \in timers : e[1] <= now}
      /\ toRun' = expired' /\ timers' = timers \ expired'
      /\ activeTimers' = activeTimers \ {Id(e[2]) : e \in expired'}
      /\ cancelingTimers' = {} /\ handleNow' = now
      /\ UNCHANGED <<clock, armed, heap, queue, callers, made, current, ran, asked, dead>>
  BY DEF HandleRead, Expired, Inductive, Shape, TypeOK, CallingExpiredTimers
<1>2. /\ \A e \in timers : e[1] \in Nat /\ e[2] \in Addrs /\ e = <<e[1], e[2]>>
                           /\ heap[e[2]].when = e[1] /\ heap[e[2]].seq # 0
      /\ \A d, e \in timers : d[2] = e[2] => d = e
      /\ HandledAt = {}
  BY <1>1, Entries DEF HandledAt
<1>3. now \in 1..MaxTime
  BY DEF Inductive, Shape, TypeOK
<1>4. WaitingAt = WaitingAt' \cup HandledAt' /\ WaitingAt' \cap HandledAt' = {}
  <2>1. \A x : x \in WaitingAt <=> x \in WaitingAt' \/ x \in HandledAt'
    BY <1>1 DEF WaitingAt, HandledAt
  <2>2. \A x : ~(x \in WaitingAt' /\ x \in HandledAt')
    BY <1>1, <1>2 DEF WaitingAt, HandledAt
  <2> QED BY <2>1, <2>2
<1>5. Adds(queue)' = Adds(queue) /\ Cancels(queue)' = Cancels(queue) /\ AddsOnce(queue)' = AddsOnce(queue)
  BY <1>1 DEF Adds, Cancels, AddsOnce, Positions
<1>6. Shape'
  <2>1. expired' \subseteq Nat \X Addrs /\ timers' \subseteq Nat \X Addrs /\ activeTimers' \subseteq Ids
    BY <1>1 DEF Inductive, Shape, TypeOK
  <2>2. handleNow' \in 0..MaxTime
    BY <1>1, <1>3, TimeAssumption
  <2>3. TypeOK'
    BY <1>1, <2>1, <2>2 DEF Inductive, Shape, TypeOK, clock, callers, CallingExpiredTimers
  <2> QED BY <1>1, <1>5, <2>3 DEF Inductive, Shape, clock, callers
<1>7. SetsAgree'
  <2>1. \A a, b : Id(a) = Id(b) => a = b
    BY DEF Id
  <2>2. ASSUME NEW e \in timers'
        PROVE  heap'[e[2]].seq # 0 /\ heap'[e[2]].when = e[1] /\ Id(e[2])' \in activeTimers'
    <3>1. e \in timers /\ e \notin expired' /\ Id(e[2])' = Id(e[2])
      BY <1>1 DEF Id
    <3>2. Id(e[2]) \in activeTimers
      BY <3>1 DEF Inductive, Owning, SetsAgree
    <3>3. \A d \in expired' : Id(d[2]) # Id(e[2])
      BY <1>1, <1>2, <2>1, <3>1
    <3> QED BY <1>1, <1>2, <3>1, <3>2, <3>3
  <2>3. ASSUME NEW id \in activeTimers'
        PROVE  id = Id(id[1])' /\ <<heap'[id[1]].when, id[1]>> \in timers'
    <3>1. id \in activeTimers /\ \A e \in expired' : id # Id(e[2])
      BY <1>1
    <3>2. id = Id(id[1]) /\ <<heap[id[1]].when, id[1]>> \in timers
      BY <3>1 DEF Inductive, Owning, SetsAgree
    <3>3. <<heap[id[1]].when, id[1]>> \notin expired'
      <4>1. <<heap[id[1]].when, id[1]>>[2] = id[1] OBVIOUS
      <4> QED BY <3>1, <3>2, <4>1
    <3> QED BY <1>1, <3>2, <3>3 DEF Id
  <2> QED BY <2>2, <2>3 DEF SetsAgree
<1>8. Owning'
  <2>1. \A e \in expired' : heap'[e[2]].when = e[1] /\ e[1] <= handleNow'
    BY <1>1, <1>2
  <2>2. \A a \in Addrs : heap'[a].seq # 0 <=> a \in WaitingAt' \cup HandledAt' \cup Adds(queue)'
    BY <1>1, <1>2, <1>4, <1>5 DEF Inductive, Owning
  <2>3. Adds(queue)' \cap (WaitingAt' \cup HandledAt') = {}
    BY <1>4, <1>5 DEF Inductive, Owning
  <2> QED BY <1>4, <1>7, <2>1, <2>2, <2>3 DEF Owning
<1>9. Seqs' BY <1>1 DEF Inductive, Seqs
<1>10. Called' BY <1>1 DEF Inductive, Called
<1>11. Cancelled'
  <2>1. toRun = {} BY <1>1 DEF Inductive, Shape, TypeOK
  <2>2. asked = {} BY <2>1 DEF Inductive, Cancelled, LastCall
  <2>3. \A id \in dead : Deleted(id) BY <1>1 DEF Inductive, Cancelled, Dropped
  <2>4. \A id \in dead' : Deleted(id)' BY <1>1, <2>3 DEF Deleted
  <2> QED BY <1>1, <1>5, <2>2, <2>4 DEF Inductive, Cancelled, callers
<1>12. Armed' BY <1>1 DEF Armed, CallingExpiredTimers
<1>13. Accounted' BY <1>1 DEF Inductive, Accounted, callers
<1> QED BY <1>6, <1>8, <1>9, <1>10, <1>11, <1>12, <1>13 DEF Inductive

\* handleRead() calls the callback of an expired timer.
LEMMA RunTimerStep ==
  ASSUME Inductive, NEW e \in toRun, RunTimer(e)
  PROVE  Inductive'
<1>1. /\ lpc = "handling" /\ lpc' = "callback"
      /\ toRun' = toRun \ {e} /\ current' = Id(e[2]) /\ ran' = ran \cup {heap[e[2]].seq}
      /\ asked' = asked \ {current'} /\ dead' = dead \cup (asked \cap {current'})
      /\ UNCHANGED <<clock, timerfd, heap, timers, activeTimers, cancelingTimers, expired, handleNow, queue,
                     callers, made>>
  BY DEF RunTimer
<1>2. /\ e \in expired /\ e[2] \in Addrs /\ heap[e[2]].seq # 0 /\ Id(e[2]) \in Ids
      /\ heap[e[2]].seq \in 1..Len(made)
  <2>1. e \in expired BY DEF Inductive, Shape, TypeOK
  <2> QED BY <2>1, Entries DEF Inductive, Seqs
<1>3. /\ WaitingAt' = WaitingAt /\ HandledAt' = HandledAt
      /\ Adds(queue)' = Adds(queue) /\ Cancels(queue)' = Cancels(queue) /\ AddsOnce(queue)' = AddsOnce(queue)
  BY <1>1 DEF WaitingAt, HandledAt, Adds, Cancels, AddsOnce, Positions
<1>4. Shape'
  BY <1>1, <1>2, <1>3 DEF Inductive, Shape, TypeOK, clock, timerfd, callers, CallingExpiredTimers
<1>5. Owning' BY <1>1, <1>3 DEF Inductive, Owning, SetsAgree, Id
<1>6. Seqs' BY <1>1 DEF Inductive, Seqs
<1>7. Called'
  <2>1. expired' \ toRun' = (expired \ toRun) \cup {e}
    BY <1>1, <1>2
  <2>2. ran' \subseteq 1..Len(made')
    BY <1>1, <1>2 DEF Inductive, Called
  <2>3. \A d \in expired' \ toRun' : heap'[d[2]].seq \in ran'
    BY <1>1, <2>1 DEF Inductive, Called
  <2>4. ASSUME NEW a \in Addrs, heap'[a].seq \in ran', heap'[a].interval = 0
        PROVE  \E d \in expired' \ toRun' : d[2] = a
    <3>1. CASE heap[a].seq \in ran
      BY <1>1, <2>1, <2>4, <3>1 DEF Inductive, Called
    <3>2. CASE heap[a].seq = heap[e[2]].seq
      <4>1. a = e[2] BY <1>2, <3>2 DEF Inductive, Seqs
      <4> QED BY <2>1, <4>1
    <3> QED BY <1>1, <2>4, <3>1, <3>2
  <2>5. current' # None => lpc' = "callback" /\ \E d \in expired' \ toRun' : current' = Id(d[2])'
    BY <1>1, <2>1 DEF Id
  <2> QED BY <2>2, <2>3, <2>4, <2>5 DEF Called
<1>8. Cancelled'
  <2>1. \A id \in cancelingTimers' \cup Cancels(queue)' : id[2] \in requested'
    BY <1>1, <1>3 DEF Inductive, Cancelled, callers
  <2>2. ASSUME NEW id \in asked' PROVE LastCall(id)'
    <3>1. id \in asked /\ id # Id(e[2]) BY <1>1
    <3>2. PICK d \in toRun : id = Id(d[2]) BY <3>1 DEF Inductive, Cancelled, LastCall
    <3>3. d \in toRun' /\ id = Id(d[2])' BY <1>1, <3>1, <3>2 DEF Id
    <3>4. id \in cancelingTimers' BY <1>1, <3>1 DEF Inductive, Cancelled, LastCall
    <3> QED BY <3>3, <3>4 DEF LastCall
  <2>3. dead' \subseteq Addrs \X (1..Len(made'))
    <3>1. Id(e[2]) \in Addrs \X (1..Len(made)) BY <1>2 DEF Id
    <3> QED BY <1>1, <3>1 DEF Inductive, Cancelled
  <2>4. ASSUME NEW id \in dead' PROVE Deleted(id)' \/ Dropped(id)'
    <3>1. e \in expired' \ toRun' /\ Id(e[2])' = Id(e[2]) BY <1>1, <1>2 DEF Id
    <3>2. CASE id \in asked /\ id = Id(e[2])
      <4>1. id \in cancelingTimers' BY <1>1, <3>2 DEF Inductive, Cancelled, LastCall
      <4> QED BY <3>1, <3>2, <4>1 DEF Dropped
    <3>3. CASE id \in dead /\ Deleted(id) BY <1>1, <3>3 DEF Deleted
    <3>4. CASE id \in dead /\ Dropped(id)
      <4>1. PICK d \in expired \ toRun : id = Id(d[2]) BY <3>4 DEF Dropped
      <4>2. d \in expired' \ toRun' /\ id = Id(d[2])' BY <1>1, <4>1 DEF Id
      <4>3. id \in cancelingTimers' BY <1>1, <3>4 DEF Dropped
      <4> QED BY <4>2, <4>3 DEF Dropped
    <3>5. \A x \in dead : Deleted(x) \/ Dropped(x) BY DEF Inductive, Cancelled
    <3> QED BY <1>1, <2>4, <3>2, <3>3, <3>4, <3>5
  <2> QED BY <2>1, <2>2, <2>3, <2>4 DEF Cancelled
<1>9. Armed' BY <1>1 DEF Armed, CallingExpiredTimers
<1>10. Accounted' BY <1>1 DEF Inductive, Accounted, callers
<1> QED BY <1>4, <1>5, <1>6, <1>7, <1>8, <1>9, <1>10 DEF Inductive

\* Timerfd set for the earliest of a set of timers.
LEMMA ResetCovers ==
  ASSUME NEW n \in Nat, NEW entries, entries \subseteq Nat \X Addrs, entries # {},
         NEW r, r = IF Earliest(entries) > n THEN Earliest(entries) - n ELSE 0
  PROVE  r \in Nat /\ r # Disarmed /\ (r = 0 \/ \A e \in entries : n + r <= e[1])
<1>1. /\ Earliest(entries) \in Nat
      /\ \A e \in entries : e[1] \in Nat /\ Earliest(entries) <= e[1]
  BY EarliestIsLeast
<1> QED BY <1>1 DEF Disarmed

\* reset() restarts the timers that repeat and deletes the others.
LEMMA ResetStep ==
  ASSUME Inductive, Reset
  PROVE  Inductive'
<1> DEFINE again == {e[2] : e \in {x \in expired : Repeats(x[2])}}
           over == {e[2] : e \in expired} \ again
<1>1. /\ lpc = "handling" /\ toRun = {} /\ lpc' = "idle"
      /\ heap' = [a \in Addrs |-> IF a \in over THEN Freed
                                  ELSE IF a \in again THEN Restarted(heap[a]) ELSE heap[a]]
      /\ timers' = timers \cup {<<heap'[a].when, a>> : a \in again}
      /\ activeTimers' = activeTimers \cup {<<a, heap'[a].seq>> : a \in again}
      /\ expired' = {} /\ NextExpire /\ handleNow' = 0
      /\ UNCHANGED <<clock, cancelingTimers, toRun, queue, callers, made, current, ran, asked, dead>>
  BY DEF Reset, BatchDone, Insert
<1>2. /\ again \cup over = HandledAt /\ again \cap over = {} /\ HandledAt \subseteq Addrs
      /\ \A a \in again : Repeats(a)
      /\ \A a \in over : ~Repeats(a)
  <2>1. \A e \in expired : e[2] \in Addrs BY Entries
  <2> QED BY <2>1 DEF HandledAt
<1> HIDE DEF again, over
<1>3. /\ \A a \in over : heap'[a] = Freed
      /\ \A a \in again : heap'[a] = Restarted(heap[a])
      /\ \A a \in Addrs \ HandledAt : heap'[a] = heap[a]
  BY <1>1, <1>2
<1>4. /\ Freed.seq = 0 /\ Freed.when = 0 /\ Freed.interval = 0
      /\ Freed \in [when : Nat, interval : Intervals \cup {0}, seq : 0..MaxTimers]
  BY TimeAssumption DEF Freed
<1>5. /\ now \in 1..MaxTime /\ now \in Nat /\ handleNow \in Nat /\ MaxTimers \in Nat
      /\ timers \subseteq Nat \X Addrs /\ activeTimers \subseteq Ids
      /\ armed \in Nat \cup {Disarmed} /\ readable \in BOOLEAN
      /\ heap \in [Addrs -> [when : Nat, interval : Intervals \cup {0}, seq : 0..MaxTimers]]
  BY TimeAssumption DEF Inductive, Shape, TypeOK
<1>6. \A a \in again :
        /\ heap'[a] \in [when : Nat, interval : Intervals \cup {0}, seq : 0..MaxTimers]
        /\ heap'[a].seq = heap[a].seq /\ heap'[a].interval = heap[a].interval
  <2> TAKE a \in again
  <2>1. a \in Addrs /\ heap[a] \in [when : Nat, interval : Intervals \cup {0}, seq : 0..MaxTimers]
    BY <1>2, <1>5
  <2>2. heap[a].interval \in Nat BY <2>1, Entries
  <2>3. handleNow + heap[a].interval \in Nat BY <1>5, <2>2
  <2> QED BY <1>3, <2>1, <2>3 DEF Restarted
<1>7. /\ \A a \in Addrs : heap'[a].seq = IF a \in over THEN 0 ELSE heap[a].seq
      /\ \A a \in Addrs \ over : heap'[a].interval = heap[a].interval
  BY <1>2, <1>3, <1>4, <1>6
<1>8. /\ \A a \in HandledAt : heap[a].seq # 0 /\ a \notin WaitingAt /\ a \notin Adds(queue)
      /\ \A a \in HandledAt : \E e \in expired : e[2] = a
      /\ \A e \in expired : e[2] \in HandledAt
  BY Entries DEF Inductive, Owning, HandledAt
<1>9. WaitingAt' = WaitingAt \cup again /\ HandledAt' = {}
  <2>1. \A a \in again : <<heap'[a].when, a>>[2] = a
    OBVIOUS
  <2>2. \A x : x \in WaitingAt' <=> x \in WaitingAt \/ x \in again
    BY <1>1, <2>1 DEF WaitingAt
  <2> QED BY <1>1, <2>2 DEF HandledAt
<1>10. Adds(queue)' = Adds(queue) /\ Cancels(queue)' = Cancels(queue) /\ AddsOnce(queue)' = AddsOnce(queue)
  BY <1>1 DEF Adds, Cancels, AddsOnce, Positions
<1>11. timers' \subseteq Nat \X Addrs /\ activeTimers' \subseteq Ids
  <2>1. \A a \in again : <<heap'[a].when, a>> \in Nat \X Addrs /\ <<a, heap'[a].seq>> \in Ids
    BY <1>2, <1>6 DEF Ids
  <2> QED BY <1>1, <1>5, <2>1
<1>12. /\ armed' \in Nat \cup {Disarmed} /\ readable' \in BOOLEAN
       /\ timers' # {} => armed' # Disarmed /\ (armed' = 0 \/ \A e \in timers' : now + armed' <= e[1])
  <2>1. CASE timers' = {} BY <1>1, <1>5, <2>1 DEF NextExpire, timerfd
  <2>2. CASE timers' # {}
    <3>1. armed' = (IF Earliest(timers') > now THEN Earliest(timers') - now ELSE 0) /\ readable' = FALSE
      BY <1>1, <2>2 DEF NextExpire, ResetTimerfd
    <3>2. armed' \in Nat /\ armed' # Disarmed /\ (armed' = 0 \/ \A e \in timers' : now + armed' <= e[1])
      BY <1>5, <1>11, <2>2, <3>1, ResetCovers
    <3> QED BY <3>1, <3>2
  <2> QED BY <2>1, <2>2
<1>13. Shape'
  <2>1. heap' \in [Addrs -> [when : Nat, interval : Intervals \cup {0}, seq : 0..MaxTimers]]
    <3>1. \A a \in Addrs : heap'[a] \in [when : Nat, interval : Intervals \cup {0}, seq : 0..MaxTimers]
      BY <1>2, <1>3, <1>4, <1>5, <1>6
    <3>2. heap' = [a \in Addrs |-> heap'[a]]
      BY <1>1
    <3> QED BY <3>1, <3>2
  <2>2. handleNow' \in 0..MaxTime
    BY <1>1, TimeAssumption
  <2>3. TypeOK'
    BY <1>1, <1>11, <1>12, <2>1, <2>2 DEF Inductive, Shape, TypeOK, clock, callers, CallingExpiredTimers
  <2> QED BY <1>1, <1>10, <2>3 DEF Inductive, Shape, clock, callers
<1>14. SetsAgree'
  <2>1. ASSUME NEW e \in timers'
        PROVE  heap'[e[2]].seq # 0 /\ heap'[e[2]].when = e[1] /\ Id(e[2])' \in activeTimers'
    <3>1. CASE e \in timers
      <4>1. e[2] \in Addrs /\ e[2] \in WaitingAt
        BY <3>1, Entries
      <4>2. heap'[e[2]] = heap[e[2]]
        BY <1>3, <1>8, <4>1
      <4>3. heap[e[2]].seq # 0 /\ heap[e[2]].when = e[1] /\ Id(e[2]) \in activeTimers
        BY <3>1 DEF Inductive, Owning, SetsAgree
      <4>4. Id(e[2])' = Id(e[2])
        BY <4>2 DEF Id
      <4>5. activeTimers \subseteq activeTimers'
        BY <1>1
      <4> QED BY <4>2, <4>3, <4>4, <4>5
    <3>2. ASSUME NEW a \in again, e = <<heap'[a].when, a>> PROVE heap'[e[2]].seq # 0 /\ heap'[e[2]].when = e[1] /\ Id(e[2])' \in activeTimers'
      <4>1. e[1] = heap'[a].when /\ e[2] = a /\ heap'[a].seq # 0
        BY <1>2, <1>6, <1>8, <3>2
      <4> QED BY <1>1, <4>1 DEF Id
    <3> QED BY <1>1, <2>1, <3>1, <3>2
  <2>2. ASSUME NEW id \in activeTimers'
        PROVE  id = Id(id[1])' /\ <<heap'[id[1]].when, id[1]>> \in timers'
    <3>1. CASE id \in activeTimers
      <4>1. id = Id(id[1]) /\ <<heap[id[1]].when, id[1]>> \in timers
        BY <3>1 DEF Inductive, Owning, SetsAgree
      <4>2. <<heap[id[1]].when, id[1]>>[2] = id[1]
        OBVIOUS
      <4>3. id[1] \in Addrs /\ id[1] \in WaitingAt
        BY <4>1, <4>2, Entries
      <4>4. heap'[id[1]] = heap[id[1]]
        BY <1>3, <1>8, <4>3
      <4>5. Id(id[1])' = Id(id[1])
        BY <4>4 DEF Id
      <4>6. timers \subseteq timers'
        BY <1>1
      <4> QED BY <4>1, <4>4, <4>5, <4>6
    <3>2. ASSUME NEW a \in again, id = <<a, heap'[a].seq>> PROVE id = Id(id[1])' /\ <<heap'[id[1]].when, id[1]>> \in timers'
      <4>1. id[1] = a BY <3>2
      <4> QED BY <1>1, <3>2, <4>1 DEF Id
    <3> QED BY <1>1, <2>2, <3>1, <3>2
  <2> QED BY <2>1, <2>2 DEF SetsAgree
<1>15. Owning'
  <2>1. \A a \in Addrs : heap'[a].seq # 0 <=> a \in WaitingAt' \cup HandledAt' \cup Adds(queue)'
    BY <1>2, <1>7, <1>8, <1>9, <1>10 DEF Inductive, Owning
  <2>2. Adds(queue)' \cap (WaitingAt' \cup HandledAt') = {}
    BY <1>2, <1>8, <1>9, <1>10 DEF Inductive, Owning
  <2> QED BY <1>1, <1>9, <1>14, <2>1, <2>2 DEF Owning
<1>16. Seqs'
  BY <1>1, <1>7, <1>2 DEF Inductive, Seqs
<1>17. Called'
  <2>1. current' = None BY <1>1 DEF Inductive, Called
  <2>2. 0 \notin ran /\ ran' \subseteq 1..Len(made') BY <1>1, Entries DEF Inductive, Called
  <2>3. \A a \in Addrs : ~(heap'[a].seq \in ran' /\ heap'[a].interval = 0)
    <3> SUFFICES ASSUME NEW a \in Addrs, heap'[a].seq \in ran, heap'[a].interval = 0 PROVE FALSE
      BY <1>1
    <3>1. a \notin over /\ heap[a].seq \in ran /\ heap[a].interval = 0
      BY <1>7, <2>2
    <3>2. a \notin again
      BY <1>2, <3>1 DEF Repeats
    <3>3. a \in HandledAt
      BY <1>8, <3>1 DEF Inductive, Called
    <3> QED BY <1>2, <3>1, <3>2, <3>3
  <2> QED BY <1>1, <2>1, <2>2, <2>3 DEF Called
<1>18. Cancelled'
  <2>1. \A id \in cancelingTimers' \cup Cancels(queue)' : id[2] \in requested'
    BY <1>1, <1>10 DEF Inductive, Cancelled, callers
  <2>2. ASSUME NEW id \in dead, Dropped(id) PROVE heap'[id[1]].seq # id[2]
    <3>1. PICK e \in expired : id = Id(e[2]) BY <2>2 DEF Dropped
    <3>2. id \in cancelingTimers BY <2>2 DEF Dropped
    <3>3. e[2] \in Addrs /\ heap[e[2]].seq # 0 /\ heap[e[2]].seq \in 1..Len(made) /\ e[2] \in HandledAt
      BY <1>8, Entries DEF Inductive, Seqs
    <3>4. id[1] = e[2] /\ id[2] = heap[e[2]].seq /\ id = <<e[2], heap[e[2]].seq>>
      BY <3>1 DEF Id
    <3>5. e[2] \in over
      BY <1>2, <3>1, <3>2, <3>3 DEF Repeats
    <3> QED BY <1>7, <3>3, <3>4, <3>5
  <2>3. ASSUME NEW id \in dead, Deleted(id) PROVE heap'[id[1]].seq # id[2]
    <3>1. id \in Addrs \X (1..Len(made)) /\ heap[id[1]].seq # id[2]
      BY <2>3 DEF Inductive, Cancelled, Deleted
    <3>2. id[1] \in Addrs /\ id[2] \in 1..Len(made) /\ id[2] # 0
      BY <3>1, Entries
    <3> QED BY <1>7, <3>1, <3>2
  <2>4. dead' \subseteq Addrs \X (1..Len(made')) /\ \A id \in dead' : Deleted(id)'
    BY <1>1, <2>2, <2>3 DEF Inductive, Cancelled, Deleted
  <2>5. asked' = {} BY <1>1 DEF Inductive, Cancelled, LastCall
  <2> QED BY <2>1, <2>4, <2>5 DEF Cancelled
<1>19. Armed'
  BY <1>1, <1>12 DEF Armed, clock
<1>20. Accounted'
  <2> SUFFICES ASSUME NEW s \in 1..Len(made)
               PROVE  (\E a \in Addrs : heap'[a].seq = s) \/ (made[s] = 0 /\ s \in ran) \/ s \in requested
    BY <1>1 DEF Accounted, callers
  <2>1. ASSUME NEW a \in Addrs, heap[a].seq = s, a \in over
        PROVE  (made[s] = 0 /\ s \in ran) \/ s \in requested
    <3>1. a \in HandledAt /\ ~Repeats(a) BY <1>2, <2>1
    <3>2. CASE Id(a) \in cancelingTimers
      <4>1. Id(a)[2] \in requested BY <3>2 DEF Inductive, Cancelled
      <4> QED BY <2>1, <4>1 DEF Id
    <3>3. CASE heap[a].interval = 0
      <4>1. made[s] = 0
        BY <1>8, <2>1, <3>1, <3>3 DEF Inductive, Seqs
      <4>2. s \in ran
        BY <1>1, <1>8, <2>1, <3>1 DEF Inductive, Called
      <4> QED BY <4>1, <4>2
    <3>4. heap[a].interval \in Nat BY Entries
    <3> QED BY <3>1, <3>2, <3>3, <3>4 DEF Repeats
  <2> QED BY <1>7, <2>1 DEF Inductive, Accounted
<1> QED BY <1>13, <1>15, <1>16, <1>17, <1>18, <1>19, <1>20 DEF Inductive

\* cancelInLoop(), called as a functor or by the loop thread.
LEMMA CancelFrame ==
  ASSUME Inductive, NEW id \in Ids, CancelInLoop(id), id[2] \in requested', requested \subseteq requested',
         UNCHANGED <<expired, toRun, handleNow, lpc, made, current, ran>>,
         Adds(queue)' = Adds(queue), Cancels(queue)' \subseteq Cancels(queue)
  PROVE  /\ Owning' /\ Seqs' /\ Called' /\ Cancelled' /\ Accounted'
         /\ heap' \in [Addrs -> [when : Nat, interval : Intervals \cup {0}, seq : 0..MaxTimers]]
         /\ timers' \subseteq timers /\ activeTimers' \subseteq Ids /\ cancelingTimers' \subseteq Ids
<1>1. /\ Freed.seq = 0
      /\ Freed \in [when : Nat, interval : Intervals \cup {0}, seq : 0..MaxTimers]
  BY TimeAssumption DEF Freed, Inductive, Shape, TypeOK
<1>2. /\ activeTimers \subseteq Ids /\ cancelingTimers \subseteq Ids
      /\ heap \in [Addrs -> [when : Nat, interval : Intervals \cup {0}, seq : 0..MaxTimers]]
      /\ expired # {} => CallingExpiredTimers
  BY DEF Inductive, Shape, TypeOK
<1>3. CASE CancelActive(id)
  <2> DEFINE a == id[1]
             w == <<heap[a].when, a>>
  <2>1. /\ id \in activeTimers /\ timers' = timers \ {w} /\ heap' = [heap EXCEPT ![a] = Freed]
        /\ activeTimers' = activeTimers \ {id} /\ dead' = dead \cup {id}
        /\ UNCHANGED <<cancelingTimers, asked>>
    BY <1>3 DEF CancelActive
  <2>2. /\ a \in Addrs /\ id = Id(a) /\ w \in timers /\ w[2] = a
    BY <2>1 DEF Inductive, Owning, SetsAgree, Ids
  <2>3. /\ heap[a].seq # 0 /\ a \in WaitingAt /\ id[2] = heap[a].seq
        /\ a \notin HandledAt /\ a \notin Adds(queue) /\ heap[a].seq \in 1..Len(made)
    <3>1. heap[a].seq # 0 /\ a \in WaitingAt
      BY <2>2, Entries
    <3>2. id[2] = heap[a].seq BY <2>2 DEF Id
    <3> QED BY <2>2, <3>1, <3>2 DEF Inductive, Owning, Seqs
  <2>4. \A e \in timers : e[2] = a => e = w
    BY <2>2, Entries
  <2> HIDE DEF a, w
  <2>5. heap'[a] = Freed /\ \A b \in Addrs \ {a} : heap'[b] = heap[b]
    BY <1>2, <2>1, <2>2
  <2>6. heap' \in [Addrs -> [when : Nat, interval : Intervals \cup {0}, seq : 0..MaxTimers]]
    BY <1>1, <1>2, <2>1
  <2>7. WaitingAt' = WaitingAt \ {a} /\ HandledAt' = HandledAt
    <3>1. HandledAt' = HandledAt BY DEF HandledAt
    <3>2. \A x : x \in WaitingAt' <=> x \in WaitingAt /\ x # a
      BY <2>1, <2>2, <2>4 DEF WaitingAt
    <3> QED BY <3>1, <3>2
  <2>8. SetsAgree'
    <3>1. ASSUME NEW e \in timers'
          PROVE  heap'[e[2]].seq # 0 /\ heap'[e[2]].when = e[1] /\ Id(e[2])' \in activeTimers'
      <4>1. e \in timers /\ e # w /\ e[2] # a /\ e[2] \in Addrs
        BY <2>1, <2>4, <3>1, Entries
      <4>2. heap[e[2]].seq # 0 /\ heap[e[2]].when = e[1] /\ Id(e[2]) \in activeTimers
        BY <4>1 DEF Inductive, Owning, SetsAgree
      <4>3. heap'[e[2]] = heap[e[2]] /\ Id(e[2])' = Id(e[2])
        BY <2>5, <4>1 DEF Id
      <4>4. Id(e[2]) # id
        BY <2>2, <4>1 DEF Id
      <4> QED BY <2>1, <4>2, <4>3, <4>4
    <3>2. ASSUME NEW x \in activeTimers'
          PROVE  x = Id(x[1])' /\ <<heap'[x[1]].when, x[1]>> \in timers'
      <4>1. x \in activeTimers /\ x # id /\ x = Id(x[1]) /\ <<heap[x[1]].when, x[1]>> \in timers
        BY <2>1 DEF Inductive, Owning, SetsAgree
      <4>2. x[1] # a
        BY <2>2, <4>1
      <4>3. x[1] \in Addrs
        BY <1>2, <4>1 DEF Ids
      <4>4. heap'[x[1]] = heap[x[1]] /\ Id(x[1])' = Id(x[1])
        BY <2>5, <4>2, <4>3 DEF Id
      <4>5. <<heap[x[1]].when, x[1]>> # w
        <5>1. <<heap[x[1]].when, x[1]>>[2] = x[1] OBVIOUS
        <5> QED BY <2>2, <4>2, <5>1
      <4> QED BY <2>1, <4>1, <4>4, <4>5
    <3> QED BY <3>1, <3>2 DEF SetsAgree
  <2>9. \A e \in expired : e[2] # a /\ e[2] \in Addrs /\ heap'[e[2]] = heap[e[2]] /\ Id(e[2])' = Id(e[2])
    <3>1. \A e \in expired : e[2] # a /\ e[2] \in Addrs
      BY <2>3, Entries
    <3> QED BY <2>5, <3>1 DEF Id
  <2>10. Owning'
    <3>1. \A e \in expired' : heap'[e[2]].when = e[1] /\ e[1] <= handleNow'
      BY <2>9 DEF Inductive, Owning
    <3>2. \A b \in Addrs : heap'[b].seq # 0 <=> b \in WaitingAt' \cup HandledAt' \cup Adds(queue)'
      BY <1>1, <2>3, <2>5, <2>7 DEF Inductive, Owning
    <3>3. WaitingAt' \cap HandledAt' = {} /\ Adds(queue)' \cap (WaitingAt' \cup HandledAt') = {}
      BY <2>7 DEF Inductive, Owning
    <3> QED BY <2>8, <3>1, <3>2, <3>3 DEF Owning
  <2>11. Seqs'
    BY <1>1, <2>5 DEF Inductive, Seqs
  <2>12. Called'
    <3>1. 0 \notin ran BY Entries DEF Inductive, Called
    <3>2. \A e \in expired' \ toRun' : heap'[e[2]].seq \in ran'
      BY <2>9 DEF Inductive, Called
    <3>3. \A b \in Addrs : heap'[b].seq \in ran' /\ heap'[b].interval = 0 => \E e \in expired' \ toRun' : e[2] = b
      BY <1>1, <2>5, <3>1 DEF Inductive, Called
    <3>4. current' # None => lpc' = "callback" /\ \E e \in expired' \ toRun' : current' = Id(e[2])'
      BY <2>9 DEF Inductive, Called
    <3> QED BY <3>2, <3>3, <3>4 DEF Inductive, Called
  <2>13. Cancelled'
    <3>1. \A x \in cancelingTimers' \cup Cancels(queue)' : x[2] \in requested'
      BY <2>1 DEF Inductive, Cancelled
    <3>2. ASSUME NEW x \in asked' PROVE LastCall(x)'
      <4>1. toRun \subseteq expired BY DEF Inductive, Shape, TypeOK
      <4>2. LastCall(x) BY <2>1 DEF Inductive, Cancelled
      <4> QED BY <2>1, <2>9, <4>1, <4>2 DEF LastCall
    <3>3. id \in Addrs \X (1..Len(made)) /\ heap'[id[1]].seq # id[2]
      <4>1. id = <<a, heap[a].seq>> BY <2>2 DEF Id
      <4> QED BY <1>1, <2>2, <2>3, <2>5, <4>1 DEF a
    <3>4. ASSUME NEW x \in dead PROVE Deleted(x)' \/ Dropped(x)'
      <4>1. x \in Addrs \X (1..Len(made)) BY DEF Inductive, Cancelled
      <4>2. x[1] \in Addrs /\ x[2] # 0 BY <4>1, Entries
      <4>3. CASE Deleted(x) BY <1>1, <2>5, <4>2, <4>3 DEF Deleted
      <4>4. CASE Dropped(x) BY <2>1, <2>9, <4>4 DEF Dropped
      <4> QED BY <4>3, <4>4 DEF Inductive, Cancelled
    <3>5. dead' \subseteq Addrs \X (1..Len(made')) BY <2>1, <3>3 DEF Inductive, Cancelled
    <3>6. \A x \in dead' : Deleted(x)' \/ Dropped(x)' BY <2>1, <3>3, <3>4 DEF Deleted
    <3> QED BY <3>1, <3>2, <3>5, <3>6 DEF Cancelled
  <2>14. Accounted'
    <3> SUFFICES ASSUME NEW s \in 1..Len(made)
                 PROVE  (\E b \in Addrs : heap'[b].seq = s) \/ (made[s] = 0 /\ s \in ran) \/ s \in requested'
      BY DEF Accounted
    <3>1. CASE s = heap[a].seq BY <2>3, <3>1
    <3>2. CASE s # heap[a].seq BY <2>5, <3>2 DEF Inductive, Accounted
    <3> QED BY <3>1, <3>2
  <2> QED BY <1>2, <2>1, <2>6, <2>10, <2>11, <2>12, <2>13, <2>14
<1>4. CASE CancelInactive(id)
  <2>1. /\ cancelingTimers' = IF CallingExpiredTimers THEN cancelingTimers \cup {id} ELSE cancelingTimers
        /\ NoteCancelled(id)
        /\ UNCHANGED <<timers, heap, activeTimers>>
    BY <1>4 DEF CancelInactive
  <2>2. WaitingAt' = WaitingAt /\ HandledAt' = HandledAt
    BY <2>1 DEF WaitingAt, HandledAt
  <2>3. Owning' BY <2>1, <2>2 DEF Inductive, Owning, SetsAgree, Id
  <2>4. Seqs' /\ Called' BY <2>1 DEF Inductive, Seqs, Called, Id
  <2>5. Cancelled'
    <3>1. \A x \in cancelingTimers' \cup Cancels(queue)' : x[2] \in requested'
      BY <2>1 DEF Inductive, Cancelled
    <3>2. /\ \A y : Id(y)' = Id(y)
          /\ \A x : x \in cancelingTimers => x \in cancelingTimers'
          /\ expired # {} => id \in cancelingTimers'
          /\ toRun \subseteq expired
      BY <1>2, <2>1 DEF Id, Inductive, Shape, TypeOK
    <3>3. ASSUME NEW x \in asked' PROVE LastCall(x)'
      <4>1. LastCall(x) \/ (x = id /\ \E e \in toRun : x = Id(e[2]))
        BY <2>1 DEF NoteCancelled, Inductive, Cancelled
      <4> QED BY <3>2, <4>1 DEF LastCall
    <3>4. ASSUME NEW x \in dead' PROVE x \in Addrs \X (1..Len(made)) /\ (Deleted(x)' \/ Dropped(x)')
      <4>1. CASE x \in dead
        <5>1. Deleted(x) \/ Dropped(x) BY <4>1 DEF Inductive, Cancelled
        <5>2. Deleted(x) => Deleted(x)' BY <2>1 DEF Deleted
        <5>3. Dropped(x) => Dropped(x)' BY <3>2 DEF Dropped
        <5> QED BY <4>1, <5>1, <5>2, <5>3 DEF Inductive, Cancelled
      <4>2. CASE x = id /\ \E e \in expired \ toRun : x = Id(e[2])
        <5>1. PICK e \in expired \ toRun : x = Id(e[2]) BY <4>2
        <5>2. e[2] \in Addrs /\ heap[e[2]].seq \in 1..Len(made)
          BY Entries DEF Inductive, Seqs
        <5>3. x \in Addrs \X (1..Len(made)) BY <5>1, <5>2 DEF Id
        <5> QED BY <3>2, <4>2, <5>1, <5>3 DEF Dropped
      <4> QED BY <2>1, <3>4, <4>1, <4>2 DEF NoteCancelled
    <3>5. dead' \subseteq Addrs \X (1..Len(made')) BY <3>4
    <3> QED BY <3>1, <3>3, <3>4, <3>5 DEF Cancelled
  <2>6. Accounted' BY <2>1 DEF Inductive, Accounted
  <2> QED BY <1>2, <2>1, <2>3, <2>4, <2>5, <2>6
<1> QED BY <1>3, <1>4 DEF CancelInLoop

\* The loop calls cancelInLoop for another thread.
LEMMA RunCancelStep ==
  ASSUME Inductive, RunCancel
  PROVE  Inductive'
<1> DEFINE id == Head(queue)[2]
<1>1. /\ queue # <<>> /\ Head(queue)[1] = "cancel" /\ queue' = Tail(queue) /\ CancelInLoop(id)
      /\ UNCHANGED <<clock, timerfd, expired, toRun, handleNow, lpc, callers, made, current, ran>>
  BY DEF RunCancel
<1>2. queue \in Seq(Entry) /\ AddsOnce(queue)
  BY DEF Inductive, Shape, TypeOK, Entry
<1>3. /\ queue' \in Seq(Entry) /\ AddsOnce(queue') /\ Adds(queue') = Adds(queue)
      /\ Cancels(queue') \subseteq Cancels(queue) /\ id \in Cancels(queue) /\ Head(queue) \in Entry
  BY <1>1, <1>2, HeadPopped
<1>4. id \in Ids /\ id[2] \in requested
  <2>1. \A x \in Entry : x[1] = "cancel" => x[2] \in Ids
    BY DEF Entry
  <2> QED BY <1>1, <1>3, <2>1 DEF Inductive, Cancelled
<1> HIDE DEF id
<1>5. /\ AddsOnce(queue)' /\ Adds(queue)' = Adds(queue) /\ Cancels(queue)' \subseteq Cancels(queue)
  BY <1>3 DEF AddsOnce, Adds, Cancels, Positions
<1>6. /\ Owning' /\ Seqs' /\ Called' /\ Cancelled' /\ Accounted'
      /\ heap' \in [Addrs -> [when : Nat, interval : Intervals \cup {0}, seq : 0..MaxTimers]]
      /\ timers' \subseteq timers /\ activeTimers' \subseteq Ids /\ cancelingTimers' \subseteq Ids
  BY <1>1, <1>4, <1>5, CancelFrame DEF callers
<1>7. Shape'
  <2>1. TypeOK'
    BY <1>1, <1>3, <1>6 DEF Inductive, Shape, TypeOK, clock, timerfd, callers, CallingExpiredTimers, Entry
  <2> QED BY <1>1, <1>5, <2>1 DEF Inductive, Shape, clock
<1>8. Armed'
  BY <1>1, <1>6 DEF Inductive, Armed, clock, timerfd, CallingExpiredTimers
<1> QED BY <1>6, <1>7, <1>8 DEF Inductive

\* The loop thread, perhaps in a timer's callback, cancels at once.
LEMMA LoopCancelStep ==
  ASSUME Inductive, NEW id \in ids, LoopCancel(id)
  PROVE  Inductive'
<1>1. /\ requested' = requested \cup {id[2]} /\ CancelInLoop(id) /\ id \in Ids
      /\ UNCHANGED <<clock, timerfd, expired, toRun, handleNow, lpc, queue, upc, ids, made, current, ran>>
  BY DEF LoopCancel, RequestCancel, Inductive, Shape, TypeOK
<1>2. AddsOnce(queue)' = AddsOnce(queue) /\ Adds(queue)' = Adds(queue) /\ Cancels(queue)' = Cancels(queue)
  BY <1>1 DEF AddsOnce, Adds, Cancels, Positions
<1>3. /\ Owning' /\ Seqs' /\ Called' /\ Cancelled' /\ Accounted'
      /\ heap' \in [Addrs -> [when : Nat, interval : Intervals \cup {0}, seq : 0..MaxTimers]]
      /\ timers' \subseteq timers /\ activeTimers' \subseteq Ids /\ cancelingTimers' \subseteq Ids
  BY <1>1, <1>2, CancelFrame
<1>4. Shape'
  <2>1. TypeOK'
    BY <1>1, <1>3 DEF Inductive, Shape, TypeOK, clock, timerfd, CallingExpiredTimers
  <2> QED BY <1>1, <1>2, <2>1 DEF Inductive, Shape, clock
<1>5. Armed'
  BY <1>1, <1>3 DEF Inductive, Armed, clock, timerfd, CallingExpiredTimers
<1> QED BY <1>3, <1>4, <1>5 DEF Inductive

\* new Timer: its address has no owner yet, its sequence number no other timer.
LEMMA NewTimerFrame ==
  ASSUME Inductive, NEW a \in Addrs, NEW delay \in Delays, NEW interval \in Intervals,
         NewTimer(a, delay, interval),
         UNCHANGED <<batch, lpc, requested, current, ran, asked, dead>>,
         Cancels(queue)' = Cancels(queue)
  PROVE  /\ heap' \in [Addrs -> [when : Nat, interval : Intervals \cup {0}, seq : 0..MaxTimers]]
         /\ made' \in Seq(Intervals) /\ Len(made') <= MaxTimers
         /\ heap'[a].seq # 0 /\ heap'[a].seq \in 0..MaxTimers /\ heap'[a].when \in Nat
         /\ \A b \in Addrs : b # a => heap'[b] = heap[b]
         /\ a \notin WaitingAt /\ a \notin HandledAt /\ a \notin Adds(queue)
         /\ Seqs' /\ Called' /\ Cancelled' /\ Accounted'
<1> DEFINE n == Len(made) + 1
           timer == [when |-> now + delay, interval |-> interval, seq |-> n]
<1>1. /\ Len(made) < MaxTimers /\ heap[a] = Freed /\ heap' = [heap EXCEPT ![a] = timer]
      /\ made' = Append(made, interval)
  BY DEF NewTimer
<1>2. /\ made \in Seq(Intervals) /\ Len(made) \in Nat /\ now \in Nat /\ delay \in Nat /\ MaxTimers \in Nat
      /\ heap \in [Addrs -> [when : Nat, interval : Intervals \cup {0}, seq : 0..MaxTimers]]
  BY TimeAssumption DEF Inductive, Shape, TypeOK
<1>3. /\ made' \in Seq(Intervals) /\ Len(made') = n /\ n \in 1..MaxTimers /\ made'[n] = interval
      /\ \A s \in 1..Len(made) : made'[s] = made[s]
      /\ \A s : s \in 1..Len(made') <=> s \in 1..Len(made) \/ s = n
      /\ n \notin 1..Len(made) /\ n # 0
  BY <1>1, <1>2
<1>4. timer \in [when : Nat, interval : Intervals \cup {0}, seq : 0..MaxTimers]
  <2>1. now + delay \in Nat BY <1>2
  <2> QED BY <1>3, <2>1
<1>5. timer.seq = n /\ timer.interval = interval /\ timer.when \in Nat
  BY <1>2
<1> HIDE DEF timer, n
<1>6. /\ heap' \in [Addrs -> [when : Nat, interval : Intervals \cup {0}, seq : 0..MaxTimers]]
      /\ heap'[a] = timer /\ \A b \in Addrs : b # a => heap'[b] = heap[b]
  BY <1>1, <1>2, <1>4
<1>7. heap[a].seq = 0 /\ a \notin WaitingAt /\ a \notin HandledAt /\ a \notin Adds(queue)
  BY <1>1 DEF Freed, Inductive, Owning
<1>8. \A b \in Addrs : heap[b].seq # 0 => heap[b].seq \in 1..Len(made) /\ b # a
  BY <1>7 DEF Inductive, Seqs
<1>9. Seqs'
  <2>1. ASSUME NEW b \in Addrs, heap'[b].seq # 0
        PROVE  heap'[b].seq \in 1..Len(made') /\ made'[heap'[b].seq] = heap'[b].interval
    <3>1. CASE b = a BY <1>3, <1>5, <1>6, <3>1
    <3>2. CASE b # a
      <4>1. heap[b].seq \in 1..Len(made) /\ made[heap[b].seq] = heap[b].interval /\ heap'[b] = heap[b]
        BY <1>6, <2>1, <3>2 DEF Inductive, Seqs
      <4> QED BY <1>3, <4>1
    <3> QED BY <3>1, <3>2
  <2>2. ASSUME NEW b \in Addrs, NEW c \in Addrs, heap'[b].seq # 0, heap'[b].seq = heap'[c].seq
        PROVE  b = c
    <3>1. CASE b # a /\ c # a
      BY <1>6, <2>2, <3>1 DEF Inductive, Seqs
    <3>2. CASE b = a \/ c = a
      <4>1. heap'[b].seq = n /\ heap'[c].seq = n BY <1>5, <1>6, <2>2, <3>2
      <4>2. \A d \in Addrs : d # a => heap'[d].seq # n
        BY <1>3, <1>6, <1>8
      <4> QED BY <4>1, <4>2
    <3> QED BY <3>1, <3>2
  <2> QED BY <2>1, <2>2 DEF Seqs
<1>10. \A e \in expired : e[2] \in Addrs /\ e[2] # a /\ heap'[e[2]] = heap[e[2]] /\ Id(e[2])' = Id(e[2])
  <2>1. \A e \in expired : e[2] \in Addrs /\ e[2] # a BY <1>7, Entries
  <2> QED BY <1>6, <2>1 DEF Id
<1>11. Called'
  <2>1. ran' \subseteq 1..Len(made') BY <1>3 DEF Inductive, Called
  <2>2. \A e \in expired' \ toRun' : heap'[e[2]].seq \in ran'
    BY <1>10 DEF Inductive, Called, batch
  <2>3. \A b \in Addrs : heap'[b].seq \in ran' /\ heap'[b].interval = 0 => \E e \in expired' \ toRun' : e[2] = b
    <3>1. n \notin ran BY <1>3 DEF Inductive, Called
    <3> QED BY <1>5, <1>6, <3>1 DEF Inductive, Called, batch
  <2>4. current' # None => lpc' = "callback" /\ \E e \in expired' \ toRun' : current' = Id(e[2])'
    BY <1>10 DEF Inductive, Called, batch
  <2> QED BY <2>1, <2>2, <2>3, <2>4 DEF Called
<1>12. Cancelled'
  <2>1. ASSUME NEW id \in asked' PROVE LastCall(id)'
    <3>1. toRun \subseteq expired BY DEF Inductive, Shape, TypeOK
    <3>2. LastCall(id) BY DEF Inductive, Cancelled
    <3> QED BY <1>10, <3>1, <3>2 DEF LastCall, batch
  <2>2. ASSUME NEW id \in dead
        PROVE  id \in Addrs \X (1..Len(made')) /\ (Deleted(id)' \/ Dropped(id)')
    <3>1. id \in Addrs \X (1..Len(made)) /\ (Deleted(id) \/ Dropped(id))
      BY DEF Inductive, Cancelled
    <3>2. id[1] \in Addrs /\ id[2] \in 1..Len(made) /\ id = <<id[1], id[2]>>
      BY <3>1
    <3>3. id[2] \in 1..Len(made')
      BY <1>3, <3>2
    <3>4. Deleted(id) => Deleted(id)' BY <1>3, <1>5, <1>6, <3>2 DEF Deleted
    <3>5. Dropped(id) => Dropped(id)' BY <1>10 DEF Dropped, batch
    <3> QED BY <3>1, <3>2, <3>3, <3>4, <3>5
  <2>3. dead' \subseteq Addrs \X (1..Len(made')) /\ \A id \in dead' : Deleted(id)' \/ Dropped(id)'
    BY <2>2
  <2>4. \A id \in cancelingTimers' \cup Cancels(queue)' : id[2] \in requested'
    BY DEF Inductive, Cancelled, batch
  <2> QED BY <2>1, <2>3, <2>4 DEF Cancelled
<1>13. Accounted'
  <2> SUFFICES ASSUME NEW s \in 1..Len(made')
               PROVE  (\E b \in Addrs : heap'[b].seq = s) \/ (made'[s] = 0 /\ s \in ran) \/ s \in requested
    BY DEF Accounted
  <2>1. CASE s = n BY <1>5, <1>6, <2>1
  <2>2. CASE s \in 1..Len(made)
    <3>1. ASSUME NEW b \in Addrs, heap[b].seq = s PROVE heap'[b].seq = s
      <4>1. b # a BY <1>7, <2>2, <3>1, Entries
      <4> QED BY <1>6, <3>1, <4>1
    <3> QED BY <1>3, <2>2, <3>1 DEF Inductive, Accounted
  <2> QED BY <1>3, <2>1, <2>2
<1> QED BY <1>3, <1>4, <1>5, <1>6, <1>7, <1>9, <1>11, <1>12, <1>13

\* addTimerInLoop() of a timer that is in neither set.
LEMMA AddInLoopFrame ==
  ASSUME Inductive, NEW a \in Addrs, AddTimerInLoop(a), a \notin WaitingAt, a \notin HandledAt,
         heap'[a].seq # 0, heap'[a].seq \in 0..MaxTimers, heap'[a].when \in Nat,
         \A b \in Addrs : b # a => heap'[b] = heap[b],
         UNCHANGED <<clock, batch, lpc>>,
         Adds(queue)' = Adds(queue) \ {a}
  PROVE  /\ Owning' /\ Armed'
         /\ timers' \subseteq Nat \X Addrs /\ activeTimers' \subseteq Ids
         /\ armed' \in Nat \cup {Disarmed} /\ readable' \in BOOLEAN
<1> DEFINE w == <<heap'[a].when, a>>
<1>1. timers' = timers \cup {w} /\ activeTimers' = activeTimers \cup {<<a, heap'[a].seq>>}
  BY DEF AddTimerInLoop, Insert
<1>2. /\ w \in Nat \X Addrs /\ w[1] = heap'[a].when /\ w[2] = a
      /\ <<a, heap'[a].seq>> \in Ids
  BY DEF Ids
<1> HIDE DEF w
<1>3. /\ timers \subseteq Nat \X Addrs /\ activeTimers \subseteq Ids /\ now \in Nat /\ jumps \in Nat
      /\ armed \in Nat \cup {Disarmed} /\ readable \in BOOLEAN
  BY DEF Inductive, Shape, TypeOK
<1>4. timers' \subseteq Nat \X Addrs /\ activeTimers' \subseteq Ids /\ timers' # {}
  BY <1>1, <1>2, <1>3
<1>5. WaitingAt' = WaitingAt \cup {a} /\ HandledAt' = HandledAt
  <2>1. \A x : x \in WaitingAt' <=> x \in WaitingAt \/ x = a
    BY <1>1, <1>2 DEF WaitingAt
  <2> QED BY <2>1 DEF HandledAt, batch
<1>6. \A e \in timers \cup expired : e[2] \in Addrs /\ e[2] # a /\ heap'[e[2]] = heap[e[2]] /\ Id(e[2])' = Id(e[2])
  <2>1. \A e \in timers \cup expired : e[2] \in Addrs /\ e[2] # a BY Entries
  <2> QED BY <2>1 DEF Id
<1>7. SetsAgree'
  <2>1. ASSUME NEW e \in timers'
        PROVE  heap'[e[2]].seq # 0 /\ heap'[e[2]].when = e[1] /\ Id(e[2])' \in activeTimers'
    <3>1. CASE e = w BY <1>1, <1>2, <3>1 DEF Id
    <3>2. CASE e \in timers
      <4>1. heap[e[2]].seq # 0 /\ heap[e[2]].when = e[1] /\ Id(e[2]) \in activeTimers
        BY <3>2 DEF Inductive, Owning, SetsAgree
      <4>2. activeTimers \subseteq activeTimers' BY <1>1
      <4> QED BY <1>6, <3>2, <4>1, <4>2
    <3> QED BY <1>1, <2>1, <3>1, <3>2
  <2>2. ASSUME NEW id \in activeTimers'
        PROVE  id = Id(id[1])' /\ <<heap'[id[1]].when, id[1]>> \in timers'
    <3>1. CASE id = <<a, heap'[a].seq>>
      <4>1. id[1] = a BY <3>1
      <4> QED BY <1>1, <3>1, <4>1 DEF Id, w
    <3>2. CASE id \in activeTimers
      <4>1. id = Id(id[1]) /\ <<heap[id[1]].when, id[1]>> \in timers
        BY <3>2 DEF Inductive, Owning, SetsAgree
      <4>2. <<heap[id[1]].when, id[1]>>[2] = id[1]
        OBVIOUS
      <4>3. heap'[id[1]] = heap[id[1]] /\ Id(id[1])' = Id(id[1])
        BY <1>6, <4>1, <4>2
      <4>4. timers \subseteq timers' BY <1>1
      <4> QED BY <4>1, <4>3, <4>4
    <3> QED BY <1>1, <2>2, <3>1, <3>2
  <2> QED BY <2>1, <2>2 DEF SetsAgree
<1>8. Owning'
  <2>1. \A e \in expired' : heap'[e[2]].when = e[1] /\ e[1] <= handleNow'
    BY <1>6 DEF Inductive, Owning, batch
  <2>2. \A b \in Addrs : heap'[b].seq # 0 <=> b \in WaitingAt' \cup HandledAt' \cup Adds(queue)'
    BY <1>5 DEF Inductive, Owning
  <2>3. WaitingAt' \cap HandledAt' = {} /\ Adds(queue)' \cap (WaitingAt' \cup HandledAt') = {}
    BY <1>5 DEF Inductive, Owning
  <2> QED BY <1>7, <2>1, <2>2, <2>3 DEF Owning
\* The timerfd: set anew for the earliest timer, or left because an earlier one waits.
<1>9. CASE timers = {} \/ heap'[a].when < Earliest(timers)
  <2> DEFINE v == heap'[a].when
  <2>1. armed' = (IF v > now THEN v - now ELSE 0) /\ readable' = FALSE
    BY <1>9 DEF AddTimerInLoop, ResetTimerfd
  <2>2. \A e \in timers' : e[1] \in Nat /\ v <= e[1]
    <3>1. timers # {} => Earliest(timers) \in Nat /\ \A e \in timers : e[1] \in Nat /\ Earliest(timers) <= e[1]
      BY <1>3, EarliestIsLeast
    <3>2. v \in Nat OBVIOUS
    <3> HIDE DEF v
    <3>3. w[1] = v BY <1>2 DEF v
    <3>4. timers # {} => v < Earliest(timers) BY <1>9 DEF v
    <3> QED BY <1>1, <3>1, <3>2, <3>3, <3>4
  <2>3. armed' \in Nat /\ armed' # Disarmed /\ (armed' = 0 \/ \A e \in timers' : now + armed' <= e[1])
    BY <1>3, <2>1, <2>2 DEF Disarmed
  <2> QED BY <1>4, <1>8, <2>1, <2>3 DEF Armed, clock
<1>10. CASE timers # {} /\ ~(heap'[a].when < Earliest(timers))
  <2>1. UNCHANGED timerfd
    BY <1>10 DEF AddTimerInLoop
  <2>2. PICK d \in timers : d[1] = Earliest(timers)
    BY <1>3, <1>10, EarliestIsLeast
  <2>3. d[1] \in Nat /\ d[1] <= w[1]
    BY <1>2, <1>3, <1>10, <2>2
  <2>4. Armed'
    <3> SUFFICES ASSUME ~CallingExpiredTimers'
                 PROVE  \/ readable'
                        \/ armed' # Disarmed /\ (jumps' = 0 => armed' = 0 \/ \A e \in timers' : now' + armed' <= e[1])
      BY DEF Armed
    <3>1. UNCHANGED <<lpc, armed, readable, now, jumps>>
      BY <2>1 DEF timerfd, clock
    <3>2. ~CallingExpiredTimers
      BY <3>1 DEF CallingExpiredTimers
    <3>3. readable \/ (armed # Disarmed /\ (jumps = 0 => armed = 0 \/ \A e \in timers : now + armed <= e[1]))
      BY <1>10, <3>2 DEF Inductive, Armed
    <3>4. (\A e \in timers : now + armed <= e[1]) /\ armed # Disarmed => \A e \in timers' : now + armed <= e[1]
      <4> SUFFICES ASSUME \A e \in timers : now + armed <= e[1], armed # Disarmed PROVE now + armed <= w[1]
        BY <1>1
      <4>1. armed \in Nat /\ now + armed <= d[1] BY <1>3
      <4> QED BY <1>2, <1>3, <2>3, <4>1
    <3> QED BY <3>1, <3>3, <3>4
  <2> QED BY <1>3, <1>4, <1>8, <2>1, <2>4 DEF timerfd
<1> QED BY <1>9, <1>10

\* addTimer() of another thread reaches the loop.
LEMMA RunAddStep ==
  ASSUME Inductive, RunAdd
  PROVE  Inductive'
<1> DEFINE a == Head(queue)[2]
<1>1. /\ lpc = "idle" /\ queue # <<>> /\ Head(queue)[1] = "add" /\ queue' = Tail(queue) /\ heap' = heap
      /\ AddTimerInLoop(a)
      /\ UNCHANGED <<clock, batch, lpc, callers, made, current, ran, asked, dead>>
  BY DEF RunAdd
<1>2. queue \in Seq(Entry) /\ AddsOnce(queue)
  BY DEF Inductive, Shape, TypeOK, Entry
<1>3. /\ queue' \in Seq(Entry) /\ AddsOnce(queue') /\ a \in Adds(queue) /\ Adds(queue') = Adds(queue) \ {a}
      /\ Cancels(queue') = Cancels(queue) /\ Head(queue) \in Entry
  BY <1>1, <1>2, HeadPopped
<1>4. AddsOnce(queue)' /\ Adds(queue)' = Adds(queue) \ {a} /\ Cancels(queue)' = Cancels(queue)
  BY <1>3 DEF AddsOnce, Adds, Cancels, Positions
<1>5. a \in Addrs
  <2>1. \A x \in Entry : x[1] = "add" => x[2] \in Addrs
    BY DEF Entry
  <2> QED BY <1>1, <1>3, <2>1
<1> HIDE DEF a
<1>6. /\ a \notin WaitingAt /\ a \notin HandledAt /\ heap'[a].seq # 0
      /\ heap'[a].seq \in 0..MaxTimers /\ heap'[a].when \in Nat
  <2>1. a \notin WaitingAt /\ a \notin HandledAt /\ heap[a].seq # 0
    BY <1>3, <1>5 DEF Inductive, Owning
  <2> QED BY <1>1, <1>5, <2>1, Entries
<1>7. /\ Owning' /\ Armed'
      /\ timers' \subseteq Nat \X Addrs /\ activeTimers' \subseteq Ids
      /\ armed' \in Nat \cup {Disarmed} /\ readable' \in BOOLEAN
  BY <1>1, <1>4, <1>5, <1>6, AddInLoopFrame
<1>8. Shape'
  <2>1. TypeOK'
    BY <1>1, <1>3, <1>7 DEF Inductive, Shape, TypeOK, clock, batch, callers, CallingExpiredTimers, Entry
  <2> QED BY <1>1, <1>4, <2>1 DEF Inductive, Shape, clock
<1>9. Seqs' BY <1>1 DEF Inductive, Seqs
<1>10. Called' BY <1>1 DEF Inductive, Called, batch, Id
<1>11. Cancelled' BY <1>1, <1>4 DEF Inductive, Cancelled, Deleted, Dropped, LastCall, batch, callers, Id
<1>12. Accounted' BY <1>1 DEF Inductive, Accounted, callers
<1> QED BY <1>7, <1>8, <1>9, <1>10, <1>11, <1>12 DEF Inductive

\* addTimer() in the loop thread.
LEMMA LoopAddStep ==
  ASSUME Inductive, NEW a \in Addrs, NEW delay \in Delays, NEW interval \in Intervals, LoopAdd(a, delay, interval)
  PROVE  Inductive'
<1>1. /\ NewTimer(a, delay, interval) /\ AddTimerInLoop(a)
      /\ ids' = ids \cup {<<a, heap'[a].seq>>}
      /\ UNCHANGED <<clock, batch, lpc, queue, upc, cancels, requested, current, ran, asked, dead>>
  BY DEF LoopAdd
<1>2. AddsOnce(queue)' = AddsOnce(queue) /\ Adds(queue)' = Adds(queue) /\ Cancels(queue)' = Cancels(queue)
  BY <1>1 DEF AddsOnce, Adds, Cancels, Positions
<1>3. /\ heap' \in [Addrs -> [when : Nat, interval : Intervals \cup {0}, seq : 0..MaxTimers]]
      /\ made' \in Seq(Intervals) /\ Len(made') <= MaxTimers
      /\ heap'[a].seq # 0 /\ heap'[a].seq \in 0..MaxTimers /\ heap'[a].when \in Nat
      /\ \A b \in Addrs : b # a => heap'[b] = heap[b]
      /\ a \notin WaitingAt /\ a \notin HandledAt /\ a \notin Adds(queue)
      /\ Seqs' /\ Called' /\ Cancelled' /\ Accounted'
  BY <1>1, <1>2, NewTimerFrame
<1>4. /\ Owning' /\ Armed'
      /\ timers' \subseteq Nat \X Addrs /\ activeTimers' \subseteq Ids
      /\ armed' \in Nat \cup {Disarmed} /\ readable' \in BOOLEAN
  <2>1. Adds(queue)' = Adds(queue) \ {a}
    BY <1>2, <1>3
  <2> QED BY <1>1, <1>3, <2>1, AddInLoopFrame
<1>5. Shape'
  <2>1. ids' \subseteq Ids
    BY <1>1, <1>3 DEF Inductive, Shape, TypeOK, Ids
  <2>2. TypeOK'
    BY <1>1, <1>3, <1>4, <2>1 DEF Inductive, Shape, TypeOK, clock, batch, CallingExpiredTimers
  <2> QED BY <1>1, <1>2, <1>3, <2>2 DEF Inductive, Shape, clock
<1> QED BY <1>3, <1>4, <1>5 DEF Inductive

\* addTimer() in another thread.
LEMMA OtherAddStep ==
  ASSUME Inductive, NEW t \in Callers, NEW a \in Addrs, NEW delay \in Delays, NEW interval \in Intervals,
         OtherAdd(t, a, delay, interval)
  PROVE  Inductive'
<1>1. /\ NewTimer(a, delay, interval)
      /\ queue' = Append(queue, <<"add", a>>)
      /\ upc' = [upc EXCEPT ![t] = <<a, heap'[a].seq>>]
      /\ UNCHANGED <<clock, timerfd, timers, activeTimers, batch, lpc, ids, cancels, requested,
                     current, ran, asked, dead>>
  BY DEF OtherAdd
<1>2. queue \in Seq(Entry) /\ AddsOnce(queue) /\ a \notin Adds(queue)
  <2>1. a \notin Adds(queue)
    BY <1>1 DEF NewTimer, Freed, Inductive, Owning
  <2> QED BY <2>1 DEF Inductive, Shape, TypeOK, Entry
<1>3. /\ queue' \in Seq(Entry) /\ AddsOnce(queue') /\ Adds(queue') = Adds(queue) \cup {a}
      /\ Cancels(queue') = Cancels(queue)
  BY <1>1, <1>2, AddPushed
<1>4. AddsOnce(queue)' /\ Adds(queue)' = Adds(queue) \cup {a} /\ Cancels(queue)' = Cancels(queue)
  BY <1>3 DEF AddsOnce, Adds, Cancels, Positions
<1>5. /\ heap' \in [Addrs -> [when : Nat, interval : Intervals \cup {0}, seq : 0..MaxTimers]]
      /\ made' \in Seq(Intervals) /\ Len(made') <= MaxTimers
      /\ heap'[a].seq # 0 /\ heap'[a].seq \in 0..MaxTimers /\ heap'[a].when \in Nat
      /\ \A b \in Addrs : b # a => heap'[b] = heap[b]
      /\ a \notin WaitingAt /\ a \notin HandledAt /\ a \notin Adds(queue)
      /\ Seqs' /\ Called' /\ Cancelled' /\ Accounted'
  BY <1>1, <1>4, NewTimerFrame
<1>6. \A e \in timers \cup expired : e[2] \in Addrs /\ e[2] # a /\ heap'[e[2]] = heap[e[2]] /\ Id(e[2])' = Id(e[2])
  <2>1. \A e \in timers \cup expired : e[2] \in Addrs /\ e[2] # a BY <1>5, Entries
  <2> QED BY <1>5, <2>1 DEF Id
<1>7. Owning'
  <2>1. WaitingAt' = WaitingAt /\ HandledAt' = HandledAt
    BY <1>1 DEF WaitingAt, HandledAt, batch
  <2>2. SetsAgree'
    <3>1. ASSUME NEW e \in timers'
          PROVE  heap'[e[2]].seq # 0 /\ heap'[e[2]].when = e[1] /\ Id(e[2])' \in activeTimers'
      BY <1>1, <1>6 DEF Inductive, Owning, SetsAgree
    <3>2. ASSUME NEW id \in activeTimers'
          PROVE  id = Id(id[1])' /\ <<heap'[id[1]].when, id[1]>> \in timers'
      <4>1. id = Id(id[1]) /\ <<heap[id[1]].when, id[1]>> \in timers
        BY <1>1 DEF Inductive, Owning, SetsAgree
      <4>2. <<heap[id[1]].when, id[1]>>[2] = id[1]
        OBVIOUS
      <4>3. heap'[id[1]] = heap[id[1]] /\ Id(id[1])' = Id(id[1])
        BY <1>6, <4>1, <4>2
      <4> QED BY <1>1, <4>1, <4>3
    <3> QED BY <3>1, <3>2 DEF SetsAgree
  <2>3. \A e \in expired' : heap'[e[2]].when = e[1] /\ e[1] <= handleNow'
    BY <1>1, <1>6 DEF Inductive, Owning, batch
  <2>4. \A b \in Addrs : heap'[b].seq # 0 <=> b \in WaitingAt' \cup HandledAt' \cup Adds(queue)'
    BY <1>4, <1>5, <2>1 DEF Inductive, Owning
  <2>5. WaitingAt' \cap HandledAt' = {} /\ Adds(queue)' \cap (WaitingAt' \cup HandledAt') = {}
    BY <1>4, <1>5, <2>1 DEF Inductive, Owning
  <2> QED BY <2>2, <2>3, <2>4, <2>5 DEF Owning
<1>8. Shape'
  <2>1. <<a, heap'[a].seq>> \in Ids
    BY <1>5 DEF Ids
  <2>2. upc' \in [Callers -> Ids \cup {None}]
    BY <1>1, <2>1 DEF Inductive, Shape, TypeOK
  <2>3. TypeOK'
    BY <1>1, <1>3, <1>5, <2>2 DEF Inductive, Shape, TypeOK, clock, timerfd, batch, CallingExpiredTimers, Entry
  <2> QED BY <1>1, <1>4, <1>5, <2>3 DEF Inductive, Shape, clock
<1>9. Armed'
  BY <1>1 DEF Inductive, Armed, clock, timerfd, CallingExpiredTimers
<1> QED BY <1>5, <1>7, <1>8, <1>9 DEF Inductive

\* Every step of the loop, the callers and the clocks keeps the invariant.
LEMMA InductiveStep == Inductive /\ [Next]_vars => Inductive'
<1> SUFFICES ASSUME Inductive, [Next]_vars PROVE Inductive'
  OBVIOUS
<1>1. CASE Tick \/ Jump \/ TimerfdExpires \/ PollTimerfd \/ CallbackReturn BY <1>1, ClockStep
<1>2. CASE HandleRead BY <1>2, HandleReadStep
<1>3. CASE Reset BY <1>3, ResetStep
<1>4. CASE RunAdd BY <1>4, RunAddStep
<1>5. CASE RunCancel BY <1>5, RunCancelStep
<1>6. ASSUME NEW e \in toRun, RunTimer(e) PROVE Inductive'
  BY <1>6, RunTimerStep
<1>7. ASSUME NEW a \in Addrs, NEW d \in Delays, NEW i \in Intervals, LoopAdd(a, d, i) PROVE Inductive'
  BY <1>7, LoopAddStep
<1>8. ASSUME NEW a \in Addrs, NEW d \in Delays, NEW i \in Intervals, NEW t \in Callers, OtherAdd(t, a, d, i)
      PROVE  Inductive'
  BY <1>8, OtherAddStep
<1>9. ASSUME NEW id \in ids, LoopCancel(id) PROVE Inductive'
  BY <1>9, LoopCancelStep
<1>10. ASSUME NEW id \in ids, NEW t \in Callers, OtherCancel(t, id) PROVE Inductive'
  BY <1>10, OtherCancelStep
<1>11. ASSUME NEW t \in Callers, OtherAddReturns(t) PROVE Inductive'
  BY <1>11, OtherAddReturnsStep
<1>12. CASE UNCHANGED vars
  <2>1. /\ UNCHANGED <<heap, timers, activeTimers, batch, made, ran, asked, dead>>
        /\ Adds(queue)' = Adds(queue) /\ Cancels(queue)' = Cancels(queue) /\ AddsOnce(queue)' = AddsOnce(queue)
        /\ requested' = requested
    BY <1>12 DEF vars, batch, Adds, Cancels, AddsOnce, Positions
  <2>2. Owning' /\ Seqs' /\ Cancelled' /\ Accounted'
    BY <2>1, QuietFrame
  <2>3. Called'
    BY <1>12, <2>1, QuietCalled DEF vars
  <2>4. Shape' /\ Armed'
    BY <1>12, <2>1 DEF vars, Inductive, Shape, TypeOK, Armed, CallingExpiredTimers
  <2> QED BY <2>2, <2>3, <2>4 DEF Inductive
<1> QED
  BY <1>1, <1>2, <1>3, <1>4, <1>5, <1>6, <1>7, <1>8, <1>9, <1>10, <1>11, <1>12 DEF Next, LoopStep, Call

\* The invariant holds in every reachable state.
LEMMA Invariance == Spec => []Inductive
BY InductiveInit, InductiveStep, PTL DEF Spec

----
(* Theorems *)

\* TimerQueue's sets, vector, heap and functor queue keep their types; handleRead's vector is empty
\* outside handleRead.
THEOREM TimerTypeCorrect == Spec => []TypeOK
<1>1. Inductive => TypeOK BY DEF Inductive, Shape
<1> QED BY <1>1, Invariance, PTL

\* timers_ and activeTimers_ agree, and every Timer is owned by one of them, by handleRead's vector or
\* by a functor of addTimer() from its creation to its only delete.
THEOREM TimersOwned == Spec => []HeapOwned
<1>1. Inductive => HeapOwned
  <2> SUFFICES ASSUME Inductive PROVE HeapOwned
    OBVIOUS
  <2>1. Owned = WaitingAt \cup HandledAt \cup Adds(queue)
    <3>1. {e[2] : e \in timers \cup expired} = WaitingAt \cup HandledAt
      BY DEF WaitingAt, HandledAt
    <3> QED BY <3>1 DEF Owned, Adds, Positions
  <2> QED BY <2>1 DEF Inductive, Owning, HeapOwned, WaitingAt, HandledAt
<1> QED BY <1>1, Invariance, PTL

\* addTimer, cancel, handleRead and reset() lose no timer.
THEOREM NoTimerLost == Spec => []TimersAccounted
<1>1. Inductive => TimersAccounted
  <2> SUFFICES ASSUME Inductive PROVE TimersAccounted
    OBVIOUS
  <2>1. Owned = WaitingAt \cup HandledAt \cup Adds(queue)
    <3>1. {e[2] : e \in timers \cup expired} = WaitingAt \cup HandledAt
      BY DEF WaitingAt, HandledAt
    <3> QED BY <3>1 DEF Owned, Adds, Positions
  <2>2. \A a \in Addrs : heap[a].seq # 0 => a \in Owned
    BY <2>1 DEF Inductive, Owning
  <2>3. \A s \in 1..Len(made) : s # 0
    BY Entries
  <2> QED BY <2>2, <2>3 DEF Inductive, Accounted, TimersAccounted
<1> QED BY <1>1, Invariance, PTL

\* addTimerInLoop, reset() and resetTimerfd keep the timerfd set for the earliest timer.
THEOREM TimerfdStaysArmed == Spec => []TimerfdArmed
<1>1. Inductive => TimerfdArmed
  <2> SUFFICES ASSUME Inductive, ~CallingExpiredTimers, timers # {}, ~readable
               PROVE  armed # Disarmed /\ (jumps = 0 => armed = 0 \/ now + armed <= Earliest(timers))
    BY DEF TimerfdArmed
  <2>1. timers \subseteq Nat \X Addrs BY DEF Inductive, Shape, TypeOK
  <2>2. PICK e \in timers : e[1] = Earliest(timers)
    BY <2>1, EarliestIsLeast
  <2> QED BY <2>2 DEF Inductive, Armed
<1> QED BY <1>1, Invariance, PTL

\* cancelInLoop() and cancelingTimers_: a timer found by a cancellation, waiting or called in the batch at
\* hand, is not called again; one still to be called in that batch is called once more and then no more.
THEOREM CancelIsFinal == Spec => CancelledStaysCancelled
<1>1. Inductive /\ [Next]_vars => [current' \notin {current, None} => current' \notin dead]_vars
  <2> SUFFICES ASSUME Inductive, Next, current' \notin {current, None}, current' \in dead
               PROVE  FALSE
    OBVIOUS
  <2>1. PICK e \in toRun : RunTimer(e)
    BY DEF Next, LoopStep, Call, Tick, Jump, TimerfdExpires, PollTimerfd, HandleRead, CallbackReturn, Reset,
           RunAdd, RunCancel, LoopAdd, LoopCancel, OtherAdd, OtherAddReturns, OtherCancel
  <2>2. current' = Id(e[2]) /\ current'[1] = e[2] /\ current'[2] = heap[e[2]].seq
    BY <2>1 DEF RunTimer, Id
  <2>3. ~Deleted(current') BY <2>2 DEF Deleted
  <2>4. PICK d \in expired \ toRun : current' = Id(d[2])
    BY <2>3 DEF Inductive, Cancelled, Dropped
  <2>5. d[2] = e[2] BY <2>2, <2>4 DEF Id
  <2>6. e \in expired BY DEF Inductive, Shape, TypeOK
  <2>7. d = e BY <2>5, <2>6, Entries
  <2> QED BY <2>4, <2>7
<1> QED BY <1>1, Invariance, PTL DEF Spec, CancelledStaysCancelled

\* getExpired() and reset(): no callback before its time, and one callback of a timer without interval.
THEOREM CalledOnceInTime == Spec => OnceAndNotEarly
<1>1. Inductive /\ [Next]_vars =>
        [current' \notin {current, None} =>
           /\ heap[current'[1]].when <= handleNow
           /\ heap[current'[1]].interval = 0 => current'[2] \notin ran]_vars
  <2> SUFFICES ASSUME Inductive, Next, current' \notin {current, None}
               PROVE  /\ heap[current'[1]].when <= handleNow
                      /\ heap[current'[1]].interval = 0 => current'[2] \notin ran
    OBVIOUS
  <2>1. PICK e \in toRun : RunTimer(e)
    BY DEF Next, LoopStep, Call, Tick, Jump, TimerfdExpires, PollTimerfd, HandleRead, CallbackReturn, Reset,
           RunAdd, RunCancel, LoopAdd, LoopCancel, OtherAdd, OtherAddReturns, OtherCancel
  <2>2. current'[1] = e[2] /\ current'[2] = heap[e[2]].seq
    BY <2>1 DEF RunTimer, Id
  <2>3. e \in expired BY DEF Inductive, Shape, TypeOK
  <2>4. e[2] \in Addrs /\ heap[e[2]].when = e[1] /\ e[1] <= handleNow /\ \A d \in expired : d[2] = e[2] => d = e
    BY <2>3, Entries DEF Inductive, Owning
  <2>5. heap[e[2]].interval = 0 => heap[e[2]].seq \notin ran
    BY <2>4 DEF Inductive, Called
  <2> QED BY <2>2, <2>4, <2>5
<1> QED BY <1>1, Invariance, PTL DEF Spec, OnceAndNotEarly
====
