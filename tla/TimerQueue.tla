---- MODULE TimerQueue ----
(***************************************************************************)
(* TimerQueue.cc: the timers of one event loop, the loop's thread, and the *)
(* threads that add and cancel timers.                                     *)
(*                                                                         *)
(* A Timer is an object at an address of the heap, and addresses are used  *)
(* again; a TimerId is the address with the timer's sequence number.  The  *)
(* wall clock (Timestamp::now()) and the timerfd's countdown advance       *)
(* together, except when the wall clock is set.  What another thread asks  *)
(* for reaches the loop through its functor queue (runInLoop), oldest      *)
(* first; the loop thread's own calls act at once.                         *)
(*                                                                         *)
(* The loop thread is idle (outside handleRead; other callbacks and        *)
(* functors run), has the timerfd's event in its hands (event; other       *)
(* callbacks run first), or is in handleRead, in a timer's callback or     *)
(* between two.                                                            *)
(***************************************************************************)
EXTENDS Integers, FiniteSets, Sequences

CONSTANTS
  Addrs,          \* where Timer objects can be
  Callers,        \* other threads
  Delays,         \* when - now of the timers added
  Intervals,      \* interval_, 0 for a timer that does not repeat
  MaxTimers, MaxTime, MaxCancels, MaxJumps,  \* bounds
  CallsArePrompt  \* addTimer returns in its caller before the loop handles the next expiry

ASSUME TimeAssumption ==
  /\ Delays \subseteq Nat /\ Intervals \subseteq Nat
  /\ MaxTimers \in Nat /\ MaxTime \in Nat \ {0} /\ MaxCancels \in Nat /\ MaxJumps \in Nat
  /\ CallsArePrompt \in BOOLEAN

VARIABLES
  now,        \* the wall clock
  armed,      \* ticks until the timerfd expires, or Disarmed
  readable,   \* the timerfd has expired and was not read or set since
  heap,       \* Timer objects
  timers,           \* timers_: pairs of expiration and address
  activeTimers,     \* activeTimers_: pairs of address and sequence
  cancelingTimers,  \* cancelingTimers_
  expired,    \* handleRead's local vector
  toRun,      \* those of it whose callback is still to be called
  handleNow,  \* handleRead's local now
  lpc,        \* where the loop thread is
  queue,      \* pendingFunctors_
  upc,        \* the timer whose sequence number a caller is about to read in addTimer
  ids,        \* TimerIds that addTimer returned
  jumps, cancels,   \* counts, for the bounds
  made,       \* history: the intervals of the timers created
  current,    \* history: the timer whose callback was called last
  ran,        \* history: sequence numbers of timers whose callback was called
  requested,  \* history: sequence numbers given to cancel()
  asked,      \* history: timers of toRun that cancelInLoop was called for
  dead        \* history: the other timers that cancelInLoop was called for

vars == <<now, armed, readable, heap, timers, activeTimers, cancelingTimers, expired, toRun, handleNow,
          lpc, queue, upc, ids, jumps, cancels, made, current, ran, requested, asked, dead>>

clock == <<now, jumps>>
timerfd == <<armed, readable>>
batch == <<cancelingTimers, expired, toRun, handleNow>>
callers == <<upc, ids, cancels, requested>>

Disarmed == -1
None == <<>>
Freed == [when |-> 0, interval |-> 0, seq |-> 0]

CallingExpiredTimers == lpc \in {"handling", "callback"}

Id(a) == <<a, heap[a].seq>>
Ids == Addrs \X (0..MaxTimers)

TypeOK ==
  /\ now \in 1..MaxTime /\ armed \in Nat \cup {Disarmed} /\ readable \in BOOLEAN
  /\ heap \in [Addrs -> [when : Nat, interval : Intervals \cup {0}, seq : 0..MaxTimers]]
  /\ timers \subseteq Nat \X Addrs
  /\ activeTimers \subseteq Ids /\ cancelingTimers \subseteq Ids
  /\ expired \subseteq Nat \X Addrs /\ toRun \subseteq expired
  /\ handleNow \in 0..MaxTime
  /\ lpc \in {"idle", "event", "handling", "callback"}
  /\ ~CallingExpiredTimers => expired = {}
  /\ queue \in Seq(({"add"} \X Addrs) \cup ({"cancel"} \X Ids))
  /\ upc \in [Callers -> Ids \cup {None}]
  /\ ids \subseteq Ids

Init ==
  /\ now = 1 /\ armed = Disarmed /\ readable = FALSE
  /\ heap = [a \in Addrs |-> Freed]
  /\ timers = {} /\ activeTimers = {} /\ cancelingTimers = {}
  /\ expired = {} /\ toRun = {} /\ handleNow = 0
  /\ lpc = "idle" /\ queue = <<>>
  /\ upc = [t \in Callers |-> None]
  /\ ids = {}
  /\ jumps = 0 /\ cancels = 0
  /\ made = <<>> /\ current = None
  /\ ran = {} /\ requested = {} /\ asked = {} /\ dead = {}

----
(* Clocks *)

\* At MaxTime, the bound, the wall clock stays and the countdown goes on.
Tick ==
  /\ now < MaxTime \/ armed > 0
  /\ now' = IF now < MaxTime THEN now + 1 ELSE now
  /\ armed' = IF armed > 0 THEN armed - 1 ELSE armed
  /\ UNCHANGED <<readable, heap, timers, activeTimers, batch, lpc, queue, callers, jumps,
                 made, current, ran, asked, dead>>

\* The wall clock is set; the timerfd counts CLOCK_MONOTONIC.
Jump ==
  /\ jumps < MaxJumps
  /\ jumps' = jumps + 1
  /\ now' \in 1..MaxTime \ {now}
  /\ UNCHANGED <<timerfd, heap, timers, activeTimers, batch, lpc, queue, callers,
                 made, current, ran, asked, dead>>

TimerfdExpires ==
  /\ armed = 0
  /\ armed' = Disarmed /\ readable' = TRUE
  /\ UNCHANGED <<clock, heap, timers, activeTimers, batch, lpc, queue, callers,
                 made, current, ran, asked, dead>>

\* resetTimerfd(): a relative time, from howMuchTimeFromNow; an expiry not yet read is forgotten.
ResetTimerfd(when) ==
  /\ armed' = IF when > now THEN when - now ELSE 0
  /\ readable' = FALSE

Earliest(entries) == CHOOSE w \in {e[1] : e \in entries} : \A e \in entries : w <= e[1]

----
(* In the loop thread *)

\* insert(), of each of as.
Insert(as) ==
  /\ timers' = timers \cup {<<heap'[a].when, a>> : a \in as}
  /\ activeTimers' = activeTimers \cup {<<a, heap'[a].seq>> : a \in as}

InsertNoRearm(a) ==  \* a mutant: does not notice that a timer is the new earliest
  /\ Insert({a})
  /\ IF timers = {} THEN ResetTimerfd(heap'[a].when) ELSE UNCHANGED timerfd

\* addTimerInLoop(): the timerfd is set anew when the timer is the earliest.
AddTimerInLoop(a) ==
  /\ Insert({a})
  /\ IF timers = {} \/ heap'[a].when < Earliest(timers)
       THEN ResetTimerfd(heap'[a].when)
       ELSE UNCHANGED timerfd

CancelByAddress(id) ==  \* a mutant: ignores the sequence number
  /\ \E x \in activeTimers : x[1] = id[1]
  /\ timers' = timers \ {<<heap[id[1]].when, id[1]>>}
  /\ heap' = [heap EXCEPT ![id[1]] = Freed]
  /\ activeTimers' = {x \in activeTimers : x[1] # id[1]}
  /\ dead' = dead \cup {id}
  /\ UNCHANGED <<cancelingTimers, asked>>

CancelNoDelete(id) ==  \* a mutant: does not delete the timer
  /\ id \in activeTimers
  /\ timers' = timers \ {<<heap[id[1]].when, id[1]>>}
  /\ activeTimers' = activeTimers \ {id}
  /\ dead' = dead \cup {id}
  /\ UNCHANGED <<heap, cancelingTimers, asked>>

\* cancelInLoop() of a timer that waits: it is erased from both sets and deleted.
CancelActive(id) ==
  /\ id \in activeTimers
  /\ timers' = timers \ {<<heap[id[1]].when, id[1]>>}
  /\ heap' = [heap EXCEPT ![id[1]] = Freed]
  /\ activeTimers' = activeTimers \ {id}
  /\ dead' = dead \cup {id}
  /\ UNCHANGED <<cancelingTimers, asked>>

\* What a cancellation of a timer in handleRead's vector ends: the timer, if its callback was called.
NoteCancelled(id) ==
  /\ asked' = asked \cup ({id} \cap {Id(e[2]) : e \in toRun})
  /\ dead' = dead \cup ({id} \cap {Id(e[2]) : e \in expired \ toRun})

CancelExpiredIgnored(id) ==  \* a mutant: a timer that is not active needs no cancelling
  /\ id \notin activeTimers
  /\ NoteCancelled(id)
  /\ UNCHANGED <<timers, heap, activeTimers, cancelingTimers>>

\* cancelInLoop() of any other: remembered while handleRead calls back, so that it is not restarted.
CancelInactive(id) ==
  /\ id \notin activeTimers
  /\ cancelingTimers' = IF CallingExpiredTimers THEN cancelingTimers \cup {id} ELSE cancelingTimers
  /\ NoteCancelled(id)
  /\ UNCHANGED <<timers, heap, activeTimers>>

CancelInLoop(id) == CancelActive(id) \/ CancelInactive(id)

\* epoll_wait returns with the timerfd's channel active.
PollTimerfd ==
  /\ lpc = "idle" /\ readable
  /\ CallsArePrompt => \A t \in Callers : upc[t] = None
  /\ lpc' = "event"
  /\ UNCHANGED <<clock, timerfd, heap, timers, activeTimers, batch, queue, callers,
                 made, current, ran, asked, dead>>

\* getExpired()
Expired == {e \in timers : e[1] <= now}

\* handleRead() up to its loop over expired: reads the timerfd, clears cancelingTimers_.
HandleRead ==
  /\ lpc = "event"
  /\ lpc' = "handling"
  /\ readable' = FALSE
  /\ expired' = Expired
  /\ toRun' = expired'
  /\ timers' = timers \ expired'
  /\ activeTimers' = activeTimers \ {Id(e[2]) : e \in expired'}
  /\ cancelingTimers' = {}
  /\ handleNow' = now
  /\ UNCHANGED <<clock, armed, heap, queue, callers, made, current, ran, asked, dead>>

\* The callbacks are called in the order of expiration, of the timers cancelled meanwhile too.
RunTimer(e) ==
  /\ lpc = "handling"
  /\ e \in toRun /\ e[1] = Earliest(toRun)
  /\ lpc' = "callback"
  /\ toRun' = toRun \ {e}
  /\ current' = Id(e[2])
  /\ ran' = ran \cup {heap[e[2]].seq}
  /\ asked' = asked \ {current'} /\ dead' = dead \cup (asked \cap {current'})
  /\ UNCHANGED <<clock, timerfd, heap, timers, activeTimers, cancelingTimers, expired, handleNow, queue,
                 callers, made>>

CallbackReturn ==
  /\ lpc = "callback"
  /\ lpc' = "handling"
  /\ current' = None
  /\ UNCHANGED <<clock, timerfd, heap, timers, activeTimers, batch, queue, callers, made, ran, asked, dead>>

RepeatsForever(a) == Id(a) \notin cancelingTimers  \* a mutant: restarts timers that do not repeat

\* reset()'s condition: the timer is restarted, not deleted.
Repeats(a) == heap[a].interval > 0 /\ Id(a) \notin cancelingTimers

NextExpireKept == UNCHANGED timerfd  \* a mutant: leaves the timerfd alone after handling

BatchDoneEarly == TRUE  \* a mutant: resets before every callback was called

\* handleRead's loop over expired is over.
BatchDone == toRun = {}

\* Timer::restart(now)
Restarted(timer) == [timer EXCEPT !.when = handleNow + timer.interval]

\* The end of reset(): the timerfd is set for the earliest timer left.
NextExpire == IF timers' = {} THEN UNCHANGED timerfd ELSE ResetTimerfd(Earliest(timers'))

\* reset(): timers that repeat start again from handleRead's now, the others are deleted.
Reset ==
  /\ lpc = "handling" /\ BatchDone
  /\ lpc' = "idle"
  /\ LET again == {e[2] : e \in {x \in expired : Repeats(x[2])}}
         over == {e[2] : e \in expired} \ again
     IN /\ heap' = [a \in Addrs |->
                      IF a \in over THEN Freed
                      ELSE IF a \in again THEN Restarted(heap[a])
                      ELSE heap[a]]
        /\ Insert(again)
  /\ expired' = {}
  /\ NextExpire
  /\ handleNow' = 0
  /\ UNCHANGED <<clock, cancelingTimers, toRun, queue, callers, made, current, ran, asked, dead>>

\* doPendingFunctors calls the oldest functor that concerns the timers.
RunAdd ==
  /\ lpc = "idle" /\ queue # <<>> /\ Head(queue)[1] = "add"
  /\ queue' = Tail(queue)
  /\ UNCHANGED heap
  /\ AddTimerInLoop(Head(queue)[2])
  /\ UNCHANGED <<clock, batch, lpc, callers, made, current, ran, asked, dead>>

RunCancel ==
  /\ lpc = "idle" /\ queue # <<>> /\ Head(queue)[1] = "cancel"
  /\ queue' = Tail(queue)
  /\ CancelInLoop(Head(queue)[2])
  /\ UNCHANGED <<clock, timerfd, expired, toRun, handleNow, lpc, callers, made, current, ran>>

----
(* Calls *)

\* new Timer(cb, now + delay, interval), at a free address.
NewTimer(a, delay, interval) ==
  /\ Len(made) < MaxTimers
  /\ heap[a] = Freed
  /\ heap' = [heap EXCEPT ![a] = [when |-> now + delay, interval |-> interval, seq |-> Len(made) + 1]]
  /\ made' = Append(made, interval)

LoopUserCode == lpc \in {"idle", "event", "callback"}

\* addTimer() in the loop thread.
LoopAdd(a, delay, interval) ==
  /\ LoopUserCode
  /\ NewTimer(a, delay, interval)
  /\ AddTimerInLoop(a)
  /\ ids' = ids \cup {<<a, heap'[a].seq>>}
  /\ UNCHANGED <<clock, batch, lpc, queue, upc, cancels, requested, current, ran, asked, dead>>

RequestCancel(id) ==
  /\ cancels < MaxCancels /\ cancels' = cancels + 1
  /\ requested' = requested \cup {id[2]}

LoopCancel(id) ==
  /\ LoopUserCode
  /\ RequestCancel(id)
  /\ CancelInLoop(id)
  /\ UNCHANGED <<clock, timerfd, expired, toRun, handleNow, lpc, queue, upc, ids, made, current, ran>>

\* addTimer() in another thread: the timer goes to the loop ...
OtherAdd(t, a, delay, interval) ==
  /\ upc[t] = None
  /\ NewTimer(a, delay, interval)
  /\ queue' = Append(queue, <<"add", a>>)
  /\ upc' = [upc EXCEPT ![t] = <<a, heap'[a].seq>>]
  /\ UNCHANGED <<clock, timerfd, timers, activeTimers, batch, lpc, ids, cancels, requested,
                 current, ran, asked, dead>>

\* ... and its sequence number is read after that, for the TimerId.
OtherAddReturns(t) ==
  /\ upc[t] # None
  /\ ids' = ids \cup {Id(upc[t][1])}
  /\ upc' = [upc EXCEPT ![t] = None]
  /\ UNCHANGED <<clock, timerfd, heap, timers, activeTimers, batch, lpc, queue, cancels, requested,
                 made, current, ran, asked, dead>>

OtherCancel(t, id) ==
  /\ upc[t] = None
  /\ RequestCancel(id)
  /\ queue' = Append(queue, <<"cancel", id>>)
  /\ UNCHANGED <<clock, timerfd, heap, timers, activeTimers, batch, lpc, upc, ids,
                 made, current, ran, asked, dead>>

----

LoopStep ==
  \/ PollTimerfd \/ HandleRead \/ CallbackReturn \/ Reset
  \/ RunAdd \/ RunCancel
  \/ \E e \in toRun : RunTimer(e)

Call ==
  \/ \E a \in Addrs, d \in Delays, i \in Intervals :
       LoopAdd(a, d, i) \/ \E t \in Callers : OtherAdd(t, a, d, i)
  \/ \E id \in ids : LoopCancel(id) \/ \E t \in Callers : OtherCancel(t, id)

Next ==
  \/ Tick \/ Jump \/ TimerfdExpires
  \/ LoopStep
  \/ Call
  \/ \E t \in Callers : OtherAddReturns(t)

Spec == Init /\ [][Next]_vars

\* Time passes, the timerfd expires, callbacks return and the loop and its callers go on.
FairSpec ==
  /\ Spec
  /\ WF_vars(Tick) /\ WF_vars(TimerfdExpires)
  /\ WF_vars(LoopStep)
  /\ \A t \in Callers : WF_vars(OtherAddReturns(t))

----
(* Properties *)

\* The two sets, entry by entry (part of HeapOwned).
SetsAgree ==
  /\ \A e \in timers : heap[e[2]].seq # 0 /\ heap[e[2]].when = e[1] /\ Id(e[2]) \in activeTimers
  /\ \A id \in activeTimers : id = Id(id[1]) /\ <<heap[id[1]].when, id[1]>> \in timers

\* The addresses by which the queue owns timers: waiting, in handleRead's vector, in a functor.
Owned ==
  {e[2] : e \in timers \cup expired} \cup {queue[i][2] : i \in {j \in DOMAIN queue : queue[j][1] = "add"}}

\* timers_ and activeTimers_ hold the same timers, at the expiration each timer has: what the size
\* assertions of TimerQueue.cc (155, 189, 237) stand for, and what cancelInLoop's erase relies on.  And
\* every Timer is deleted once and not before its last use: what the queue points to is there, what
\* is there is pointed to, and by one of them only (the two "no please" deletes, 160 and 222).
HeapOwned ==
  /\ SetsAgree
  /\ \A a \in Addrs : heap[a].seq # 0 <=> a \in Owned
  /\ {e[2] : e \in timers} \cap {e[2] : e \in expired} = {}

\* No timer goes missing: each one created is still owned, or did not repeat and was called, or was
\* cancelled under its own id, however often its address was used again.
TimersAccounted ==
  \A s \in 1..Len(made) :
    \/ \E a \in Owned : heap[a].seq = s
    \/ made[s] = 0 /\ s \in ran
    \/ s \in requested

\* While a timer waits and handleRead is not at work the timerfd will make it run: it is readable or
\* counts down, and unless the wall clock was set, to no later than the earliest expiration.
TimerfdArmed ==
  ~CallingExpiredTimers /\ timers # {} =>
    \/ readable
    \/ armed # Disarmed /\ (jumps = 0 => armed = 0 \/ now + armed <= Earliest(timers))

\* A timer that cancelInLoop finds is not called again: neither one that waits nor one of the batch that
\* handleRead has called (cancelingTimers_).  One that handleRead is still to call in the batch is called
\* that once more (TimerQueue.cc:180-182), and not after it.
CancelledStaysCancelled == [][current' \notin {current, None} => current' \notin dead]_vars

\* A timer without interval is called once, and no timer before its time (by the clock handleRead read).
OnceAndNotEarly ==
  [][current' \notin {current, None} =>
       /\ heap[current'[1]].when <= handleNow
       /\ heap[current'[1]].interval = 0 => current'[2] \notin ran]_vars

\* A timer that is due is called or cancelled in the end, wherever the wall clock was set to meanwhile.
DueTimersRun ==
  \A s \in 1..MaxTimers :
    (\E e \in timers : e[1] <= MaxTime /\ heap[e[2]].seq = s) ~> (s \in ran \/ s \in requested)

\* addTimer "must be thread safe" (TimerQueue.h:73): the timer whose sequence number it is about to read
\* is still there.  The loop may have called and deleted it.
SequenceReadable == \A t \in Callers : upc[t] # None => Id(upc[t][1]) = upc[t]
====
