---- MODULE EventLoopProofs ----
(***************************************************************************)
(* EventLoop for any set of callers and any set of functors: the type      *)
(* invariant, no lost wakeup, and the refinement of TaskExecutor.          *)
(***************************************************************************)
EXTENDS EventLoop, SequenceTheorems, TLAPS

----
(* Queues of functors as sequences: what a push and a pop do to the functors in them *)

\* The range of a queue after a push.
LEMMA RangeAppend ==
  ASSUME NEW S, NEW s \in Seq(S), NEW x \in S
  PROVE  Range(Append(s, x)) = Range(s) \cup {x}
<1>1. /\ DOMAIN s = 1..Len(s)
      /\ DOMAIN Append(s, x) = 1..(Len(s) + 1)
      /\ Append(s, x)[Len(s) + 1] = x
      /\ \A i \in 1..Len(s) : Append(s, x)[i] = s[i]
OBVIOUS
<1>2. Len(s) \in Nat
OBVIOUS
<1>3. \A i \in 1..(Len(s) + 1) : i \in 1..Len(s) \/ i = Len(s) + 1
  BY <1>2
<1>4. 1..Len(s) \subseteq 1..(Len(s) + 1) /\ Len(s) + 1 \in 1..(Len(s) + 1)
  BY <1>2
<1> QED BY <1>1, <1>3, <1>4, Zenon DEF Range

\* The range of an empty queue.
LEMMA RangeEmpty == Range(<<>>) = {}
<1>1. <<>> \in Seq({}) OBVIOUS
<1>2. Range(<<>>) \in SUBSET {} BY <1>1, RangeOfSeq, Zenon
<1> QED BY <1>2, Zenon

\* No element occurs twice.
Distinct(s) == \A i, j \in DOMAIN s : s[i] = s[j] => i = j

\* Popping the head of a sequence without repetitions.
LEMMA DistinctTail ==
  ASSUME NEW S, NEW s \in Seq(S), s # <<>>, Distinct(s)
  PROVE  Distinct(Tail(s)) /\ Range(Tail(s)) = Range(s) \ {Head(s)}
<1>1. /\ DOMAIN s = 1..Len(s) /\ Len(s) \in Nat /\ Len(s) >= 1
      /\ DOMAIN Tail(s) = 1..(Len(s) - 1)
      /\ Head(s) = s[1]
      /\ \A i \in 1..(Len(s) - 1) : Tail(s)[i] = s[i + 1]
  OBVIOUS
<1>2. \A i \in 1..(Len(s) - 1) : i + 1 \in 1..Len(s) /\ i + 1 # 1
  BY <1>1
<1>3. \A i \in 1..Len(s) : i = 1 \/ (i - 1 \in 1..(Len(s) - 1) /\ i = (i - 1) + 1)
  BY <1>1
<1>4. Distinct(Tail(s))
  BY <1>1, <1>2 DEF Distinct
<1>5. \A i \in DOMAIN Tail(s) : Tail(s)[i] \in Range(s) /\ Tail(s)[i] # Head(s)
  <2> TAKE i \in DOMAIN Tail(s)
  <2>1. i + 1 \in DOMAIN s /\ 1 \in DOMAIN s /\ i + 1 # 1 BY <1>1, <1>2
  <2>2. Tail(s)[i] = s[i + 1] BY <1>1
  <2> QED BY <1>1, <2>1, <2>2, Zenon DEF Distinct, Range
<1>6. \A i \in DOMAIN s : s[i] = Head(s) \/ s[i] \in Range(Tail(s))
  <2> TAKE i \in DOMAIN s
  <2>1. CASE i = 1 BY <1>1, <2>1
  <2>2. CASE i - 1 \in DOMAIN Tail(s)
    <3>1. s[i] = Tail(s)[i - 1] BY <1>1, <2>2
    <3> QED BY <2>2, <3>1, Zenon DEF Range
  <2> QED BY <1>1, <1>3, <2>1, <2>2
<1> QED BY <1>4, <1>5, <1>6, Zenon DEF Range

\* Pushing a new element on a sequence without repetitions.
LEMMA DistinctAppend ==
  ASSUME NEW S, NEW s \in Seq(S), NEW x \in S, Distinct(s), x \notin Range(s)
  PROVE  Distinct(Append(s, x))
<1>1. \A i \in DOMAIN Append(s, x) :
        \/ i \in DOMAIN s /\ Append(s, x)[i] = s[i]
        \/ i = Len(s) + 1 /\ Append(s, x)[i] = x
  OBVIOUS
<1>2. \A i \in DOMAIN s : s[i] # x BY Zenon DEF Range
<1> QED BY <1>1, <1>2, Zenon DEF Distinct

----
\* A new EventLoop (its constructor) satisfies the type invariant.
LEMMA TypeInit == Init => TypeOK
<1>1. /\ <<>> \in Seq(Tasks)
      /\ [t \in Callers |-> "idle"] \in [Callers -> {"idle", "wake", "quitSet", "quitReset"}]
  OBVIOUS
<1> QED BY <1>1, Zenon DEF Init, TypeOK, LoopPC

\* Each action keeps the types and the agreement of flags, local vector and program counter.
LEMMA TypeStep == TypeOK /\ [Next]_vars => TypeOK'
<1> SUFFICES ASSUME TypeOK, [Next]_vars PROVE TypeOK'
  OBVIOUS
<1> USE DEF TypeOK, LoopPC, flagVars, queueVars
<1>1. CASE LoopEnter BY <1>1 DEF LoopEnter
<1>2. CASE LoopReset BY <1>2 DEF LoopReset
<1>3. CASE WhileTest BY <1>3 DEF WhileTest
<1>4. CASE LoopExit BY <1>4 DEF LoopExit
<1>5. ASSUME NEW io \in BOOLEAN, PollReady(io) PROVE TypeOK'
  BY <1>5 DEF PollReady
<1>6. CASE PollTimeout BY <1>6 DEF PollTimeout
<1>7. CASE HandleRead BY <1>7 DEF HandleRead
<1>8. CASE HandleEvent BY <1>8 DEF HandleEvent
<1>9. CASE StartPendingFunctors BY <1>9 DEF StartPendingFunctors
<1>10. CASE RunFunctor BY <1>10 DEF RunFunctor
<1>11. CASE CallbackReturn BY <1>11 DEF CallbackReturn
<1>12. CASE FunctorsDone BY <1>12 DEF FunctorsDone
<1>13. CASE LoopQuit BY <1>13 DEF LoopQuit, UserCode
<1>14. ASSUME NEW f \in Tasks, LoopQueueInLoop(f) PROVE TypeOK'
  BY <1>14 DEF LoopQueueInLoop, NeedsWakeup, UserCode
<1>15. ASSUME NEW f \in Tasks, LoopRunInLoop(f) PROVE TypeOK'
  BY <1>15 DEF LoopRunInLoop
<1>16. ASSUME NEW t \in Callers, CallerStep(t) PROVE TypeOK'
  <2>1. CASE Wakeup(t) BY <2>1 DEF Wakeup
  <2>2. CASE QuitSet(t) BY <2>2 DEF QuitSet
  <2>3. CASE QuitReset(t) BY <2>3 DEF QuitReset
  <2> QED BY <1>16, <2>1, <2>2, <2>3 DEF CallerStep
<1>17. ASSUME NEW t \in Callers, QuitTest(t) PROVE TypeOK'
  BY <1>17 DEF QuitTest
<1>18. ASSUME NEW t \in Callers, NEW f \in Tasks, QueueInLoop(t, f) PROVE TypeOK'
  BY <1>18 DEF QueueInLoop
<1>19. CASE UNCHANGED vars BY <1>19 DEF vars
<1> QED
  BY <1>1, <1>2, <1>3, <1>4, <1>5, <1>6, <1>7, <1>8, <1>9, <1>10, <1>11, <1>12, <1>13, <1>14,
       <1>15, <1>16, <1>17, <1>18, <1>19 DEF Next, LoopStep, LoopCall, CallerCall

\* TypeOK is inductive: the flags follow the program counter of loop(), and doPendingFunctors' local
\* vector is empty whenever the function is not running.
THEOREM TypeCorrect == Spec => []TypeOK
BY TypeInit, TypeStep, PTL DEF Spec

----
(***************************************************************************)
(* No lost wakeup.  NoLostWakeup speaks of the poll only; what makes it    *)
(* inductive is that a wakeup covers the pending functors from the swap of *)
(* doPendingFunctors until the events of the next iteration: the eventfd   *)
(* is only reset among the events, and the swap after them takes all that  *)
(* was pushed before it.                                                   *)
(***************************************************************************)

WakeupCovers ==
  /\ lpc \notin {"events", "io"} /\ Range(pendingFunctors) \ unwoken # {} => WakeupUnderWay
  /\ lpc = "poll" /\ quit => WakeupUnderWay

IInv == TypeOK /\ WakeupCovers

\* A wakeup under way stays so through every step but the read of the eventfd.
LEMMA WakeupStays ==
  ASSUME TypeOK, WakeupUnderWay,
         \/ wakeupFd' = TRUE
         \/ wakeupFd' = wakeupFd /\ \A t \in Callers : pc[t] = "wake" => pc'[t] = "wake"
  PROVE  WakeupUnderWay'
  BY Zenon DEF WakeupUnderWay

\* No lost wakeup: the loop is never asleep in epoll_wait with a functor it was woken for, or with
\* quit_ set, unless the eventfd is readable or about to be written (queueInLoop, quit, loop).
THEOREM NoWakeupLost == Spec => []NoLostWakeup
<1>1. Init => IInv
  <2>1. Init => Range(pendingFunctors) \ unwoken = {}
    BY RangeEmpty DEF Init
  <2>2. Init => lpc = "outside"
    BY DEF Init
  <2> QED BY <2>1, <2>2, TypeInit DEF IInv, WakeupCovers
<1>2. IInv /\ [Next]_vars => WakeupCovers'
  <2> SUFFICES ASSUME IInv, [Next]_vars PROVE WakeupCovers'
  OBVIOUS
  <2> USE DEF IInv, WakeupCovers, flagVars, queueVars
  <2>T. TypeOK OBVIOUS
  <2>1. CASE LoopEnter BY <2>1, WakeupStays DEF LoopEnter
  <2>2. CASE LoopReset BY <2>2, WakeupStays DEF LoopReset
  <2>3. CASE WhileTest BY <2>3, WakeupStays DEF WhileTest
  <2>4. CASE LoopExit BY <2>4, WakeupStays DEF LoopExit
  <2>5. ASSUME NEW io \in BOOLEAN, PollReady(io) PROVE WakeupCovers'
    BY <2>5 DEF PollReady
  <2>6. CASE PollTimeout BY <2>6 DEF PollTimeout
  <2>7. CASE HandleRead BY <2>7 DEF HandleRead
  <2>8. CASE HandleEvent BY <2>8 DEF HandleEvent
  <2>9. CASE StartPendingFunctors
    <3>1. Range(pendingFunctors') = {} BY <2>9, RangeEmpty DEF StartPendingFunctors
    <3> QED BY <2>9, <3>1 DEF StartPendingFunctors
  <2>10. CASE RunFunctor BY <2>10, WakeupStays DEF RunFunctor
  <2>11. CASE CallbackReturn BY <2>11, WakeupStays DEF CallbackReturn
  <2>12. CASE FunctorsDone BY <2>12, WakeupStays DEF FunctorsDone
  <2>13. CASE LoopQuit BY <2>13, WakeupStays DEF LoopQuit, UserCode
  <2>14. ASSUME NEW f \in Tasks, LoopQueueInLoop(f) PROVE WakeupCovers'
    <3>1. CASE lpc = "outside"
      <4>1. Range(pendingFunctors') = Range(pendingFunctors) \cup {f}
        BY <2>14, RangeAppend DEF LoopQueueInLoop, TypeOK
      <4>2. unwoken' = unwoken \cup {f}
        BY <2>14, <3>1 DEF LoopQueueInLoop
      <4>3. Range(pendingFunctors') \ unwoken' # {} => Range(pendingFunctors) \ unwoken # {}
        BY <4>1, <4>2, Zenon
      <4>4. WakeupUnderWay => WakeupUnderWay'
        BY <2>14, Zenon DEF LoopQueueInLoop, WakeupUnderWay
      <4>5. lpc' = "outside" BY <2>14, <3>1 DEF LoopQueueInLoop
      <4> QED BY <3>1, <4>3, <4>4, <4>5
    <3>2. CASE lpc = "io" BY <2>14, <3>2 DEF LoopQueueInLoop
    <3>3. CASE lpc = "task"
      BY <2>14, <3>3 DEF LoopQueueInLoop, NeedsWakeup, TypeOK, WakeupUnderWay
    <3> QED BY <2>14, <3>1, <3>2, <3>3 DEF LoopQueueInLoop, UserCode
  <2>15. ASSUME NEW f \in Tasks, LoopRunInLoop(f) PROVE WakeupCovers'
    BY <2>15, WakeupStays DEF LoopRunInLoop
  <2>16. ASSUME NEW t \in Callers, CallerStep(t) PROVE WakeupCovers'
    <3>1. CASE Wakeup(t) BY <3>1 DEF Wakeup, WakeupUnderWay
    <3>2. CASE QuitSet(t)
      <4>1. pc'[t] = "wake" BY <3>2 DEF QuitSet, TypeOK
      <4> QED BY <4>1 DEF WakeupUnderWay
    <3>3. CASE QuitReset(t)
      <4>1. \A u \in Callers : pc[u] = "wake" => pc'[u] = "wake"
        BY <3>3 DEF QuitReset, TypeOK
      <4> QED BY <3>3, <4>1, WakeupStays DEF QuitReset
    <3> QED BY <2>16, <3>1, <3>2, <3>3 DEF CallerStep
  <2>17. ASSUME NEW t \in Callers, QuitTest(t) PROVE WakeupCovers'
    <3>1. \A u \in Callers : pc[u] = "wake" => pc'[u] = "wake"
      BY <2>17 DEF QuitTest, TypeOK
    <3> QED BY <2>17, <3>1, WakeupStays DEF QuitTest
  <2>18. ASSUME NEW t \in Callers, NEW f \in Tasks, QueueInLoop(t, f) PROVE WakeupCovers'
    <3>1. pc'[t] = "wake" BY <2>18 DEF QueueInLoop, TypeOK
    <3> QED BY <3>1 DEF WakeupUnderWay
  <2>19. CASE UNCHANGED vars BY <2>19, WakeupStays DEF vars
  <2> QED
    BY <2>1, <2>2, <2>3, <2>4, <2>5, <2>6, <2>7, <2>8, <2>9, <2>10, <2>11, <2>12, <2>13, <2>14,
       <2>15, <2>16, <2>17, <2>18, <2>19 DEF Next, LoopStep, LoopCall, CallerCall
<1>3. IInv => NoLostWakeup
  BY DEF IInv, WakeupCovers, NoLostWakeup
<1> QED BY <1>1, <1>2, <1>3, TypeStep, PTL DEF Spec, IInv

----
(***************************************************************************)
(* The refinement.  The executor's queue is functors \o pendingFunctors,   *)
(* which the swap leaves alone, RunFunctor pops and a push extends.        *)
(***************************************************************************)

\* The tasks that are not fresh are the same in both specifications.
LEMMA FreshMaps ==
  ASSUME TypeOK, NEW f, Fresh(f)
  PROVE  Executor!Fresh(f)
<1>1. Range(functors \o pendingFunctors) = Range(functors) \cup Range(pendingFunctors)
  BY RangeConcatenation DEF TypeOK
<1> QED BY <1>1, Zenon DEF Fresh, Executor!Fresh, Range, Executor!Range

\* A push on pendingFunctors extends the executor's queue.
LEMMA PushMaps ==
  ASSUME TypeOK, NEW f \in Tasks, Fresh(f),
         pendingFunctors' = Append(pendingFunctors, f), functors' = functors, ran' = ran
  PROVE  Executor!Submit(f)
<1>1. (functors \o pendingFunctors)' = Append(functors \o pendingFunctors, f)
  BY DEF TypeOK
<1> QED BY <1>1, FreshMaps, Zenon DEF Executor!Submit

\* Every step of the loop and its callers is a step of the executor or leaves it alone.
LEMMA StepMaps == TypeOK /\ [Next]_vars => [Executor!Next]_(Executor!vars)
<1> SUFFICES ASSUME TypeOK, [Next]_vars PROVE [Executor!Next]_(Executor!vars)
  OBVIOUS
<1>A. CASE UNCHANGED <<functors, pendingFunctors, ran>>
  BY <1>A, Zenon DEF Executor!vars
<1>1. CASE StartPendingFunctors
  <2>1. functors = <<>> /\ pendingFunctors' = <<>> /\ functors' = pendingFunctors /\ ran' = ran
    BY <1>1 DEF StartPendingFunctors, TypeOK
  <2>2. (functors \o pendingFunctors)' = functors \o pendingFunctors
    BY <2>1 DEF TypeOK
  <2> QED BY <2>1, <2>2, Zenon DEF Executor!vars
<1>2. CASE RunFunctor
  <2>1. functors # <<>> /\ functors' = Tail(functors) /\ pendingFunctors' = pendingFunctors
    BY <1>2 DEF RunFunctor
  <2>2. ran' = ran \cup {Head(functors)} BY <1>2 DEF RunFunctor
  <2>3. /\ functors \o pendingFunctors # <<>>
        /\ Head(functors \o pendingFunctors) = Head(functors)
        /\ Tail(functors \o pendingFunctors) = Tail(functors) \o pendingFunctors
    BY <2>1 DEF TypeOK
  <2> QED BY <2>1, <2>2, <2>3, Zenon DEF Executor!RunHead, Executor!Next
<1>3. ASSUME NEW f \in Tasks, LoopQueueInLoop(f) \/ \E t \in Callers : QueueInLoop(t, f)
      PROVE  Executor!Next
  BY <1>3, PushMaps DEF LoopQueueInLoop, QueueInLoop, Executor!Next
<1>4. ASSUME NEW f \in Tasks, LoopRunInLoop(f) PROVE Executor!Next
  <2>1. /\ Fresh(f) /\ ran' = ran \cup {f}
        /\ functors' = functors /\ pendingFunctors' = pendingFunctors
    BY <1>4 DEF LoopRunInLoop, queueVars
  <2> QED BY <2>1, FreshMaps, Zenon DEF Executor!RunNow, Executor!Next
<1> QED
  BY <1>A, <1>1, <1>2, <1>3, <1>4
  DEF Next, LoopStep, LoopCall, CallerStep, CallerCall, LoopEnter, LoopReset, WhileTest, LoopExit,
      PollReady, PollTimeout, HandleRead, HandleEvent, CallbackReturn, FunctorsDone, LoopQuit,
      Wakeup, QuitTest, QuitSet, QuitReset, queueVars, vars

\* The event loop implements the task executor: functors run in the order in which they were queued,
\* whichever thread queued them and wherever the swap of doPendingFunctors falls.
THEOREM Implements == Spec => ExecutesInOrder
<1>1. Init => Executor!Init
  BY DEF Init, Executor!Init
<1> QED BY <1>1, StepMaps, TypeCorrect, PTL DEF Spec, ExecutesInOrder, Executor!Spec

\* No functor is called twice, whatever threads queue and however doPendingFunctors interleaves.
THEOREM NoTaskTwice == Spec => []Executor!AtMostOnce
<1> DEFINE q == functors \o pendingFunctors
           Once == Distinct(q) /\ Range(q) \cap ran = {}
<1>1. Init => Once
  <2> SUFFICES ASSUME Init PROVE Once
    OBVIOUS
  <2>1. q = <<>> /\ ran = {} BY DEF Init
  <2>2. DOMAIN q = {} BY <2>1
  <2> QED BY <2>1, <2>2, Zenon DEF Distinct, Range
<1>2. TypeOK /\ Once /\ [Executor!Next]_(Executor!vars) /\ TypeOK' => Once'
  <2> SUFFICES ASSUME TypeOK, Once, [Executor!Next]_(Executor!vars), TypeOK' PROVE Once'
    OBVIOUS
  <2>T. q \in Seq(Tasks) BY DEF TypeOK
  <2>1. CASE UNCHANGED Executor!vars
    BY <2>1, Zenon DEF Executor!vars
  <2>2. CASE Executor!RunHead
    <3>1. q # <<>> /\ q' = Tail(q) /\ ran' = ran \cup {Head(q)}
      BY <2>2, Zenon DEF Executor!RunHead
    <3>2. Distinct(Tail(q)) /\ Range(Tail(q)) = Range(q) \ {Head(q)}
      BY <2>T, <3>1, DistinctTail, Zenon
    <3> QED BY <3>1, <3>2, Zenon
  <2>3. ASSUME NEW f \in Tasks, Executor!Submit(f) PROVE Once'
    <3>1. q' = Append(q, f) /\ ran' = ran /\ f \notin ran /\ f \notin Range(q)
      BY <2>3, Zenon DEF Executor!Submit, Executor!Fresh, Range, Executor!Range
    <3>2. Distinct(q) OBVIOUS
    <3>3. f \in Tasks /\ f \notin Range(q) BY <3>1
    <3>4. Distinct(Append(q, f)) BY <2>T, <3>2, <3>3, DistinctAppend
    <3>5. Range(Append(q, f)) = Range(q) \cup {f} BY <2>T, <3>3, RangeAppend
    <3> QED BY <3>1, <3>4, <3>5, Zenon
  <2>4. ASSUME NEW f \in Tasks, Executor!RunNow(f) PROVE Once'
    BY <2>4, Zenon DEF Executor!RunNow, Executor!Fresh, Range, Executor!Range
  <2> QED BY <2>1, <2>2, <2>3, <2>4, Zenon DEF Executor!Next
<1>3. Once => Executor!AtMostOnce
  BY Zenon DEF Executor!AtMostOnce, Distinct, Range, Executor!Range
<1> QED BY <1>1, <1>2, <1>3, StepMaps, TypeCorrect, PTL DEF Spec
====
