---- MODULE EventLoopThreadProofs ----
(***************************************************************************)
(* EventLoopThread for any set of callers and functors: its loop is an     *)
(* EventLoop, so what is proved of that holds here, and the destructor     *)
(* finds the loop unless somebody else made it quit.                       *)
(***************************************************************************)
EXTENDS EventLoopThread, TLAPS

\* The event loop with the theorems about it.
Proved == INSTANCE EventLoopProofs

----
(* The loop of the thread is an EventLoop. *)

\* A state of the loop is a state of the loop that EventLoopProofs is about.
LEMMA SameType == EL!TypeOK <=> Proved!TypeOK
BY DEF EL!TypeOK, Proved!TypeOK, EL!LoopPC, Proved!LoopPC

\* Each step of the thread, of the owner and of a caller is a step of the loop or leaves it alone.
LEMMA StepMaps == [Next]_vars => [EL!Next]_loopVars
<1> SUFFICES ASSUME [Next]_vars PROVE [EL!Next]_loopVars
  OBVIOUS
<1>1. CASE UNCHANGED loopVars
  BY <1>1
<1>2. CASE ThreadEntersLoop \/ ThreadIterates \/ ThreadLeavesLoop \/ ThreadPolls
  BY <1>2 DEF ThreadEntersLoop, ThreadIterates, ThreadLeavesLoop, ThreadPolls, EL!Next, EL!LoopStep
<1>3. CASE ThreadQuits \/ ThreadQueues
  BY <1>3 DEF ThreadQuits, ThreadQueues, EL!Next, EL!LoopCall
<1>4. CASE DestructorQuits
  BY <1>4, OwnerAssumption DEF DestructorQuits, EL!Next, EL!CallerCall
<1>5. ASSUME NEW t \in Callers, CallerQueues(t) \/ CallerQuits(t) \/ CallerFinishes(t)
      PROVE  [EL!Next]_loopVars
  BY <1>5 DEF CallerQueues, CallerQuits, CallerFinishes, EL!Next, EL!CallerCall
<1> QED
  BY <1>1, <1>2, <1>3, <1>4, <1>5
  DEF Next, ThreadStep, OwnerStep, Publish, ThreadEnds, StartLoop, StartLoopReturns, DestructorTests,
      DestructorJoins, vars

\* The same of its steps.
LEMMA SameNext == EL!Next => Proved!Next
BY Zenon
  DEF EL!LoopEnter, Proved!LoopEnter, EL!LoopReset, Proved!LoopReset, EL!WhileTest,
      Proved!WhileTest, EL!LoopExit, Proved!LoopExit, EL!PollReady, Proved!PollReady,
      EL!PollTimeout, Proved!PollTimeout, EL!HandleRead, Proved!HandleRead, EL!HandleEvent,
      Proved!HandleEvent, EL!StartPendingFunctors, Proved!StartPendingFunctors, EL!RunFunctor,
      Proved!RunFunctor, EL!CallbackReturn, Proved!CallbackReturn, EL!FunctorsDone,
      Proved!FunctorsDone, EL!LoopQuit, Proved!LoopQuit, EL!LoopQueueInLoop,
      Proved!LoopQueueInLoop, EL!LoopRunInLoop, Proved!LoopRunInLoop, EL!Wakeup, Proved!Wakeup,
      EL!QuitSet, Proved!QuitSet, EL!QuitReset, Proved!QuitReset, EL!QuitTest, Proved!QuitTest,
      EL!QueueInLoop, Proved!QueueInLoop, EL!Next, Proved!Next, EL!LoopStep, Proved!LoopStep,
      EL!LoopCall, Proved!LoopCall, EL!CallerStep, Proved!CallerStep, EL!CallerCall,
      Proved!CallerCall, EL!UserCode, Proved!UserCode, EL!Fresh, Proved!Fresh, EL!NeedsWakeup,
      Proved!NeedsWakeup, EL!flagVars, Proved!flagVars, EL!queueVars, Proved!queueVars, EL!Range, Proved!Range

\* The loop on the thread's stack is an EventLoop, whoever calls it and whenever it is destroyed.
THEOREM LoopIsEventLoop == Spec => EL!Spec
<1>1. Init => EL!Init
  BY DEF Init
<1>2. [Next]_vars => [EL!Next]_(EL!vars)
  BY StepMaps DEF loopVars, EL!vars
<1> QED BY <1>1, <1>2, PTL DEF Spec, EL!Spec

\* So it never sleeps on a functor that it was woken for, or on quit_.
THEOREM ThreadLosesNoWakeup == Spec => []EL!NoLostWakeup
<1>1. EL!Init => Proved!Init
  BY DEF EL!Init, Proved!Init
<1>2. [EL!Next]_(EL!vars) => [Proved!Next]_(Proved!vars)
  BY SameNext DEF EL!vars, Proved!vars
<1>3. Proved!NoLostWakeup => EL!NoLostWakeup
  BY DEF EL!Range, Proved!Range, EL!NoLostWakeup, Proved!NoLostWakeup, EL!WakeupUnderWay, Proved!WakeupUnderWay
<1> QED BY LoopIsEventLoop, Proved!NoWakeupLost, <1>1, <1>2, <1>3, PTL DEF EL!Spec, Proved!Spec

----
(* Types *)

\* The thread and its owner agree: loop_ is set while threadFunc() is between its two critical sections,
\* loop() runs in between only, and the owner has called startLoop() exactly when the thread runs.
ThreadType ==
  /\ loop_ \in BOOLEAN /\ quitters \in BOOLEAN
  /\ tpc \in {"unstarted", "callback", "loop", "reset", "ended"}
  /\ opc \in {"idle", "waiting", "holds", "test", "quit", "join", "gone", "crashed"}
  /\ loop_ <=> tpc \in {"loop", "reset"}
  /\ lpc # "outside" => tpc = "loop"
  /\ opc = "idle" <=> tpc = "unstarted"

\* What a step of the loop, one that neither enters nor leaves loop(), does to lpc.
LEMMA StaysOutside ==
  ASSUME EL!LoopStep \/ EL!PollTimeout \/ (\E io \in BOOLEAN : EL!PollReady(io))
  PROVE  lpc # "outside"
BY DEF EL!LoopStep, EL!LoopReset, EL!WhileTest, EL!LoopExit, EL!HandleRead, EL!HandleEvent,
       EL!StartPendingFunctors, EL!RunFunctor, EL!CallbackReturn, EL!FunctorsDone, EL!PollTimeout,
       EL!PollReady

\* Calls, of the loop's thread or of others, leave the loop where it is.
LEMMA CallsKeepPlace ==
  ASSUME \/ EL!LoopQuit
         \/ \E f \in Tasks : EL!LoopQueueInLoop(f) \/ EL!LoopRunInLoop(f)
         \/ \E t \in Callers : EL!QuitTest(t) \/ EL!CallerStep(t) \/ \E f \in Tasks : EL!QueueInLoop(t, f)
  PROVE  lpc' = lpc
BY DEF EL!LoopQuit, EL!LoopQueueInLoop, EL!LoopRunInLoop, EL!QuitTest, EL!CallerStep, EL!Wakeup,
       EL!QuitSet, EL!QuitReset, EL!QueueInLoop

\* The thread's own variables keep their types and their agreement with the loop.
LEMMA ThreadTypeStep == ThreadType /\ [Next]_vars => ThreadType'
<1> SUFFICES ASSUME ThreadType, [Next]_vars PROVE ThreadType'
  OBVIOUS
<1> USE DEF ThreadType
<1>1. CASE Publish
  BY <1>1 DEF Publish, loopVars
<1>2. CASE ThreadEntersLoop
  BY <1>2 DEF ThreadEntersLoop, threadVars
<1>3. CASE ThreadIterates
  BY <1>3, StaysOutside DEF ThreadIterates, threadVars
<1>4. CASE ThreadLeavesLoop
  BY <1>4 DEF ThreadLeavesLoop, EL!LoopExit
<1>5. CASE ThreadEnds
  BY <1>5 DEF ThreadEnds, loopVars
<1>6. CASE ThreadPolls
  BY <1>6, StaysOutside DEF ThreadPolls, threadVars
<1>7. CASE ThreadQuits
  BY <1>7, CallsKeepPlace DEF ThreadQuits
<1>8. CASE ThreadQueues
  BY <1>8, CallsKeepPlace DEF ThreadQueues, threadVars
<1>9. CASE StartLoop
  BY <1>9 DEF StartLoop, loopVars
<1>10. CASE StartLoopReturns
  BY <1>10 DEF StartLoopReturns, loopVars
<1>11. CASE DestructorTests
  BY <1>11 DEF DestructorTests, loopVars
<1>12. CASE DestructorQuits
  BY <1>12, OwnerAssumption, CallsKeepPlace DEF DestructorQuits, loopVars
<1>13. CASE DestructorJoins
  BY <1>13 DEF DestructorJoins, loopVars
<1>14. ASSUME NEW t \in Callers, CallerQueues(t) \/ CallerQuits(t) \/ CallerFinishes(t)
       PROVE  ThreadType'
  <2>1. lpc' = lpc
    BY <1>14, CallsKeepPlace DEF CallerQueues, CallerQuits, CallerFinishes
  <2>2. UNCHANGED <<loop_, tpc, opc>> /\ quitters' \in BOOLEAN
    BY <1>14 DEF CallerQueues, CallerQuits, CallerFinishes, threadVars
  <2> QED BY <2>1, <2>2
<1>15. CASE UNCHANGED vars
  BY <1>15 DEF vars, loopVars, threadVars
<1> QED
  BY <1>1, <1>2, <1>3, <1>4, <1>5, <1>6, <1>7, <1>8, <1>9, <1>10, <1>11, <1>12, <1>13, <1>14, <1>15
  DEF Next, ThreadStep, OwnerStep

\* The type invariant of the loop and of the thread that runs it (TypeOK).
THEOREM ThreadTypeCorrect == Spec => []TypeOK
<1>1. Init => ThreadType
  BY DEF Init, ThreadType, EL!Init
<1>2. EL!Init => Proved!Init
  BY DEF EL!Init, Proved!Init
<1>3. [EL!Next]_(EL!vars) => [Proved!Next]_(Proved!vars)
  BY SameNext DEF EL!vars, Proved!vars
<1>4. ThreadType /\ Proved!TypeOK => TypeOK
  BY SameType DEF ThreadType, TypeOK
<1> QED
  BY LoopIsEventLoop, Proved!TypeCorrect, ThreadTypeStep, <1>1, <1>2, <1>3, <1>4, PTL
  DEF Spec, EL!Spec, Proved!Spec

----
(***************************************************************************)
(* The destructor.  DestructorFindsLoop speaks of what the owner sees;     *)
(* what makes it inductive is that nobody but the destructor's own quit()  *)
(* is on its way to quit_, and that the flag is not set, so that loop()    *)
(* does not end, before that has stored it.                                *)
(***************************************************************************)

Storing(t) == pc[t] \in {"quitSet", "quitReset"}

NobodyQuits ==
  ~quitters =>
    /\ \A t \in Callers : Storing(t) => t = Owner /\ opc = "join"
    /\ opc \notin {"join", "gone"} \/ Storing(Owner) =>
         ~quit /\ lpc # "exiting" /\ tpc \notin {"reset", "ended"}
    /\ opc # "crashed"
    /\ opc \in {"holds", "test", "quit", "join"} => tpc \in {"loop", "reset", "ended"}
    /\ opc = "gone" => tpc = "ended"

\* A step of the loop that is not a store to quit_ leaves quit_ as it was or false.
LEMMA QuitUntouched ==
  ASSUME \/ EL!LoopStep \/ EL!PollTimeout \/ (\E io \in BOOLEAN : EL!PollReady(io))
         \/ EL!LoopEnter
         \/ \E f \in Tasks : EL!LoopQueueInLoop(f) \/ EL!LoopRunInLoop(f)
  PROVE  /\ ~quit => ~quit'
         /\ pc' = pc
         /\ ~quit /\ lpc # "exiting" => lpc' # "exiting"
BY DEF EL!LoopStep, EL!LoopReset, EL!WhileTest, EL!LoopExit, EL!HandleRead, EL!HandleEvent,
       EL!StartPendingFunctors, EL!RunFunctor, EL!CallbackReturn, EL!FunctorsDone, EL!PollTimeout,
       EL!PollReady, EL!LoopEnter, EL!LoopQueueInLoop, EL!LoopRunInLoop, EL!flagVars

\* NobodyQuits is inductive.
LEMMA NobodyQuitsStep == EL!TypeOK /\ ThreadType /\ NobodyQuits /\ [Next]_vars => NobodyQuits'
<1> SUFFICES ASSUME EL!TypeOK, ThreadType, NobodyQuits, [Next]_vars, ~quitters'
             PROVE NobodyQuits'
  BY DEF NobodyQuits
<1>Q. ~quitters
  BY DEF Next, ThreadStep, OwnerStep, Publish, ThreadEntersLoop, ThreadIterates, ThreadLeavesLoop, ThreadEnds,
     ThreadPolls, ThreadQuits, ThreadQueues, StartLoop, StartLoopReturns, DestructorTests, DestructorQuits,
     DestructorJoins, CallerQueues, CallerQuits, CallerFinishes, threadVars, vars
<1>T. Owner \in Callers /\ pc \in [Callers -> {"idle", "wake", "quitSet", "quitReset"}]
  BY OwnerAssumption DEF EL!TypeOK
<1> USE DEF NobodyQuits, ThreadType, Storing
<1>1. CASE Publish
  BY <1>1, <1>Q DEF Publish, loopVars
<1>2. CASE ThreadEntersLoop
  BY <1>2, <1>Q, QuitUntouched DEF ThreadEntersLoop, threadVars
<1>3. CASE ThreadIterates
  BY <1>3, <1>Q, QuitUntouched DEF ThreadIterates, threadVars
<1>4. CASE ThreadLeavesLoop
  BY <1>4, <1>Q, <1>T DEF ThreadLeavesLoop, EL!LoopExit
<1>5. CASE ThreadEnds
  BY <1>5, <1>Q DEF ThreadEnds, loopVars
<1>6. CASE ThreadPolls
  BY <1>6, <1>Q, QuitUntouched DEF ThreadPolls, threadVars
<1>7. CASE ThreadQuits
  BY <1>7 DEF ThreadQuits
<1>8. CASE ThreadQueues
  BY <1>8, <1>Q, QuitUntouched DEF ThreadQueues, threadVars
<1>9. CASE StartLoop
  BY <1>9, <1>Q DEF StartLoop, loopVars
<1>10. CASE StartLoopReturns
  BY <1>10, <1>Q DEF StartLoopReturns, loopVars
<1>11. CASE DestructorTests
  BY <1>11, <1>Q DEF DestructorTests, loopVars
<1>12. CASE DestructorQuits
  <2>1. loop_ /\ EL!QuitTest(Owner) /\ opc' = "join" /\ UNCHANGED <<loop_, tpc, quitters>>
    BY <1>12, <1>Q DEF DestructorQuits
  <2>2. UNCHANGED <<quit, lpc>> /\ \A t \in Callers : t # Owner => pc'[t] = pc[t]
    BY <2>1, <1>T DEF EL!QuitTest, EL!flagVars
  <2> QED BY <1>12, <1>Q, <1>T, <2>1, <2>2 DEF DestructorQuits
<1>13. CASE DestructorJoins
  BY <1>13, <1>Q, <1>T DEF DestructorJoins, loopVars
<1>14. ASSUME NEW t \in Callers, CallerQueues(t) PROVE NobodyQuits'
  <2>1. UNCHANGED <<quit, lpc, threadVars>> /\ \A u \in Callers : Storing(u)' => Storing(u)
    BY <1>14, <1>T DEF CallerQueues, EL!QueueInLoop, EL!flagVars
  <2> QED BY <2>1, <1>Q, <1>T DEF threadVars
<1>15. ASSUME NEW t \in Callers, CallerQuits(t) PROVE NobodyQuits'
  BY <1>15 DEF CallerQuits
<1>16. ASSUME NEW t \in Callers, CallerFinishes(t) PROVE NobodyQuits'
  <2>1. CASE EL!Wakeup(t) \/ EL!QuitReset(t)
    <3>1. UNCHANGED <<lpc, threadVars>> /\ (~quit => ~quit') /\ \A u \in Callers : Storing(u)' => Storing(u)
      BY <1>16, <2>1, <1>T DEF CallerFinishes, EL!Wakeup, EL!QuitReset, EL!flagVars
    <3> QED BY <3>1, <1>Q, <1>T DEF threadVars
  <2>2. CASE EL!QuitSet(t)
    <3>1. Storing(t) /\ t = Owner /\ opc = "join"
      BY <2>2, <1>Q DEF EL!QuitSet
    <3>2. UNCHANGED <<lpc, threadVars>> /\ \A u \in Callers : ~Storing(u)'
      BY <1>16, <2>2, <3>1, <1>Q, <1>T DEF CallerFinishes, EL!QuitSet
    <3> QED BY <3>1, <3>2, <1>Q, <1>T DEF threadVars
  <2> QED BY <1>16, <2>1, <2>2 DEF CallerFinishes, EL!CallerStep
<1>17. CASE UNCHANGED vars
  BY <1>17, <1>Q DEF vars, loopVars, threadVars
<1> QED
  BY <1>1, <1>2, <1>3, <1>4, <1>5, <1>6, <1>7, <1>8, <1>9, <1>10, <1>11, <1>12, <1>13, <1>14, <1>15, <1>16, <1>17
  DEF Next, ThreadStep, OwnerStep

\* Unless somebody else made the loop quit, ~EventLoopThread() finds loop_ set at both of its reads, and
\* the flags of a loop that exists, and leaves no thread behind (DestructorFindsLoop).
THEOREM DestructorSafe == Spec => []DestructorFindsLoop
<1>1. Init => NobodyQuits
  BY OwnerAssumption DEF Init, EL!Init, NobodyQuits, Storing
<1>2. Init => ThreadType
  BY DEF Init, ThreadType, EL!Init
<1>3. TypeOK => EL!TypeOK
  BY DEF TypeOK
<1>4. ThreadType /\ NobodyQuits => DestructorFindsLoop
  BY OwnerAssumption DEF ThreadType, NobodyQuits, Storing, DestructorFindsLoop, Alive
<1> QED BY ThreadTypeCorrect, ThreadTypeStep, NobodyQuitsStep, <1>1, <1>2, <1>3, <1>4, PTL DEF Spec
====
