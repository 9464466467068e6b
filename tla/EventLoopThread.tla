---- MODULE EventLoopThread ----
(***************************************************************************)
(* EventLoopThread.cc over EventLoop: the owner starts a thread that runs  *)
(* an EventLoop on its stack, waits for its address, shares it with other  *)
(* threads, and at last destroys the EventLoopThread, which asks the loop  *)
(* to quit and joins the thread.  Anybody else may make the loop quit too: *)
(* a functor, another thread, the owner before it calls the destructor.    *)
(***************************************************************************)
EXTENDS Sequences, Functions

CONSTANTS Callers, Tasks, Owner

ASSUME OwnerAssumption == Owner \in Callers

VARIABLES
  looping, quit, callingPendingFunctors, pendingFunctors, functors,
  wakeupFd, active, lpc, pc, ran, unwoken,  \* EventLoop's
  loop_,   \* it is not null
  tpc,     \* where the thread is in threadFunc()
  opc,     \* where the owner is in startLoop() and in the destructor
  quitters \* history: somebody other than the destructor called quit()

loopVars == <<looping, quit, callingPendingFunctors, pendingFunctors, functors,
              wakeupFd, active, lpc, pc, ran, unwoken>>
threadVars == <<loop_, tpc, opc, quitters>>
vars == <<loopVars, threadVars>>

EL == INSTANCE EventLoop

\* The EventLoop on the thread's stack exists.
Alive == tpc \in {"callback", "loop", "reset"}

TypeOK ==
  /\ EL!TypeOK
  /\ loop_ \in BOOLEAN /\ quitters \in BOOLEAN
  /\ tpc \in {"unstarted", "callback", "loop", "reset", "ended"}
  /\ opc \in {"idle", "waiting", "holds", "test", "quit", "join", "gone", "crashed"}
  /\ loop_ <=> tpc \in {"loop", "reset"}
  /\ lpc # "outside" => tpc = "loop"
  /\ opc = "idle" <=> tpc = "unstarted"

Init ==
  /\ EL!Init
  /\ loop_ = FALSE
  /\ tpc = "unstarted"
  /\ opc = "idle"
  /\ quitters = FALSE

----
(* threadFunc() *)

PublishLate ==  \* a mutant: sets loop_ and forgets to notify a waiter
  /\ tpc = "callback"
  /\ loop_' = (opc # "waiting")
  /\ tpc' = "loop"
  /\ UNCHANGED <<loopVars, opc, quitters>>

\* callback_ has returned: loop_ is set under the mutex, and the waiter notified.
Publish ==
  /\ tpc = "callback"
  /\ loop_' = TRUE
  /\ tpc' = "loop"
  /\ UNCHANGED <<loopVars, opc, quitters>>

\* loop() is called, once.
ThreadEntersLoop ==
  /\ tpc = "loop"
  /\ EL!LoopEnter
  /\ UNCHANGED threadVars

ThreadLeavesLoop ==
  /\ EL!LoopExit
  /\ tpc' = "reset"
  /\ UNCHANGED <<loop_, opc, quitters>>

ThreadEndsKeepsLoop ==  \* a mutant: leaves loop_ to dangle
  /\ tpc = "reset"
  /\ tpc' = "ended"
  /\ UNCHANGED <<loopVars, loop_, opc, quitters>>

\* loop_ is cleared under the mutex; the EventLoop goes with the thread's stack.
ThreadEnds ==
  /\ tpc = "reset"
  /\ loop_' = FALSE
  /\ tpc' = "ended"
  /\ UNCHANGED <<loopVars, opc, quitters>>

\* User code in the thread: callback_, channel callbacks, functors.
ThreadQuits ==
  /\ Alive /\ tpc # "reset"
  /\ EL!LoopQuit
  /\ quitters' = TRUE
  /\ UNCHANGED <<loop_, tpc, opc>>

ThreadQueues ==
  /\ tpc \in {"callback", "loop"}
  /\ \E f \in Tasks : EL!LoopQueueInLoop(f) \/ EL!LoopRunInLoop(f)
  /\ UNCHANGED threadVars

\* The rest of an iteration of loop().
ThreadIterates ==
  /\ EL!LoopStep /\ lpc # "exiting"
  /\ UNCHANGED threadVars

ThreadPolls ==
  /\ EL!PollTimeout \/ \E io \in BOOLEAN : EL!PollReady(io)
  /\ UNCHANGED threadVars

----
(* The owner *)

\* startLoop(): the thread starts, and constructs its EventLoop.
StartLoop ==
  /\ opc = "idle"
  /\ opc' = "waiting"
  /\ tpc' = "callback"
  /\ UNCHANGED <<loopVars, loop_, quitters>>

\* The wait ends when the waiter finds loop_ set with the mutex in its hands.
StartLoopReturns ==
  /\ opc = "waiting"
  /\ loop_
  /\ opc' = "holds"
  /\ UNCHANGED <<loopVars, loop_, tpc, quitters>>

\* ~EventLoopThread() reads loop_ without the mutex ...
DestructorTests ==
  /\ opc = "holds" /\ pc[Owner] = "idle"
  /\ opc' = IF loop_ THEN "quit" ELSE "gone"
  /\ UNCHANGED <<loopVars, loop_, tpc, quitters>>

\* ... and once more, to call quit() through it ...
DestructorQuits ==
  /\ opc = "quit"
  /\ IF loop_
       THEN /\ EL!QuitTest(Owner)
            /\ opc' = "join"
       ELSE /\ opc' = "crashed"
            /\ UNCHANGED loopVars
  /\ UNCHANGED <<loop_, tpc, quitters>>

DestructorDoesNotJoin ==  \* a mutant: leaves the thread behind
  /\ opc = "join" /\ pc[Owner] = "idle"
  /\ opc' = "gone"
  /\ UNCHANGED <<loopVars, loop_, tpc, quitters>>

\* ... and when that has returned joins the thread.
DestructorJoins ==
  /\ opc = "join" /\ pc[Owner] = "idle"
  /\ tpc = "ended"
  /\ opc' = "gone"
  /\ UNCHANGED <<loopVars, loop_, tpc, quitters>>

----
(* Threads that have the loop's address, the owner while it holds it among them. *)

MayCall(t) == Alive /\ (t = Owner => opc = "holds")

CallerQueues(t) ==
  /\ MayCall(t)
  /\ \E f \in Tasks : EL!QueueInLoop(t, f)
  /\ UNCHANGED threadVars

CallerQuits(t) ==
  /\ MayCall(t)
  /\ EL!QuitTest(t)
  /\ quitters' = TRUE
  /\ UNCHANGED <<loop_, tpc, opc>>

CallerFinishes(t) ==
  /\ EL!CallerStep(t)
  /\ UNCHANGED threadVars

----

ThreadStep == Publish \/ ThreadEntersLoop \/ ThreadIterates \/ ThreadLeavesLoop \/ ThreadEnds

OwnerStep == StartLoopReturns \/ DestructorQuits \/ DestructorJoins

Next ==
  \/ ThreadStep \/ ThreadPolls \/ ThreadQuits \/ ThreadQueues
  \/ StartLoop \/ OwnerStep \/ DestructorTests
  \/ \E t \in Callers : CallerQueues(t) \/ CallerQuits(t) \/ CallerFinishes(t)

\* Threads that can run do; epoll_wait returns once the eventfd is readable.  As in EventLoop, nothing
\* else is counted on, and nobody has to start, quit or destroy anything.
Spec == Init /\ [][Next]_vars

FairSpec ==
  /\ Spec
  /\ WF_vars(ThreadStep)
  /\ WF_vars(wakeupFd /\ ThreadPolls)
  /\ WF_vars(OwnerStep)
  /\ \A t \in Callers : WF_vars(CallerFinishes(t))

----
(* Properties *)

\* When nobody else makes the loop quit, the destructor finds it: loop_ does not become null between
\* its two reads ("Not 100% race-free", EventLoopThread.cc:29), quit() reads and writes the flags of a
\* loop that exists, and only its wakeup() can come after the loop's end (EventLoop.cc:130-132).
DestructorFindsLoop ==
  ~quitters =>
    /\ opc # "crashed"
    /\ opc \in {"holds", "test", "quit"} => loop_
    /\ pc[Owner] \in {"quitSet", "quitReset"} => Alive
    /\ opc = "gone" => tpc = "ended"

\* The destructor that called quit() is heard if the loop was past its own reset of quit_ and no other
\* quit(), one that found the loop not running, is about to take the flag back (EventLoop.cc:97, 124).
Heard ==
  /\ opc = "join" /\ quit
  /\ lpc \notin {"outside", "entered"}
  /\ \A t \in Callers : pc[t] # "quitReset"

\* The quit() that the destructor has called is lost: it found looping_ false, or was undone at loop()'s
\* start or by such a quit().
Forgotten == opc = "join" /\ pc[Owner] = "idle" /\ ~quit /\ tpc # "ended"

\* startLoop() returns, unless somebody made the loop quit: it may have run and ended before the waiter
\* saw it (EventLoopThread.cc:46).  The destructor's join (35) ends if the loop heard it, and unless its
\* quit() was forgotten.
WaitsEnd ==
  /\ opc = "waiting" ~> (opc = "holds" \/ quitters)
  /\ opc = "join" ~> (opc = "gone" \/ Forgotten)
  /\ Heard ~> opc = "gone"
====
