---- MODULE EventLoop ----
(***************************************************************************)
(* EventLoop.cc: the thread that runs loop(), and the threads that hand it *)
(* functors (queueInLoop, runInLoop) or ask it to stop (quit).             *)
(*                                                                         *)
(* Every access to a member that two threads share is a step of its own:   *)
(* looping_ and quit_, pendingFunctors_ (under mutex_) and the eventfd.    *)
(* A functor is a task: one call of queueInLoop.  The channels are the     *)
(* wakeup channel and one other, "io", whose callbacks are user code.      *)
(***************************************************************************)
EXTENDS Sequences, Functions

CONSTANTS
  Callers,  \* threads other than the loop's
  Tasks     \* functors

VARIABLES
  looping,          \* looping_
  quit,             \* quit_
  callingPendingFunctors,
  pendingFunctors,  \* guarded by mutex_
  functors,         \* doPendingFunctors' local vector, what is left of it
  wakeupFd,         \* the eventfd's counter is not zero: it polls readable
  active,           \* activeChannels_, what is left to handle
  lpc,              \* where the loop thread is
  pc,               \* where each caller is
  ran,              \* tasks the loop thread has called
  unwoken           \* history: queued by the loop thread while outside loop(), so without wakeup()

vars == <<looping, quit, callingPendingFunctors, pendingFunctors, functors,
          wakeupFd, active, lpc, pc, ran, unwoken>>

flagVars == <<looping, quit>>
queueVars == <<callingPendingFunctors, pendingFunctors, functors, unwoken>>

LoopPC == {"outside", "entered", "while", "exiting", "poll", "events", "io", "functors", "task"}

\* Where the loop thread runs user code: before or after loop(), in a channel's callback, in a functor.
UserCode == {"outside", "io", "task"}

TypeOK ==
  /\ looping \in BOOLEAN
  /\ quit \in BOOLEAN
  /\ callingPendingFunctors \in BOOLEAN
  /\ pendingFunctors \in Seq(Tasks)
  /\ functors \in Seq(Tasks)
  /\ wakeupFd \in BOOLEAN
  /\ active \subseteq {"wakeup", "io"}
  /\ lpc \in LoopPC
  /\ pc \in [Callers -> {"idle", "wake", "quitSet", "quitReset"}]
  /\ ran \subseteq Tasks
  /\ unwoken \subseteq Tasks
  /\ looping <=> lpc # "outside"
  /\ callingPendingFunctors <=> lpc \in {"functors", "task"}
  /\ lpc \notin {"functors", "task"} => functors = <<>>

Init ==
  /\ looping = FALSE
  /\ quit = FALSE
  /\ callingPendingFunctors = FALSE
  /\ pendingFunctors = <<>>
  /\ functors = <<>>
  /\ wakeupFd = FALSE
  /\ active = {}
  /\ lpc = "outside"
  /\ pc = [t \in Callers |-> "idle"]
  /\ ran = {}
  /\ unwoken = {}

----
(* loop() *)

LoopEnter ==
  /\ lpc = "outside"
  /\ looping' = TRUE
  /\ lpc' = "entered"
  /\ UNCHANGED <<quit, queueVars, wakeupFd, active, pc, ran>>

LoopReset ==
  /\ lpc = "entered"
  /\ quit' = FALSE
  /\ lpc' = "while"
  /\ UNCHANGED <<looping, queueVars, wakeupFd, active, pc, ran>>

WhileTest ==
  /\ lpc = "while"
  /\ lpc' = IF quit THEN "exiting" ELSE "poll"
  /\ UNCHANGED <<flagVars, queueVars, wakeupFd, active, pc, ran>>

LoopExit ==
  /\ lpc = "exiting"
  /\ looping' = FALSE
  /\ lpc' = "outside"
  /\ UNCHANGED <<quit, queueVars, wakeupFd, active, pc, ran>>

\* epoll_wait is level triggered: the wakeup channel is active exactly when the eventfd is readable.
PollReady(io) ==
  /\ lpc = "poll"
  /\ wakeupFd \/ io
  /\ active' = {c \in {"wakeup", "io"} : IF c = "io" THEN io ELSE wakeupFd}
  /\ lpc' = "events"
  /\ UNCHANGED <<flagVars, queueVars, wakeupFd, pc, ran>>

\* kPollTimeMs passed, or a signal interrupted epoll_wait.
PollTimeout ==
  /\ lpc = "poll"
  /\ ~wakeupFd
  /\ lpc' = "events"
  /\ UNCHANGED <<flagVars, queueVars, wakeupFd, active, pc, ran>>

\* The wakeup channel's read callback: handleRead() reads the eventfd, which resets it.
HandleRead ==
  /\ lpc = "events"
  /\ "wakeup" \in active
  /\ wakeupFd' = FALSE
  /\ active' = active \ {"wakeup"}
  /\ UNCHANGED <<flagVars, queueVars, lpc, pc, ran>>

\* Another channel's handleEvent enters a user callback.
HandleEvent ==
  /\ lpc = "events"
  /\ "io" \in active
  /\ active' = active \ {"io"}
  /\ lpc' = "io"
  /\ UNCHANGED <<flagVars, queueVars, wakeupFd, pc, ran>>

StartPendingFunctorsNoSwap ==  \* a mutant: copies the vector
  /\ lpc = "events"
  /\ active = {}
  /\ callingPendingFunctors' = TRUE
  /\ functors' = pendingFunctors
  /\ lpc' = "functors"
  /\ UNCHANGED <<flagVars, pendingFunctors, unwoken, wakeupFd, active, pc, ran>>

\* doPendingFunctors(), up to the end of its critical section.
StartPendingFunctors ==
  /\ lpc = "events"
  /\ active = {}
  /\ callingPendingFunctors' = TRUE
  /\ functors' = pendingFunctors
  /\ pendingFunctors' = <<>>
  /\ unwoken' = {}
  /\ lpc' = "functors"
  /\ UNCHANGED <<flagVars, wakeupFd, active, pc, ran>>

RunFunctor ==
  /\ lpc = "functors"
  /\ functors # <<>>
  /\ ran' = ran \cup {Head(functors)}
  /\ functors' = Tail(functors)
  /\ lpc' = "task"
  /\ UNCHANGED <<flagVars, callingPendingFunctors, pendingFunctors, unwoken, wakeupFd, active, pc>>

CallbackReturn ==
  /\ \/ lpc = "io" /\ lpc' = "events"
     \/ lpc = "task" /\ lpc' = "functors"
  /\ UNCHANGED <<flagVars, queueVars, wakeupFd, active, pc, ran>>

FunctorsDoneOnQuit ==  \* a mutant: stops running functors once quit_ is set
  /\ lpc = "functors"
  /\ functors = <<>> \/ quit
  /\ callingPendingFunctors' = FALSE
  /\ lpc' = "while"
  /\ UNCHANGED <<flagVars, pendingFunctors, functors, unwoken, wakeupFd, active, pc, ran>>

FunctorsDone ==
  /\ lpc = "functors"
  /\ functors = <<>>
  /\ callingPendingFunctors' = FALSE
  /\ lpc' = "while"
  /\ UNCHANGED <<flagVars, pendingFunctors, functors, unwoken, wakeupFd, active, pc, ran>>

----
(* Calls of the loop thread, from user code. *)

\* A functor nobody has handed over yet.
Fresh(f) == f \notin ran \cup Range(functors) \cup Range(pendingFunctors)

NeedsWakeupNever == FALSE  \* a mutant: only other threads wake the loop

\* queueInLoop's condition, when the loop thread evaluates it.
NeedsWakeup == callingPendingFunctors

LoopQueueInLoop(f) ==
  /\ lpc \in UserCode
  /\ Fresh(f)
  /\ pendingFunctors' = Append(pendingFunctors, f)
  /\ wakeupFd' = (wakeupFd \/ NeedsWakeup)
  /\ unwoken' = IF lpc = "outside" THEN unwoken \cup {f} ELSE unwoken
  /\ UNCHANGED <<flagVars, callingPendingFunctors, functors, active, lpc, pc, ran>>

LoopRunInLoop(f) ==
  /\ lpc \in UserCode
  /\ Fresh(f)
  /\ ran' = ran \cup {f}
  /\ UNCHANGED <<flagVars, queueVars, wakeupFd, active, lpc, pc>>

LoopQuit ==
  /\ lpc \in UserCode
  /\ quit' = looping
  /\ UNCHANGED <<looping, queueVars, wakeupFd, active, lpc, pc, ran>>

----
(* Calls of the other threads. *)

QueueInLoopSilently(t, f) ==  \* a mutant: no wakeup() after the push
  /\ pc[t] = "idle"
  /\ Fresh(f)
  /\ pendingFunctors' = Append(pendingFunctors, f)
  /\ UNCHANGED <<flagVars, callingPendingFunctors, functors, unwoken, wakeupFd, active, lpc, pc, ran>>

\* queueInLoop's critical section; runInLoop of another thread is the same.
QueueInLoop(t, f) ==
  /\ pc[t] = "idle"
  /\ Fresh(f)
  /\ pendingFunctors' = Append(pendingFunctors, f)
  /\ pc' = [pc EXCEPT ![t] = "wake"]
  /\ UNCHANGED <<flagVars, callingPendingFunctors, functors, unwoken, wakeupFd, active, lpc, ran>>

Wakeup(t) ==
  /\ pc[t] = "wake"
  /\ wakeupFd' = TRUE
  /\ pc' = [pc EXCEPT ![t] = "idle"]
  /\ UNCHANGED <<flagVars, queueVars, active, lpc, ran>>

\* quit() reads looping_ ...
QuitTest(t) ==
  /\ pc[t] = "idle"
  /\ pc' = [pc EXCEPT ![t] = IF looping THEN "quitSet" ELSE "quitReset"]
  /\ UNCHANGED <<flagVars, queueVars, wakeupFd, active, lpc, ran>>

QuitSetSilently(t) ==  \* a mutant: no wakeup() after quit_ = true
  /\ pc[t] = "quitSet"
  /\ quit' = TRUE
  /\ pc' = [pc EXCEPT ![t] = "idle"]
  /\ UNCHANGED <<looping, queueVars, wakeupFd, active, lpc, ran>>

\* ... then stores quit_: true, and wakes the loop up ...
QuitSet(t) ==
  /\ pc[t] = "quitSet"
  /\ quit' = TRUE
  /\ pc' = [pc EXCEPT ![t] = "wake"]
  /\ UNCHANGED <<looping, queueVars, wakeupFd, active, lpc, ran>>

\* ... or false, with a warning, when it read that loop() was not running.
QuitReset(t) ==
  /\ pc[t] = "quitReset"
  /\ quit' = FALSE
  /\ pc' = [pc EXCEPT ![t] = "idle"]
  /\ UNCHANGED <<looping, queueVars, wakeupFd, active, lpc, ran>>

----

LoopStep ==
  \/ LoopReset \/ WhileTest \/ LoopExit
  \/ HandleRead \/ HandleEvent
  \/ StartPendingFunctors \/ RunFunctor \/ CallbackReturn \/ FunctorsDone

LoopCall == LoopQuit \/ \E f \in Tasks : LoopQueueInLoop(f) \/ LoopRunInLoop(f)

\* The rest of a call that a caller has begun.
CallerStep(t) == Wakeup(t) \/ QuitSet(t) \/ QuitReset(t)

CallerCall(t) == QuitTest(t) \/ \E f \in Tasks : QueueInLoop(t, f)

Next ==
  \/ LoopEnter
  \/ LoopStep
  \/ LoopCall
  \/ PollTimeout
  \/ \E io \in BOOLEAN : PollReady(io)
  \/ \E t \in Callers : CallerStep(t) \/ CallerCall(t)

Spec == Init /\ [][Next]_vars

(***************************************************************************)
(* A thread that runs takes its next step: user callbacks return, and a    *)
(* call once begun finishes.  epoll_wait returns when the eventfd is       *)
(* readable; nothing obliges other descriptors to become ready, and the    *)
(* ten seconds of kPollTimeMs are not counted on, because a wakeup that    *)
(* only the timeout makes good is a wakeup lost.                           *)
(***************************************************************************)
FairSpec ==
  /\ Spec
  /\ WF_vars(LoopStep)
  /\ WF_vars(wakeupFd /\ \E io \in BOOLEAN : PollReady(io))
  /\ \A t \in Callers : WF_vars(CallerStep(t))

----
(* Properties *)

WakeupUnderWay == wakeupFd \/ \E t \in Callers : pc[t] = "wake"

\* The loop never sleeps in epoll_wait on work it was told about: when it is in poll with a functor
\* pending (unless the loop thread queued it before loop(), EventLoop.cc:150) or with quit_ set, the
\* eventfd is readable or a caller is about to write it.
NoLostWakeup ==
  lpc = "poll" =>
    /\ Range(pendingFunctors) \ unwoken # {} => WakeupUnderWay
    /\ quit => WakeupUnderWay

\* A functor queued with a wakeup is called, unless loop() returns first (queueInLoop, EventLoop.h:98).
EveryTaskRuns ==
  \A f \in Tasks :
    f \in Range(pendingFunctors) \ unwoken ~> (f \in ran \/ lpc = "outside")

\* A quit_ that is set while loop() is past its own reset of the flag, with no late store of false on
\* its way from a quit() that found the loop not running, ends loop().
QuitStops ==
  (quit /\ lpc \notin {"outside", "entered"} /\ \A t \in Callers : pc[t] # "quitReset")
    ~> lpc = "outside"

\* The loop is a task executor: it calls what is left of the vector being run, then what was pushed since.
Executor == INSTANCE TaskExecutor WITH queue <- functors \o pendingFunctors, done <- ran

ExecutesInOrder == Executor!Spec
====
