---- MODULE Connector ----
(***************************************************************************)
(* Connector.cc: the attempts of one client to connect, as operators on    *)
(* the connector's members; TCPClient composes them with the client, the   *)
(* connection and the users.                                               *)
(*                                                                         *)
(* The loop is in epoll_wait ("poll"), among the active channels ("batch": *)
(* this connector's, its timer, the connection's and those of others), or  *)
(* in doPendingFunctors ("functors").  Functors are named by the member    *)
(* function they call.  A timer is due at some later iteration; how long   *)
(* it waits is retryDelay, in units of kInitRetryDelayMs.                  *)
(***************************************************************************)
EXTENDS Naturals, Sequences, Functions, FiniteSetsExt

CONSTANTS
  InitDelay,  \* kInitRetryDelayMs
  MaxDelay    \* kMaxRetryDelayMs

ASSUME DelayAssumption == InitDelay \in Nat \ {0} /\ MaxDelay \in Nat /\ InitDelay <= MaxDelay

VARIABLES
  connect,     \* connect_
  state,       \* state_
  channel,     \* channel_: none, registered in the poller, or removed and not yet reset
  retryDelay,  \* retryDelayMs_
  timers,      \* retry timers set, each of which holds the connector
  fds,         \* sockets open, of attempts and of connections
  gaveUp,      \* history: an attempt met an error that connect() does not retry
  pend, run,   \* the loop's functors: pendingFunctors_, and the vector being run
  place, todo, \* where the loop is, and the callbacks of this batch still to come
  aborted      \* the assertion that failed, if any

attempt == <<state, channel, retryDelay, timers, fds>>
connector == <<connect, attempt, gaveUp>>
loop == <<pend, run, place, todo>>

Raw == {"startInLoop", "stopInLoop", "resetChannel"}  \* functors that bind the connector as this

ConnectorTypeOK ==
  /\ connect \in BOOLEAN /\ gaveUp \in BOOLEAN
  /\ state \in {"kDisconnected", "kConnecting", "kConnected"}
  /\ channel \in {"none", "registered", "removed"}
  /\ retryDelay \in InitDelay..MaxDelay
  /\ timers \in Nat /\ fds \in Nat
  /\ place \in {"poll", "batch", "functors"}
  /\ place = "poll" => todo = {} /\ run = <<>>

ConnectorInit ==
  /\ connect = FALSE
  /\ state = "kDisconnected"
  /\ channel = "none"
  /\ retryDelay = InitDelay
  /\ timers = 0 /\ fds = 0
  /\ gaveUp = FALSE
  /\ pend = <<>> /\ run = <<>>
  /\ place = "batch" /\ todo = {}
  /\ aborted = "no"

Failed(label, cond) == IF cond THEN aborted ELSE label
Assert(label, cond) == aborted' = Failed(label, cond)

----
(* Attempts *)

RetryNever(open, again, delay, left) ==  \* a mutant: closes the socket and sets no timer
  /\ fds' = open - 1
  /\ state' = "kDisconnected"
  /\ timers' = left
  /\ retryDelay' = delay

\* retry(): close the socket, one of the open ones, and, if that is still wanted, try again after a
\* while.  left is the number of timers set.
Retry(open, again, delay, left) ==
  /\ fds' = open - 1
  /\ state' = "kDisconnected"
  /\ timers' = left + (IF again THEN 1 ELSE 0)
  /\ retryDelay' = IF again THEN Min({2 * delay, MaxDelay}) ELSE delay

\* startInLoop() entered with these values of connect_, state_ and retryDelayMs_: the attempt may get
\* under way, be refused at once, or meet an error that is only logged.
StartInLoop(again, st, delay, left) ==
  LET ok == Failed("startInLoop", st = "kDisconnected")
  IN \/ /\ again
        /\ aborted' = IF channel = "none" THEN ok ELSE "connecting"
        /\ state' = "kConnecting"
        /\ channel' = "registered"
        /\ fds' = fds + 1
        /\ timers' = left /\ retryDelay' = delay
        /\ UNCHANGED gaveUp
     \/ /\ again
        /\ aborted' = ok
        /\ Retry(fds + 1, again, delay, left)
        /\ UNCHANGED <<channel, gaveUp>>
     \/ /\ aborted' = ok
        /\ state' = st
        /\ timers' = left /\ retryDelay' = delay
        /\ gaveUp' = (gaveUp \/ again)
        /\ UNCHANGED <<channel, fds>>

\* removeAndResetChannel(): off the poller now, deleted by a functor, for its handler is running.
RemoveAndResetChannel ==
  /\ channel' = "removed"
  /\ pend' = Append(pend, "resetChannel")

StopInLoop ==
  IF state = "kConnecting"
    THEN /\ RemoveAndResetChannel
         /\ Retry(fds, connect, retryDelay, timers)
    ELSE UNCHANGED <<attempt, pend>>

HandleError ==
  IF state = "kConnecting"
    THEN /\ RemoveAndResetChannel
         /\ Retry(fds, connect, retryDelay, timers)
    ELSE UNCHANGED <<attempt, pend>>

HandleWriteRetryAlways ==  \* a mutant: does not look at state_
  /\ RemoveAndResetChannel
  /\ Retry(fds, connect, retryDelay, timers)

\* handleWrite() when the socket has an error or is connected to itself: try again.
HandleWriteRetry ==
  /\ state = "kConnecting"
  /\ RemoveAndResetChannel
  /\ Retry(fds, connect, retryDelay, timers)

\* handleWrite() of a socket that is connected and not wanted any more.
HandleWriteClose ==
  /\ state = "kConnecting" /\ ~connect
  /\ RemoveAndResetChannel
  /\ state' = "kConnected"
  /\ fds' = fds - 1
  /\ UNCHANGED <<timers, retryDelay>>

HandleWriteConnectedAnyway ==  \* a mutant: does not look at connect_
  /\ state = "kConnecting"
  /\ RemoveAndResetChannel
  /\ state' = "kConnected"
  /\ UNCHANGED <<fds, timers, retryDelay>>

\* handleWrite() of a socket that is connected: it goes to newConnectionCallback_.
HandleWriteConnected ==
  /\ state = "kConnecting" /\ connect
  /\ RemoveAndResetChannel
  /\ state' = "kConnected"
  /\ UNCHANGED <<fds, timers, retryDelay>>

\* handleWrite() after handleError() of the same event has dealt with the attempt.
HandleWriteLate ==
  /\ state # "kConnecting"
  /\ Assert("handleWrite", state = "kDisconnected")

----
(* The loop around the connector *)

\* The callbacks that epoll_wait may find due: of a finished attempt the write callback, before it the
\* error callback when it failed; the close of an open connection; a retry timer; the client's own.
Poll(due) ==
  /\ place = "poll"
  /\ "error" \in due => "write" \in due
  /\ "write" \in due => channel = "registered"
  /\ "timer" \in due => timers > 0
  /\ place' = "batch"
  /\ todo' = due
  /\ UNCHANGED <<connector, pend, run, aborted>>

StartFunctors ==
  /\ place = "batch" /\ todo = {}
  /\ place' = "functors"
  /\ run' = pend /\ pend' = <<>>
  /\ UNCHANGED <<connector, todo, aborted>>

EndFunctorsEarly ==  \* a mutant: goes back to epoll_wait after one functor
  /\ place = "functors"
  /\ place' = "poll"
  /\ UNCHANGED <<connector, pend, run, todo, aborted>>

EndFunctors ==
  /\ place = "functors" /\ run = <<>>
  /\ place' = "poll"
  /\ UNCHANGED <<connector, pend, run, todo, aborted>>

\* The loop calls c, a callback of this batch.
Dispatch(c) ==
  /\ place = "batch" /\ c \in todo
  /\ c = "write" => "error" \notin todo
  /\ todo' = todo \ {c}
  /\ UNCHANGED <<run, place>>

\* The loop calls functor f.
TakeFunctor(f) ==
  /\ place = "functors" /\ run # <<>>
  /\ Head(run) = f
  /\ run' = Tail(run)
  /\ UNCHANGED <<place, todo>>
====
