---- MODULE TCPClient ----
(***************************************************************************)
(* TCPClient.cc over Connector.cc: a client that is told once to connect,  *)
(* and to stop, disconnect or go away in any order, by the loop's thread   *)
(* or, the destructor apart, by another.  connect() and stop() each store  *)
(* two flags and count as one step; what another thread does between the   *)
(* test of removeConnection() and the store of restart() is a step.        *)
(*                                                                         *)
(* The connection is reduced to what TCPConnection shows of it: it is open *)
(* (up, or closing once shutdown() was called) until it goes down once, in *)
(* its loop, through the connection callback and then closeCallback_; what *)
(* is left is connectDestroyed.  cb is the user's callback the loop is in. *)
(* A failed assertion ends the program.                                    *)
(***************************************************************************)
EXTENDS Connector

CONSTANT MaxCalls  \* bound: calls of stop() and disconnect()

ASSUME CallsAssumption == MaxCalls \in Nat

VARIABLES
  alive,       \* ~TCPClient has not run
  retry,       \* retry_
  wanted,      \* connect_ of the client
  connection,  \* connection_ is set
  conn,        \* the connection
  closeCallback,  \* whom it calls when it closes: the client, or detail::removeConnection
  cb,
  hack,        \* the destructor's timer, which holds the connector for a second
  upc,         \* where the other user thread is in a call
  calls, started,  \* calls made, connect() called
  stopped, seen,   \* history: the loop's thread called stop(), and nobody connect() since; there has been a connection
  overtaken        \* history: connect_ was set again between a stop() and its stopInLoop()

members == <<alive, retry, connection, closeCallback, hack>>
client == <<wanted, members>>
link == <<conn, cb>>
users == <<upc, calls, started, stopped, overtaken>>

vars == <<connector, loop, aborted, client, link, users, seen>>

Open == {"up", "closing"}

TypeOK ==
  /\ ConnectorTypeOK
  /\ Range(pend \o run) \subseteq Raw \cup {"forceCloseInLoop", "connectDestroyed"}
  /\ todo \subseteq {"error", "write", "close", "timer", "hack"}
  /\ {alive, retry, wanted, connection, hack, started, stopped, seen, overtaken} \subseteq BOOLEAN
  /\ conn \in {"none", "down"} \cup Open
  /\ closeCallback \in {"client", "detached"}
  /\ cb \in {"none", "up", "down", "restart"}
  /\ upc \in {"idle", "queueStart", "queueStop"}
  /\ calls \in 0..MaxCalls

Init ==
  /\ ConnectorInit
  /\ alive = TRUE /\ retry \in BOOLEAN /\ wanted = TRUE
  /\ connection = FALSE /\ conn = "none" /\ closeCallback = "client" /\ cb = "none"
  /\ hack = FALSE
  /\ upc = "idle" /\ calls = 0 /\ started = FALSE /\ stopped = FALSE /\ seen = FALSE /\ overtaken = FALSE

Queued(f) == f \in Range(pend \o run)

\* The connector exists as long as something holds it: the client, a retry timer, the destructor's timer.
ConnectorAlive == alive \/ timers > 0 \/ hack

\* The loop's thread is in no callback of the connection's, and no assertion has ended the program.
Free == cb = "none" /\ aborted = "no"

Usable == alive /\ aborted = "no"

----
(* Events *)

\* newConnection(), called by handleWrite, up to the connection callback.
NewConnection ==
  /\ connection' = TRUE
  /\ conn' = "up"
  /\ closeCallback' = "client"
  /\ cb' = "up"
  /\ seen' = TRUE
  /\ Assert("newConnection", alive)

Connected ==
  /\ Free
  /\ Dispatch("write")
  /\ HandleWriteConnected
  /\ NewConnection
  /\ UNCHANGED <<connect, gaveUp, alive, retry, wanted, hack, users>>

Write ==
  /\ Free
  /\ Dispatch("write")
  /\ \/ (HandleWriteRetry \/ HandleWriteClose) /\ UNCHANGED aborted
     \/ HandleWriteLate /\ UNCHANGED <<state, channel, fds, timers, retryDelay, pend>>
  /\ UNCHANGED <<connect, gaveUp, client, link, users, seen>>

Error ==
  /\ Free
  /\ Dispatch("error")
  /\ HandleError
  /\ UNCHANGED <<connect, gaveUp, aborted, client, link, users, seen>>

\* A retry timer calls startInLoop and is gone.
Timer ==
  /\ Free
  /\ Dispatch("timer")
  /\ StartInLoop(connect, state, retryDelay, timers - 1)
  /\ UNCHANGED <<connect, pend, client, link, users, seen>>

\* The destructor's timer runs removeConnector and lets the connector go.
HackTimer ==
  /\ Free
  /\ Dispatch("hack")
  /\ hack' = FALSE
  /\ UNCHANGED <<connector, pend, aborted, alive, retry, wanted, connection, closeCallback, link, users, seen>>

\* The connection's handleClose(), up to the connection callback.
GoDown ==
  /\ conn' = "down"
  /\ cb' = "down"

Close ==
  /\ Free
  /\ Dispatch("close")
  /\ GoDown
  /\ UNCHANGED <<connector, pend, aborted, client, users, seen>>

----
(* Functors *)

RunStart ==
  /\ Free
  /\ TakeFunctor("startInLoop")
  /\ StartInLoop(connect, state, retryDelay, timers)
  /\ UNCHANGED <<connect, pend, client, link, users, seen>>

RunStop ==
  /\ Free
  /\ TakeFunctor("stopInLoop")
  /\ StopInLoop
  /\ UNCHANGED <<connect, gaveUp, aborted, client, link, users, seen>>

RunReset ==
  /\ Free
  /\ TakeFunctor("resetChannel")
  /\ channel' = "none"
  /\ UNCHANGED <<connect, state, retryDelay, timers, fds, gaveUp, pend, aborted, client, link, users, seen>>

\* forceCloseInLoop(), queued by the destructor; the connection may have closed by itself.
RunForceClose ==
  /\ Free
  /\ TakeFunctor("forceCloseInLoop")
  /\ IF conn \in Open THEN GoDown ELSE UNCHANGED link
  /\ UNCHANGED <<connector, pend, aborted, client, users, seen>>

\* connectDestroyed(); the last shared_ptr goes with the functor, and the socket with the connection.
RunDestroyed ==
  /\ Free
  /\ TakeFunctor("connectDestroyed")
  /\ fds' = fds - 1
  /\ UNCHANGED <<connect, state, channel, retryDelay, timers, gaveUp, pend, aborted, client, link, users, seen>>

----
(* Returns from user callbacks *)

UpReturns ==
  /\ cb = "up"
  /\ cb' = "none"
  /\ UNCHANGED <<connector, loop, aborted, client, conn, users, seen>>

\* removeConnection(), up to its test whether to connect again.
RemoveConnection ==
  /\ connection' = FALSE
  /\ pend' = Append(pend, "connectDestroyed")
  /\ cb' = IF connection /\ retry /\ wanted THEN "restart" ELSE "none"
  /\ Assert("removeConnection", connection)

\* The rest of handleClose(): closeCallback_.
DownReturns ==
  /\ cb = "down"
  /\ conn' = "none"
  /\ IF closeCallback = "client"
       THEN RemoveConnection
       ELSE /\ pend' = Append(pend, "connectDestroyed")
            /\ cb' = "none"
            /\ UNCHANGED <<aborted, connection>>
  /\ UNCHANGED <<connector, run, place, todo, alive, retry, wanted, closeCallback, hack, users, seen>>

\* connect_ is set, by connect() or restart().
StopPending == upc = "queueStop" \/ Queued("stopInLoop")

ConnectAgain ==
  /\ connect' = TRUE
  /\ overtaken' = (overtaken \/ StopPending)

RestartStarts ==  \* a mutant: calls start() where restart() is needed
  /\ cb = "restart" /\ cb' = "none"
  /\ ConnectAgain
  /\ StartInLoop(TRUE, state, retryDelay, timers)
  /\ UNCHANGED <<loop, client, conn, upc, calls, started, stopped, seen>>

\* restart(), still in removeConnection(), whatever other threads did after the test.  A stop() between
\* its store of connect_ and startInLoop's test of it has the effect of one before the test.
Restart ==
  /\ cb = "restart" /\ cb' = "none"
  /\ ConnectAgain
  /\ StartInLoop(TRUE, "kDisconnected", InitDelay, timers)
  /\ UNCHANGED <<loop, client, conn, upc, calls, started, stopped, seen>>

----
(* Calls of the loop's thread: from other channels' callbacks, functors, and this client's callbacks. *)

InLoop == Usable /\ place # "poll" /\ cb # "restart"

\* connect(): start() runs startInLoop at once.
LoopConnect ==
  /\ InLoop /\ ~started
  /\ started' = TRUE
  /\ wanted' = TRUE /\ ConnectAgain
  /\ stopped' = FALSE
  /\ StartInLoop(TRUE, state, retryDelay, timers)
  /\ UNCHANGED <<loop, members, link, upc, calls, seen>>

LoopStop ==
  /\ InLoop /\ calls < MaxCalls
  /\ calls' = calls + 1
  /\ wanted' = FALSE /\ connect' = FALSE
  /\ pend' = Append(pend, "stopInLoop")
  /\ stopped' = TRUE
  /\ UNCHANGED <<attempt, gaveUp, run, place, todo, aborted, members, link, upc, started, overtaken, seen>>

\* disconnect() of either thread: connection_->shutdown() under the mutex.
Disconnect ==
  /\ Usable /\ calls < MaxCalls
  /\ calls' = calls + 1
  /\ wanted' = FALSE
  /\ conn' = IF connection /\ conn = "up" THEN "closing" ELSE conn
  /\ UNCHANGED <<connector, loop, aborted, members, cb, upc, started, stopped, overtaken, seen>>

\* The destructor of a client without a connection: stop() the connector, and keep it for a second.
DestroyIdle ==
  /\ connect' = FALSE
  /\ pend' = Append(pend, "stopInLoop")
  /\ hack' = TRUE
  /\ UNCHANGED closeCallback

\* ... and with one: nobody is to call the client any more, and the connection is closed, unless
\* somebody else holds it (unique is false), be it handleClose() that is calling the user.
DestroyConnected ==
  \E unique \in IF cb = "none" THEN BOOLEAN ELSE {FALSE} :
    /\ closeCallback' = "detached"
    /\ pend' = IF unique THEN Append(pend, "forceCloseInLoop") ELSE pend
    /\ UNCHANGED <<connect, hack>>

\* Those who destroy a client that has a connection do so outside the connection's callbacks, but for
\* the one that says it is down, and when nothing the connector queued is still to come: its functors
\* bind this, and the client may be the last to hold it.
Settled ==
  connection => cb # "up" /\ upc = "idle" /\ \A f \in Raw : ~Queued(f)

Destroy ==
  /\ InLoop
  /\ Settled /\ upc = "idle"
  /\ alive' = FALSE
  /\ IF connection THEN DestroyConnected ELSE DestroyIdle
  /\ connection' = FALSE
  /\ UNCHANGED <<attempt, gaveUp, run, place, todo, aborted, retry, wanted, link, users, seen>>

----
(* Calls of another thread: the flag, then the functor. *)

OtherConnect ==
  /\ Usable /\ ~started /\ upc = "idle"
  /\ started' = TRUE
  /\ wanted' = TRUE /\ ConnectAgain
  /\ stopped' = FALSE
  /\ upc' = "queueStart"
  /\ UNCHANGED <<attempt, gaveUp, loop, aborted, members, link, calls, seen>>

OtherStop ==
  /\ Usable /\ calls < MaxCalls /\ upc = "idle"
  /\ calls' = calls + 1
  /\ wanted' = FALSE /\ connect' = FALSE
  /\ upc' = "queueStop"
  /\ UNCHANGED <<attempt, gaveUp, loop, aborted, members, link, started, stopped, overtaken, seen>>

OtherQueues ==
  /\ upc # "idle" /\ aborted = "no"
  /\ pend' = Append(pend, IF upc = "queueStart" THEN "startInLoop" ELSE "stopInLoop")
  /\ upc' = "idle"
  /\ UNCHANGED <<connector, run, place, todo, aborted, client, link, calls, started, stopped, overtaken, seen>>

----

\* epoll_wait returns.  The second the destructor's timer waits is long: the loop has by then called
\* every functor it had when the client was destroyed, and those these queued.
LoopPoll(due) ==
  /\ Poll(due)
  /\ "close" \in due => conn \in Open
  /\ "hack" \in due => hack /\ \A f \in Raw : ~Queued(f)
  /\ UNCHANGED <<client, link, users, seen>>

Events == {"error", "write", "close", "timer", "hack"}

LoopStep ==
  \/ Connected \/ Write \/ Error \/ Timer \/ HackTimer \/ Close
  \/ RunStart \/ RunStop \/ RunReset \/ RunForceClose \/ RunDestroyed
  \/ UpReturns \/ DownReturns \/ Restart
  \/ Free /\ (StartFunctors \/ EndFunctors) /\ UNCHANGED <<client, link, users, seen>>

Next ==
  \/ LoopStep \/ OtherQueues
  \/ \E due \in SUBSET Events : LoopPoll(due)
  \/ LoopConnect \/ LoopStop \/ Disconnect \/ Destroy
  \/ OtherConnect \/ OtherStop

Spec == Init /\ [][Next]_vars

(***************************************************************************)
(* The loop goes on, woken up by what is queued (NoLostWakeup of           *)
(* EventLoop), and a call once begun finishes.  A timer that is set fires, *)
(* an attempt ends one way or the other, and a server that is tried again  *)
(* and again is reached at last.                                           *)
(***************************************************************************)
Arrives(e) == \E due \in SUBSET Events : e \in due /\ "error" \notin due /\ LoopPoll(due)

FairSpec ==
  /\ Spec
  /\ WF_vars(LoopStep)
  /\ WF_vars(OtherQueues)
  /\ WF_vars(pend # <<>> /\ \E due \in SUBSET Events : LoopPoll(due))
  /\ \A e \in {"write", "timer", "hack"} : SF_vars(Arrives(e))
  /\ SF_vars(LoopStep /\ channel' = "registered")
  /\ SF_vars(Connected)

----
(* Properties *)

\* How often f is in the queue s, and in both queues.
Occurrences(s, f) == Cardinality({i \in DOMAIN s : s[i] = f})

Count(f) == Occurrences(pend, f) + Occurrences(run, f)

Bool(b) == IF b THEN 1 ELSE 0

\* One socket at a time: a client has one attempt in sight, under way or on its way to be made, or one
\* connection; and every socket it opened is the attempt's, the connection's, or that of a closed
\* connection that connectDestroyed will delete (retry, TCPClient.cc:155-158, Connector.cc:162).
OneAtATime ==
  /\ Count("startInLoop") + timers + Bool(channel = "registered") + Bool(conn # "none") <= 1
  /\ fds = Bool(channel = "registered") + Bool(conn # "none") + Count("connectDestroyed")

\* Whoever has an address has an object behind it (part of AssertsHold).
NoUseAfterFree ==
  /\ ~ConnectorAlive => channel = "none" /\ \A f \in Raw : ~Queued(f)
  /\ ~alive /\ conn # "none" => closeCallback = "detached"

\* No assertion of Connector.cc or TCPClient.cc fails: startInLoop finds the connector disconnected
\* (45), handleWrite after handleError finds it disconnected (167), removeConnection finds connection_
\* set (TCPClient.cc:150), and connecting() finds the channel of the attempt before deleted (120),
\* unless a stop() was overtaken: its stopInLoop then calls retry() with connect_ set, and the timer may
\* run before resetChannel.  And nothing is used after it is gone: what is queued with the connector's
\* address runs before (the one-second timer of TCPClient.cc:88-89), ~Connector finds channel_ null
\* (Connector.cc:34), and a connection does not call a client that is gone (TCPClient.cc:81-82).
AssertsHold ==
  /\ aborted = "no" \/ (overtaken /\ aborted = "connecting")
  /\ NoUseAfterFree

\* After the loop's thread called stop() no connection comes up until connect() is called, whatever
\* attempt, timer, restart or queued start was under way ("do not connect", Connector.cc:49).
StopStays == [][stopped => conn' # "up" \/ conn = "up"]_vars

Trying == aborted = "no" /\ alive /\ started /\ wanted /\ connect /\ ~gaveUp /\ (retry \/ ~seen)

\* A client that is to connect, or to connect again, does: no attempt ends without a connection, a
\* retry or stop() (Connector.cc:181-194, TCPClient.cc:155-158).
KeepsTrying == Trying ~> (conn \in Open \/ ~Trying)
====
