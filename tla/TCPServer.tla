---- MODULE TCPServer ----
(***************************************************************************)
(* TCPServer.cc with its Acceptor and EventLoopThreadPool: connections are *)
(* accepted in the server's loop, handed to the loops of the pool in turn, *)
(* and removed through both loops when they close.                         *)
(*                                                                         *)
(* Every loop is a TaskExecutor, which EventLoop implements: a queue of    *)
(* functors called in order, while runInLoop of the loop's own thread acts *)
(* at once.  A connection is reduced to what TCPConnection shows of it.    *)
(***************************************************************************)
EXTENDS Acceptor, EventLoopThreadPool, Sequences, Functions, FiniteSets

CONSTANT MaxThreads  \* bound: the pool's threads

ASSUME ThreadsAssumption == MaxThreads \in Nat

VARIABLES
  started,      \* started_
  alive,        \* ~TCPServer has not run
  connections,  \* connections_, by number
  nextConnId,   \* nextConnId_
  state,        \* of each connection: none yet, its state_, or destroyed
  loopOf,       \* its loop, getLoop()
  queue,        \* the functors of each loop
  aborted       \* the assertion that failed, if any

vars == <<acceptor, kernel, pool, started, alive, connections, nextConnId, state, loopOf, queue, aborted>>

Conns == 1..MaxPeers
Loops == 0..MaxThreads
Functor == [f : {"established", "remove", "destroyed"}, conn : Conns]

TypeOK ==
  /\ AcceptorTypeOK /\ PoolTypeOK /\ numThreads <= MaxThreads
  /\ {started, alive} \subseteq BOOLEAN
  /\ connections \subseteq Conns
  /\ nextConnId \in 1..MaxPeers + 1
  /\ state \in [Conns -> {"none", "kConnecting", "kConnected", "kDisconnected", "destroyed"}]
  /\ loopOf \in [Conns -> Loops]
  /\ queue \in [Loops -> Seq(Functor)]

\* setThreadNum() has been called.
Init ==
  /\ AcceptorInit
  /\ numThreads \in 0..MaxThreads /\ next = 0
  /\ started = FALSE /\ alive = TRUE
  /\ connections = {} /\ nextConnId = 1
  /\ state = [c \in Conns |-> "none"]
  /\ loopOf = [c \in Conns |-> 0]
  /\ queue = [l \in Loops |-> <<>>]
  /\ aborted = "no"

Assert(label, cond) == aborted' = IF cond THEN aborted ELSE label

QueueInLoop(l, fn, c) == queue' = [queue EXCEPT ![l] = Append(@, [f |-> fn, conn |-> c])]

----
(* The server's loop.  It is in handleRead() until spare is back at rest. *)

\* start(): the pool's threads, then listen(); a second call does nothing.
Start ==
  /\ alive /\ ~started /\ spare = "rest"
  /\ started' = TRUE
  /\ Assert("listenning", ~listenning)
  /\ Listen
  /\ UNCHANGED <<pool, alive, connections, nextConnId, state, loopOf, queue>>

\* newConnection(), called by handleRead(): in the server's own loop connectEstablished runs at once.
NewConnection ==
  LET c == nextConnId
      ioLoop == NextLoop
  IN /\ nextConnId' = nextConnId + 1
     /\ connections' = connections \cup {c}
     /\ loopOf' = [loopOf EXCEPT ![c] = ioLoop]
     /\ IF ioLoop = 0
          THEN /\ state' = [state EXCEPT ![c] = "kConnected"]
               /\ UNCHANGED queue
          ELSE /\ state' = [state EXCEPT ![c] = "kConnecting"]
               /\ QueueInLoop(ioLoop, "established", c)

HandleAccept ==
  /\ alive
  /\ Accept
  /\ NewConnection
  /\ Advance
  /\ UNCHANGED <<numThreads, started, alive, aborted>>

HandleAborted ==
  /\ AcceptAborted
  /\ UNCHANGED <<pool, started, alive, connections, nextConnId, state, loopOf, queue, aborted>>

HandleEmfile ==
  /\ AcceptEmfile \/ HandleReadRest
  /\ UNCHANGED <<pool, started, alive, connections, nextConnId, state, loopOf, queue, aborted>>

RemoveConnectionKeepsEntry(c) ==  \* a mutant: the map keeps the closed connection
  /\ Assert("erase", c \in connections)
  /\ UNCHANGED connections

\* removeConnectionInLoop(), up to the functor it queues.
RemoveConnectionInLoop(c) ==
  /\ Assert("erase", c \in connections)
  /\ connections' = connections \ {c}

----
(* The loops of the connections *)

\* The connection goes down in its loop, and closeCallback_ is removeConnection().
Close(c) ==
  LET l == loopOf[c]
  IN /\ state[c] = "kConnected"
     /\ l = 0 => spare = "rest"
     /\ state' = [state EXCEPT ![c] = "kDisconnected"]
     /\ IF l = 0
          THEN RemoveConnectionInLoop(c) /\ QueueInLoop(0, "destroyed", c)
          ELSE QueueInLoop(0, "remove", c) /\ UNCHANGED <<connections, aborted>>
     /\ UNCHANGED <<acceptor, kernel, pool, started, alive, nextConnId, loopOf>>

\* What loop l's next functor is, and the queue without it.
Takes(l, fn, c) ==
  /\ l = 0 => spare = "rest"
  /\ queue[l] # <<>> /\ Head(queue[l]) = [f |-> fn, conn |-> c]
Rest(l) == [queue EXCEPT ![l] = Tail(@)]

RunEstablished(l, c) ==
  /\ Takes(l, "established", c)
  /\ queue' = Rest(l)
  /\ Assert("connectEstablished", state[c] = "kConnecting")
  /\ state' = [state EXCEPT ![c] = "kConnected"]
  /\ UNCHANGED <<acceptor, kernel, pool, started, alive, connections, nextConnId, loopOf>>

\* The functor of removeConnection() in the server's loop.
RunRemove(c) ==
  /\ Takes(0, "remove", c)
  /\ RemoveConnectionInLoop(c)
  /\ queue' = [Rest(0) EXCEPT ![loopOf[c]] = Append(@, [f |-> "destroyed", conn |-> c])]
  /\ UNCHANGED <<acceptor, kernel, pool, started, alive, nextConnId, state, loopOf>>

\* connectDestroyed(): Channel::remove() asserts that the channel is registered, and disabled.  The
\* functor was the last to hold the connection, whose socket is closed.
RunDestroyed(l, c) ==
  /\ Takes(l, "destroyed", c)
  /\ queue' = Rest(l)
  /\ Assert("connectDestroyed", state[c] \in {"kConnected", "kDisconnected"})
  /\ state' = [state EXCEPT ![c] = "destroyed"]
  /\ free' = free + 1
  /\ UNCHANGED <<acceptor, backlog, peers, others, raced, pool, started, alive, connections,
                 nextConnId, loopOf>>

----

\* The destructor of a server is safe only when its connections live in its own loop, or there are none
\* left: a loop of the pool may be calling removeConnection() on the server, and is made to quit with
\* connectDestroyed still queued.
MayDestroy ==
  numThreads = 0 \/ (connections = {} /\ \A l \in Loops : queue[l] = <<>>)

\* ~TCPServer(): connectDestroyed of every connection, then its members, the Acceptor's descriptors.  It does
\* not run in a batch of events in which one of its connections or its acceptor is active: there
\* EventLoop::removeChannel asserts (EventLoop.cc:170).
Destroy ==
  /\ alive /\ spare = "rest" /\ MayDestroy
  /\ alive' = FALSE
  /\ connections' = {}
  /\ state' = [c \in Conns |-> IF c \in connections THEN "destroyed" ELSE state[c]]
  /\ AcceptorDestroyed
  /\ free' = free + Cardinality(connections) + (IF idleFd = "closed" THEN 0 ELSE 1)
  /\ backlog' = 0
  /\ UNCHANGED <<peers, others, raced, pool, started, nextConnId, loopOf, queue, aborted>>

Environment ==
  /\ PeerConnects \/ OtherOpens \/ OtherCloses
  /\ UNCHANGED <<pool, started, alive, connections, nextConnId, state, loopOf, queue, aborted>>

Accepting == HandleAccept \/ HandleEmfile

RunFunctor(l) == \E c \in Conns : RunEstablished(l, c) \/ RunDestroyed(l, c) \/ (l = 0 /\ RunRemove(c))

Next ==
  \/ Start \/ Accepting \/ HandleAborted \/ Destroy
  \/ \E l \in Loops : RunFunctor(l)
  \/ \E c \in Conns : Close(c)
  \/ Environment

Spec == Init /\ [][Next]_vars

\* Every loop goes on calling functors, the server's at the end of iterations that may each be in
\* handleRead() before, and that loop goes on handling its listening socket.  Connections, peers and
\* other threads do what they like.
FairSpec ==
  /\ Spec
  /\ WF_vars(Accepting)
  /\ \A l \in Loops : SF_vars(RunFunctor(l))

----
(* Properties *)

Queued(fn, c) == \E l \in Loops : [f |-> fn, conn |-> c] \in Range(queue[l])

Bool(b) == IF b THEN 1 ELSE 0

LiveConns == {c \in Conns : state[c] \notin {"none", "destroyed"}}

\* A connection from accept() on is held in exactly one place until it is destroyed, by the server's
\* map, by the removal on its way to the server's loop, or by the destruction on its way to its own;
\* so erase() finds it (TCPServer.cc:101), it is destroyed once, down, and no removal outlives the server.
HeldOnce ==
  /\ aborted = "no"
  /\ \A c \in LiveConns :
       Bool(c \in connections /\ ~Queued("remove", c)) + Bool(Queued("remove", c)) + Bool(Queued("destroyed", c)) = 1
  /\ \A c \in Conns : Queued("remove", c) => alive /\ c \in connections /\ state[c] = "kDisconnected"
  /\ \A c \in connections : c \in LiveConns

\* No descriptor is leaked or closed twice, by connections or by the exchange of the spare one, and
\* after each handleRead() the spare one is back, unless another thread took it (Acceptor.cc:76-83).
FdsAccounted ==
  /\ free + others + Cardinality(LiveConns) + Bool(idleFd # "closed") = MaxFds
  /\ alive /\ spare = "rest" /\ ~raced => idleFd = "/dev/null"

\* Every peer in the backlog is accepted or turned away, also at the limit of descriptors, where
\* epoll_wait would report the listening socket for ever (Acceptor.cc:73-78), unless another thread
\* took the spare descriptor; and every connection that closes is destroyed.
EveryoneServed ==
  /\ backlog > 0 ~> (backlog = 0 \/ raced)
  /\ \A c \in Conns : state[c] = "kDisconnected" ~> state[c] = "destroyed"
====
