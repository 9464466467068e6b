---- MODULE TCPConnection ----
(***************************************************************************)
(* TCPConnection.cc: one connection from the moment its owner (TCPServer   *)
(* or TCPClient) queued connectEstablished until the last shared_ptr to it *)
(* is gone.  The actors are the I/O loop's thread, the owner, one other    *)
(* user thread, and the peer.                                              *)
(*                                                                         *)
(* The I/O thread is in one of five places of EventLoop::loop():           *)
(*   poll      in epoll_wait                                               *)
(*   others    among active channels of which this connection's is none    *)
(*   batch     among active channels, in another than this connection's    *)
(*   event     in this connection's Channel::handleEvent                   *)
(*   functors  in doPendingFunctors                                        *)
(* and cb names the user callback of this connection it is in, if any.     *)
(* Bytes are counted in units, numbered in the order sendInLoop took them; *)
(* a message is MsgUnits units.                                            *)
(***************************************************************************)
EXTENDS Sequences, Functions, Channel

CONSTANTS
  MsgUnits,   \* length of a message
  HighWater,  \* highWaterMark_, in units
  MaxCalls,   \* bound: calls the user makes
  MaxIn,      \* bound: messages of the peer
  Contracts   \* the sets of operations that one user may combine

ASSUME UnitsAssumption == MsgUnits \in Nat \ {0} /\ HighWater \in Nat \ {0}
ASSUME BoundsAssumption == MaxCalls \in Nat /\ MaxIn \in Nat

VARIABLES
  state,     \* state_
  reading,   \* reading_
  ch,        \* channel_
  outBuf,    \* outputBuffer_
  accepted,  \* how many units sendInLoop took
  wire,      \* what the kernel took, in order
  sock,      \* the socket
  pend,      \* the loop's pendingFunctors_, those that concern this connection
  run,       \* doPendingFunctors' local vector, what is left of it
  place, todo, cb,
  owner,     \* the owner's map entry: holds, removing (removeConnection called), gone
  userRef,   \* the user holds a TCPConnectionPtr
  upc,       \* where the user thread is in a call
  timer,     \* forceCloseWithDelay's timer is set
  calls,     \* calls of the user
  contract,  \* which operations this user makes
  ups, downs,  \* connection callbacks made
  aborted    \* the assertion that failed, if any

vars == <<state, reading, ch, outBuf, accepted, wire, sock, pend, run, place, todo, cb, owner,
          userRef, upc, timer, calls, contract, ups, downs, aborted>>

data == <<outBuf, accepted, wire>>
loopVars == <<run, place, todo, cb>>
counts == <<ups, downs>>
user == <<userRef, upc, timer, calls, contract>>

Open == {"kConnected", "kDisconnecting"}

\* What a queued functor binds: a shared_ptr to the connection, or this.
Owning == {"established", "forceClose", "destroyed", "writeComplete", "highWater"}
Raw == {"send", "shutdown"}

TypeOK ==
  /\ state \in {"kConnecting", "kConnected", "kDisconnecting", "kDisconnected"}
  /\ reading \in BOOLEAN
  /\ ch \in ChannelType
  /\ outBuf \in Seq(1..accepted) /\ wire \in Seq(1..accepted) /\ accepted \in Nat
  /\ sock \in [in : 0..MaxIn, peerFin : BOOLEAN, rst : BOOLEAN, err : BOOLEAN, fin : BOOLEAN]
  /\ pend \in Seq(Owning \cup Raw) /\ run \in Seq(Owning \cup Raw)
  /\ place \in {"poll", "others", "batch", "event", "functors"}
  /\ todo \subseteq Range(Callbacks) /\ (todo # {} => place \in {"batch", "event"})
  /\ cb \in {"none", "up", "message", "down", "destroy"}
  /\ cb # "none" => place \in {"others", "event", "functors"}
  /\ owner \in {"holds", "removing", "gone"}
  /\ userRef \in BOOLEAN /\ timer \in BOOLEAN
  /\ upc \in {"idle", "queueSend", "setShutdown", "queueShutdown", "setForceClose", "queueForceClose"}
  /\ calls \in 0..MaxCalls /\ contract \in Contracts
  /\ ups \in Nat /\ downs \in Nat

Init ==
  /\ state = "kConnecting"
  /\ reading = FALSE
  /\ ch = NewChannel
  /\ outBuf = <<>> /\ wire = <<>> /\ accepted = 0
  /\ sock = [in |-> 0, peerFin |-> FALSE, rst |-> FALSE, err |-> FALSE, fin |-> FALSE]
  /\ pend = <<"established">> /\ run = <<>>
  /\ place = "poll" /\ todo = {} /\ cb = "none"
  /\ owner = "holds" /\ userRef = TRUE /\ upc = "idle" /\ timer = FALSE
  /\ calls = 0 /\ contract \in Contracts
  /\ ups = 0 /\ downs = 0
  /\ aborted = "no"

Assert(label, cond) == aborted' = IF cond THEN aborted ELSE label

----
(* The loop around the connection *)

\* epoll_wait returns.  The socket is readable and hung up as the peer left it, and writable when there
\* is room in its send buffer (room) or when writing would fail.
Ready(room) ==
  {e \in {"IN", "OUT", "HUP", "ERR"} :
     CASE e = "IN"  -> sock.in > 0 \/ sock.peerFin \/ sock.rst
       [] e = "OUT" -> room \/ sock.fin \/ sock.rst
       [] e = "HUP" -> sock.rst \/ (sock.fin /\ sock.peerFin)
       [] e = "ERR" -> sock.err}

Poll(room) ==
  /\ place = "poll"
  /\ place' = IF Reported(ch, Ready(room)) = {} THEN "others" ELSE "batch"
  /\ todo' = CallbacksOf(Reported(ch, Ready(room)))
  /\ UNCHANGED <<state, reading, ch, data, sock, pend, run, cb, owner, user, counts, aborted>>

\* The connection's channel is next in activeChannels_; its handlers run under the tie's guard.
EnterEvent ==
  /\ place = "batch" /\ todo # {}
  /\ place' = "event"
  /\ UNCHANGED <<state, reading, ch, data, sock, pend, run, todo, cb, owner, user, counts, aborted>>

LeaveEvent ==
  /\ place = "event" /\ todo = {} /\ cb = "none"
  /\ place' = "batch"
  /\ UNCHANGED <<state, reading, ch, data, sock, pend, run, todo, cb, owner, user, counts, aborted>>

StartFunctorsEarly ==  \* a mutant: runs the functors after each channel
  /\ place \in {"others", "batch"} /\ cb = "none"
  /\ place' = "functors"
  /\ run' = pend /\ pend' = <<>>
  /\ UNCHANGED <<state, reading, ch, data, sock, todo, cb, owner, user, counts, aborted>>

StartFunctors ==
  /\ place \in {"others", "batch"} /\ todo = {} /\ cb = "none"
  /\ place' = "functors"
  /\ run' = pend /\ pend' = <<>>
  /\ UNCHANGED <<state, reading, ch, data, sock, todo, cb, owner, user, counts, aborted>>

EndFunctors ==
  /\ place = "functors" /\ run = <<>> /\ cb = "none"
  /\ place' = "poll"
  /\ UNCHANGED <<state, reading, ch, data, sock, pend, run, todo, cb, owner, user, counts, aborted>>

\* The next callback handleEventWithGuard calls is c.
Dispatch(c) ==
  /\ place = "event" /\ cb = "none"
  /\ FirstOf(todo, c)
  /\ todo' = todo \ {c}
  /\ UNCHANGED <<run, place>>

\* The next functor doPendingFunctors calls is f.
TakeFunctor(f) ==
  /\ place = "functors" /\ cb = "none" /\ run # <<>>
  /\ Head(run) = f
  /\ run' = Tail(run)
  /\ UNCHANGED <<place, todo>>

----
(* What handlers do *)

SendInLoopUnordered ==  \* a mutant: tries to write directly whatever outputBuffer_ holds
  LET msg == [i \in 1..MsgUnits |-> accepted + i]
      faultError == sock.fin \/ sock.rst
  IN \E n \in IF faultError THEN {0} ELSE 0..MsgUnits :
       LET rest == SubSeq(msg, n + 1, MsgUnits)
       IN /\ accepted' = accepted + MsgUnits
          /\ wire' = wire \o SubSeq(msg, 1, n)
          /\ outBuf' = IF faultError THEN outBuf ELSE outBuf \o rest
          /\ ch' = IF faultError \/ rest = <<>> \/ "OUT" \in ch.events THEN ch ELSE Enable(ch, "OUT")
          /\ UNCHANGED <<pend, sock>>

SendInLoopNoEnable ==  \* a mutant: buffers what is left without watching for writability
  LET msg == [i \in 1..MsgUnits |-> accepted + i]
      direct == "OUT" \notin ch.events /\ outBuf = <<>>
  IN \E n \in IF direct /\ ~(sock.fin \/ sock.rst) THEN 0..MsgUnits ELSE {0} :
       /\ accepted' = accepted + MsgUnits
       /\ wire' = wire \o SubSeq(msg, 1, n)
       /\ outBuf' = outBuf \o SubSeq(msg, n + 1, MsgUnits)
       /\ UNCHANGED <<pend, sock, ch>>

\* sendInLoop of a connection that is not kDisconnected.  The kernel takes n units of the message when
\* nothing is queued before it; a write after FIN or RST faults and the message is dropped.
SendInLoop ==
  LET msg == [i \in 1..MsgUnits |-> accepted + i]
      direct == "OUT" \notin ch.events /\ outBuf = <<>>
      faultError == direct /\ (sock.fin \/ sock.rst)
  IN \E n \in IF direct /\ ~faultError THEN 0..MsgUnits ELSE {0} :
       LET rest == IF faultError THEN <<>> ELSE SubSeq(msg, n + 1, MsgUnits)
           crossed == Len(outBuf) < HighWater /\ Len(outBuf \o rest) >= HighWater
       IN /\ accepted' = accepted + MsgUnits
          /\ wire' = wire \o SubSeq(msg, 1, n)
          /\ outBuf' = outBuf \o rest
          /\ ch' = IF rest = <<>> \/ "OUT" \in ch.events THEN ch ELSE Enable(ch, "OUT")
          /\ pend' = pend \o (IF n = MsgUnits THEN <<"writeComplete">> ELSE <<>>)
                          \o (IF crossed THEN <<"highWater">> ELSE <<>>)
          /\ sock' = IF faultError THEN [sock EXCEPT !.err = FALSE] ELSE sock

ShutdownInLoopAtOnce == sock' = [sock EXCEPT !.fin = TRUE]  \* a mutant: does not wait for the buffer

\* shutdownWrite() unless the buffer is being written; handleWrite comes back to it.
ShutdownInLoop == sock' = IF "OUT" \in ch.events THEN sock ELSE [sock EXCEPT !.fin = TRUE]

HandleCloseNoDisable ==  \* a mutant: leaves the channel in the epoll set
  /\ Assert("handleClose", state \in Open)
  /\ state' = "kDisconnected"
  /\ cb' = "down" /\ downs' = downs + 1
  /\ UNCHANGED <<ch, ups>>

\* handleClose, up to the connection callback; AfterDown is the rest.
HandleClose ==
  /\ Assert("handleClose", state \in Open)
  /\ state' = "kDisconnected"
  /\ ch' = DisableAll(ch)
  /\ cb' = "down" /\ downs' = downs + 1
  /\ UNCHANGED ups

----
(* Channel events *)

CloseEvent ==
  /\ Dispatch("close")
  /\ HandleClose
  /\ UNCHANGED <<reading, data, sock, pend, owner, user>>

\* handleError(): getsockopt(SO_ERROR) takes the pending error.
ErrorEvent ==
  /\ Dispatch("error")
  /\ sock' = [sock EXCEPT !.err = FALSE]
  /\ UNCHANGED <<state, reading, ch, data, pend, cb, owner, user, counts, aborted>>

\* handleRead(): data comes first, then a pending error, then the end of the stream.
ReadMessage ==
  /\ Dispatch("read")
  /\ sock.in > 0
  /\ sock' = [sock EXCEPT !.in = 0]
  /\ cb' = "message"
  /\ UNCHANGED <<state, reading, ch, data, pend, owner, user, counts, aborted>>

ReadError ==
  /\ Dispatch("read")
  /\ sock.in = 0 /\ sock.err
  /\ sock' = [sock EXCEPT !.err = FALSE]
  /\ UNCHANGED <<state, reading, ch, data, pend, cb, owner, user, counts, aborted>>

ReadEndAsError ==  \* a mutant: takes the end of the stream for an error
  /\ Dispatch("read")
  /\ sock.in = 0 /\ ~sock.err /\ (sock.peerFin \/ sock.rst)
  /\ UNCHANGED <<state, reading, ch, data, sock, pend, cb, owner, user, counts, aborted>>

ReadEnd ==
  /\ Dispatch("read")
  /\ sock.in = 0 /\ ~sock.err /\ (sock.peerFin \/ sock.rst)
  /\ HandleClose
  /\ UNCHANGED <<reading, data, sock, pend, owner, user>>

WriteSomeNoShutdown ==  \* a mutant: forgets the shutdown that waited for the buffer
  /\ Dispatch("write")
  /\ "OUT" \in ch.events /\ ~sock.rst
  /\ \E n \in 1..Len(outBuf) :
       /\ wire' = wire \o SubSeq(outBuf, 1, n)
       /\ outBuf' = SubSeq(outBuf, n + 1, Len(outBuf))
  /\ ch' = IF outBuf' = <<>> THEN Disable(ch, "OUT") ELSE ch
  /\ UNCHANGED <<state, reading, accepted, sock, pend, cb, owner, user, counts, aborted>>

\* handleWrite() when the channel still waits for room and the kernel takes n units.
WriteSome ==
  /\ Dispatch("write")
  /\ "OUT" \in ch.events /\ ~sock.rst
  /\ \E n \in 1..Len(outBuf) :
       /\ wire' = wire \o SubSeq(outBuf, 1, n)
       /\ outBuf' = SubSeq(outBuf, n + 1, Len(outBuf))
  /\ IF outBuf' = <<>>
       THEN /\ ch' = Disable(ch, "OUT")
            /\ pend' = Append(pend, "writeComplete")
            /\ sock' = IF state = "kDisconnecting" THEN [sock EXCEPT !.fin = TRUE] ELSE sock
       ELSE UNCHANGED <<ch, pend, sock>>
  /\ UNCHANGED <<state, reading, accepted, cb, owner, user, counts, aborted>>

\* handleWrite() when the write fails, or when a handler before it closed the connection.
WriteNothing ==
  /\ Dispatch("write")
  /\ "OUT" \notin ch.events \/ sock.rst
  /\ sock' = [sock EXCEPT !.err = @ /\ "OUT" \notin ch.events]
  /\ UNCHANGED <<state, reading, ch, data, pend, cb, owner, user, counts, aborted>>

----
(* Functors *)

\* connectEstablished()
RunEstablished ==
  /\ TakeFunctor("established")
  /\ Assert("connectEstablished", state = "kConnecting")
  /\ state' = "kConnected"
  /\ ch' = Enable(ch, "IN")
  /\ cb' = "up" /\ ups' = ups + 1
  /\ UNCHANGED <<reading, data, sock, pend, owner, user, downs>>

RunSend ==
  /\ TakeFunctor("send")
  /\ IF state = "kDisconnected" THEN UNCHANGED <<data, ch, pend, sock>> ELSE SendInLoop
  /\ UNCHANGED <<state, reading, cb, owner, user, counts, aborted>>

RunShutdown ==
  /\ TakeFunctor("shutdown")
  /\ ShutdownInLoop
  /\ UNCHANGED <<state, reading, ch, data, pend, cb, owner, user, counts, aborted>>

\* forceCloseInLoop()
RunForceClose ==
  /\ TakeFunctor("forceClose")
  /\ IF state \in Open THEN HandleClose ELSE UNCHANGED <<state, ch, cb, counts, aborted>>
  /\ UNCHANGED <<reading, data, sock, pend, owner, user>>

ConnectDestroyedTwiceDown ==  \* a mutant: reports DOWN whatever the state
  /\ state' = "kDisconnected" /\ ch' = DisableAll(ch) /\ cb' = "destroy" /\ downs' = downs + 1
  /\ UNCHANGED aborted

ConnectDestroyedNoRemove ==  \* a mutant: leaves the channel in channels_
  /\ state' = "kDisconnected" /\ ch' = IF state = "kConnected" THEN DisableAll(ch) ELSE ch
  /\ UNCHANGED <<cb, downs, aborted>>

\* connectDestroyed(): a connection still kConnected is reported DOWN, and its channel removed after
\* the callback (AfterDestroy); one in any other state is only removed.
ConnectDestroyed ==
  IF state = "kConnected"
    THEN /\ state' = "kDisconnected"
         /\ ch' = DisableAll(ch)
         /\ cb' = "destroy" /\ downs' = downs + 1
         /\ UNCHANGED aborted
    ELSE /\ Assert("remove", Removable(ch))
         /\ ch' = Remove(ch)
         /\ UNCHANGED <<state, cb, downs>>

RunDestroyed ==
  /\ TakeFunctor("destroyed")
  /\ ConnectDestroyed
  /\ UNCHANGED <<reading, data, sock, pend, owner, user, ups>>

\* writeCompleteCallback_ and highWaterMarkCallback_ are user code and nothing else.
RunNotice ==
  /\ TakeFunctor("writeComplete") \/ TakeFunctor("highWater")
  /\ UNCHANGED <<state, reading, ch, data, sock, pend, cb, owner, user, counts, aborted>>

----
(* Returns from user callbacks *)

CallbackReturn ==
  /\ cb \in {"up", "message"}
  /\ cb' = "none"
  /\ UNCHANGED <<state, reading, ch, data, sock, pend, run, place, todo, owner, user, counts, aborted>>

\* handleClose's last line: closeCallback_ asks the owner to drop the connection, which asserts that it
\* still has it (removeConnectionInLoop).
AfterDown ==
  /\ cb = "down"
  /\ cb' = "none"
  /\ Assert("removeConnectionInLoop", owner = "holds")
  /\ owner' = IF owner = "holds" THEN "removing" ELSE owner
  /\ UNCHANGED <<state, reading, ch, data, sock, pend, run, place, todo, user, counts>>

AfterDestroy ==
  /\ cb = "destroy"
  /\ cb' = "none"
  /\ Assert("remove", Removable(ch))
  /\ ch' = Remove(ch)
  /\ UNCHANGED <<state, reading, data, sock, pend, run, place, todo, owner, user, counts>>

----
(* Calls of the user *)

\* The I/O thread is in user code: a callback of this connection, or some other callback or functor.
LoopUserCode == cb # "none" \/ place \in {"others", "batch", "functors"}

Call(op) ==
  /\ op \in contract
  /\ calls < MaxCalls /\ calls' = calls + 1
  /\ UNCHANGED <<userRef, contract, upc>>

LoopCall(op) ==
  /\ LoopUserCode
  /\ Call(op)
  /\ UNCHANGED <<owner, loopVars, counts, aborted>>

Send ==
  /\ LoopCall("send")
  /\ state = "kConnected"
  /\ SendInLoop
  /\ UNCHANGED <<state, reading, timer>>

Shutdown ==
  /\ LoopCall("shutdown")
  /\ state = "kConnected"
  /\ state' = "kDisconnecting"
  /\ ShutdownInLoop
  /\ UNCHANGED <<reading, ch, data, pend, timer>>

ForceClose ==
  /\ LoopCall("forceClose")
  /\ state \in Open
  /\ state' = "kDisconnecting"
  /\ pend' = Append(pend, "forceClose")
  /\ UNCHANGED <<reading, ch, data, sock, timer>>

ForceCloseWithDelay ==
  /\ LoopCall("forceCloseWithDelay")
  /\ state \in Open /\ ~timer
  /\ state' = "kDisconnecting"
  /\ timer' = TRUE
  /\ UNCHANGED <<reading, ch, data, pend, sock>>

\* startRead and stopRead do not look at state_: here they are called for a connection that is not
\* down, from its own callbacks, a functor or another channel's callback; not while its own channel's
\* turn in the batch is still to come, when stopRead leads where it does before a forceClose.
FlowCall(op) == LoopCall(op) /\ state \in Open /\ (cb # "none" \/ todo = {})

StartRead ==
  /\ FlowCall("startRead")
  /\ IF reading /\ "IN" \in ch.events
       THEN UNCHANGED <<ch, reading>>
       ELSE ch' = Enable(ch, "IN") /\ reading' = TRUE
  /\ UNCHANGED <<state, data, pend, sock, timer>>

StopRead ==
  /\ FlowCall("stopRead")
  /\ IF reading \/ "IN" \in ch.events
       THEN ch' = Disable(ch, "IN") /\ reading' = FALSE
       ELSE UNCHANGED <<ch, reading>>
  /\ UNCHANGED <<state, data, pend, sock, timer>>

\* The user thread calls send, shutdown or forceClose: it reads state_ ...
OtherTest(op) ==
  /\ upc = "idle" /\ userRef
  /\ op \in contract /\ calls < MaxCalls /\ calls' = calls + 1
  /\ state = "kConnected" \/ (op = "forceCloseOther" /\ state = "kDisconnecting")
  /\ upc' = CASE op = "sendOther" -> "queueSend"
              [] op = "shutdownOther" -> "setShutdown"
              [] op = "forceCloseOther" -> "setForceClose"
  /\ UNCHANGED <<state, reading, ch, data, sock, pend, loopVars, owner, userRef, timer, contract,
                 counts, aborted>>

\* ... then, except in send, stores it ...
OtherSet ==
  /\ upc \in {"setShutdown", "setForceClose"}
  /\ state' = "kDisconnecting"
  /\ upc' = IF upc = "setShutdown" THEN "queueShutdown" ELSE "queueForceClose"
  /\ UNCHANGED <<reading, ch, data, sock, pend, loopVars, owner, userRef, timer, calls, contract,
                 counts, aborted>>

\* ... and queues the rest in the loop.
OtherQueue ==
  /\ upc \in {"queueSend", "queueShutdown", "queueForceClose"}
  /\ pend' = Append(pend, CASE upc = "queueSend" -> "send"
                            [] upc = "queueShutdown" -> "shutdown"
                            [] upc = "queueForceClose" -> "forceClose")
  /\ upc' = "idle"
  /\ UNCHANGED <<state, reading, ch, data, sock, loopVars, owner, userRef, timer, calls, contract,
                 counts, aborted>>

DropRef ==
  /\ "dropRef" \in contract
  /\ userRef /\ upc = "idle"
  /\ userRef' = FALSE
  /\ UNCHANGED <<state, reading, ch, data, sock, pend, loopVars, owner, upc, timer, calls, contract,
                 counts, aborted>>

----
(* Owner, timer and peer *)

\* removeConnectionInLoop() in the owner's loop.
OwnerRemove ==
  /\ owner = "removing"
  /\ owner' = "gone"
  /\ pend' = Append(pend, "destroyed")
  /\ UNCHANGED <<state, reading, ch, data, sock, loopVars, user, counts, aborted>>

\* ~TCPServer() of a server whose loop is the I/O loop, for a connection still in its map: runInLoop
\* calls connectDestroyed at once.  The server goes in a functor or another channel's callback, not in a
\* batch in which this connection is active: there EventLoop::removeChannel asserts (EventLoop.cc:170).
OwnerDtor ==
  /\ "ownerDtor" \in contract
  /\ owner = "holds" /\ state # "kConnecting"
  /\ place \in {"others", "functors"} /\ cb = "none"
  /\ owner' = "gone"
  /\ ConnectDestroyed
  /\ UNCHANGED <<reading, data, sock, pend, run, place, todo, user, ups>>

\* Somebody holds a shared_ptr: the owner, the user, the event's guard, a callback's argument, a functor.
Held ==
  \/ owner # "gone" \/ userRef
  \/ place = "event" \/ cb # "none"
  \/ Range(pend \o run) \cap Owning # {}

\* The timer's callback: the weak pointer is locked and forceClose() called, if the connection is there.
TimerFires ==
  /\ timer /\ place \in {"others", "batch"} /\ cb = "none"
  /\ timer' = FALSE
  /\ IF Held /\ state \in Open
       THEN state' = "kDisconnecting" /\ pend' = Append(pend, "forceClose")
       ELSE UNCHANGED <<state, pend>>
  /\ UNCHANGED <<reading, ch, data, sock, loopVars, owner, userRef, upc, calls, contract, counts, aborted>>

PeerStep(s) ==
  /\ ~sock.rst
  /\ sock' = s
  /\ UNCHANGED <<state, reading, ch, data, pend, loopVars, owner, user, counts, aborted>>

PeerSend == ~sock.peerFin /\ sock.in < MaxIn /\ PeerStep([sock EXCEPT !.in = @ + 1])
PeerClose == ~sock.peerFin /\ PeerStep([sock EXCEPT !.peerFin = TRUE])
PeerReset == ~(sock.fin /\ sock.peerFin) /\ PeerStep([sock EXCEPT !.rst = TRUE, !.err = TRUE])

----

LoopStep ==
  \/ EnterEvent \/ LeaveEvent \/ StartFunctors \/ EndFunctors
  \/ CloseEvent \/ ErrorEvent \/ ReadMessage \/ ReadError \/ ReadEnd \/ WriteSome \/ WriteNothing
  \/ RunEstablished \/ RunSend \/ RunShutdown \/ RunForceClose \/ RunDestroyed \/ RunNotice
  \/ CallbackReturn \/ AfterDown \/ AfterDestroy

UserCall ==
  \/ Send \/ Shutdown \/ ForceClose \/ ForceCloseWithDelay \/ StartRead \/ StopRead
  \/ \E op \in {"sendOther", "shutdownOther", "forceCloseOther"} : OtherTest(op)
  \/ DropRef

OtherStep == OtherSet \/ OtherQueue

Peer == PeerSend \/ PeerClose \/ PeerReset

Next ==
  \/ \E room \in BOOLEAN : Poll(room)
  \/ LoopStep
  \/ UserCall \/ OtherStep
  \/ OwnerRemove \/ OwnerDtor \/ TimerFires
  \/ Peer

Spec == Init /\ [][Next]_vars

(***************************************************************************)
(* Threads take their next step, the owner's loop runs its functors and    *)
(* the timer expires.  Poll(TRUE): a peer that neither closes nor resets   *)
(* keeps reading, so that the socket has room again and again.             *)
(***************************************************************************)
FairSpec ==
  /\ Spec
  /\ WF_vars(LoopStep)
  /\ WF_vars(\E room \in BOOLEAN : Poll(room))
  /\ SF_vars(Poll(TRUE))
  /\ WF_vars(OtherStep)
  /\ WF_vars(OwnerRemove)
  /\ SF_vars(TimerFires)

----
(* Users *)

\* The calls that one user may mix.  From the loop's thread: not stopRead with a forceClose, which takes
\* down a channel that may have no events left (handleClose, 381), nor the end of the server with a call
\* that leaves kConnected, after which connectDestroyed skips disableAll (316).  Another thread may
\* send() beside all of these; its shutdown() only beside what a state_ stored late (194-195: "use
\* compare and swap") cannot bring back to life; its forceClose() can take a connection down twice.
ForceCloses == {"forceClose", "forceCloseWithDelay"}

InLoopUse(c) ==
  /\ "shutdownOther" \notin c /\ "forceCloseOther" \notin c
  /\ "stopRead" \in c => c \cap ForceCloses = {}
  /\ "ownerDtor" \in c => c \cap (ForceCloses \cup {"shutdown"}) = {}

OtherThreadUse(c) == c \subseteq {"send", "shutdown", "shutdownOther", "dropRef"}

Disciplined(c) == InLoopUse(c) \/ OtherThreadUse(c)

----
(* Properties *)

\* No assertion of the code fails: the states handleClose (TCPConnection.cc:378) and connectEstablished
\* (306) expect, the empty event mask of Channel::remove (Channel.cc:62), the map entry of
\* removeConnectionInLoop (TCPServer.cc:101).
AssertsHold == aborted = "no"

\* The kernel is given the stream in the order in which sendInLoop took it, and nothing is lost or
\* written twice while the connection is up, through partial writes and a buffer that fills and drains.
StreamInOrder ==
  LET stream == wire \o outBuf
  IN /\ stream = [i \in 1..Len(stream) |-> i]
     /\ ~sock.rst /\ ~sock.fin => Len(stream) = accepted

\* The channel asks for writability exactly while there is something to write: never a busy loop on a
\* writable socket, never data that nothing will flush.
WritingIffBuffered == downs = 0 => ("OUT" \in ch.events <=> outBuf # <<>>)

\* shutdownWrite() comes after everything that send() took (TCPConnection.cc:192-207, 359-361).
FinAfterData ==
  [][~sock.fin /\ sock.fin' /\ downs = 0 => outBuf' = <<>> /\ (sock.rst \/ Len(wire') = accepted)]_vars

\* The callbacks a user sees: UP once, then messages, then DOWN once (handleClose or connectDestroyed).
Lifecycle ==
  /\ ups <= 1 /\ downs <= ups
  /\ cb = "message" => downs = 0
  /\ state = "kConnected" => ups = 1 /\ downs = 0

\* Another thread's shutdown() stored kDisconnecting after the connection had gone down.
StoredLate == "shutdownOther" \in contract /\ state = "kDisconnecting" /\ downs = 1

\* What ~TCPConnection (TCPConnection.cc:64) and ~Channel (Channel.cc:39) assert when the last
\* shared_ptr goes, whoever drops it; the first fails after a state_ stored late, and only then.
CleanDestruction ==
  ~Held => /\ ~ch.addedToLoop /\ ch.index = "kNew"
           /\ state = "kDisconnected" \/ StoredLate

\* send() is "thread safe" (TCPConnection.cc:116): the functor it queues finds the connection alive.  It
\* binds this: the connection can go between the test of state_ and the functor's turn.
NoUseAfterFree == Range(pend \o run) \cap Raw # {} => Held

\* shutdown() ends in a FIN or in the connection going down: the FIN that a full buffer puts off is sent
\* when the buffer has drained.
ShutdownSendsFin == state = "kDisconnecting" ~> sock.fin \/ downs > 0

\* Every way down is gone to its end.  The end of the stream, or a reset, is noticed and the connection
\* torn down to the last step, unless the user stopped reading (TCPConnection.cc:332, 375); forceClose(),
\* and forceCloseWithDelay() in time, take it down (234-261).
ClosesComplete ==
  /\ (sock.peerFin \/ sock.rst) /\ "stopRead" \notin contract ~> ch.index = "kNew" /\ downs = 1
  /\ "forceClose" \in Range(pend) \/ (timer /\ state \in Open) ~> downs > 0
====
