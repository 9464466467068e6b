---- MODULE Poller ----
(***************************************************************************)
(* EPollPoller.cc with the loop over active channels of EventLoop::loop(): *)
(* several Channel objects, the map channels_ from fds to channels, the    *)
(* kernel's epoll set, and the list of channels whose event is still to be *)
(* handled.  All of it belongs to the loop's thread; what interleaves is   *)
(* the handlers, which register, remove and delete channels that may be in *)
(* the list.  Channels come and go on the same fd (Connector's channel,    *)
(* then TCPConnection's), and the kernel gives closed fds out again.       *)
(*                                                                         *)
(* The assertions of the code are the contract of its callers and appear   *)
(* as guards.                                                              *)
(***************************************************************************)
EXTENDS Channel

CONSTANTS Channels, Fds

NoFd == "no fd"
NoChannel == "no channel"

ASSUME NamesAssumption == NoFd \notin Fds /\ NoChannel \notin Channels

VARIABLES
  fd,        \* fd_ of each Channel object, NoFd where there is no object
  ch,        \* the Channel objects
  channels,  \* channels_
  open,      \* fds that are open
  epoll,     \* the kernel's epoll set: the events and the data.ptr of each fd, if it is there
  active,    \* activeChannels_ while eventHandling_ is set, {} at other times
  todo,      \* those of active not handled yet
  current    \* currentActiveChannel_ while its handleEvent runs

vars == <<fd, ch, channels, open, epoll, active, todo, current>>

batch == <<active, todo, current>>

NotThere == [events |-> Off, ptr |-> NoChannel]

TypeOK ==
  /\ fd \in [Channels -> Fds \cup {NoFd}]
  /\ ch \in [Channels -> ChannelType]
  /\ channels \in [Fds -> Channels \cup {NoChannel}]
  /\ open \subseteq Fds
  /\ epoll \in [Fds -> [events : (SUBSET Events) \cup {Off}, ptr : Channels \cup {NoChannel}]]
  /\ active \subseteq Channels /\ todo \subseteq active
  /\ current \in Channels \cup {NoChannel}
  /\ \A c \in Channels : ch[c].addedToLoop <=> ch[c].index # "kNew"

Init ==
  /\ fd = [c \in Channels |-> NoFd]
  /\ ch = [c \in Channels |-> NewChannel]
  /\ channels = [f \in Fds |-> NoChannel]
  /\ open = {}
  /\ epoll = [f \in Fds |-> NotThere]
  /\ active = {} /\ todo = {} /\ current = NoChannel

----

\* Code that may touch channels runs in a handler or outside the loop over active channels.
EventHandling == active # {}
UserCode == current # NoChannel \/ ~EventHandling

\* socket(), accept(): the kernel may hand out an fd that was used before.
OpenFd(f) ==
  /\ UserCode /\ f \notin open
  /\ open' = open \cup {f}
  /\ UNCHANGED <<fd, ch, channels, epoll, batch>>

\* close(): by an owner that has removed its channel first.  The kernel drops the fd from its set.
CloseFd(f) ==
  /\ UserCode /\ f \in open /\ channels[f] = NoChannel
  /\ open' = open \ {f}
  /\ epoll' = [epoll EXCEPT ![f] = NotThere]
  /\ UNCHANGED <<fd, ch, channels, batch>>

\* Channel::Channel()
Construct(c, f) ==
  /\ UserCode /\ fd[c] = NoFd /\ f \in open
  /\ fd' = [fd EXCEPT ![c] = f]
  /\ ch' = [ch EXCEPT ![c] = NewChannel]
  /\ UNCHANGED <<channels, open, epoll, batch>>

\* Channel::~Channel() asserts that no handler of it is running and that it is not registered.
Destroy(c) ==
  /\ UserCode /\ fd[c] # NoFd
  /\ current # c /\ ~ch[c].addedToLoop
  /\ fd' = [fd EXCEPT ![c] = NoFd]
  /\ UNCHANGED <<ch, channels, open, epoll, batch>>

KernelEntryStale(c, new) ==  \* a mutant: epoll_ctl before events_ is changed
  IF new.index = "kAdded" THEN [events |-> ch[c].events, ptr |-> c] ELSE NotThere

\* What epoll_ctl makes of the fd's entry when updateChannel has given the channel its new record.
KernelEntry(c, new) ==
  IF new.index = "kAdded" THEN [events |-> new.events, ptr |-> c] ELSE NotThere

\* EPollPoller::updateChannel() of a channel whose events_ became those of new.
UpdateChannel(c, new) ==
  /\ UserCode /\ fd[c] \in open
  /\ channels[fd[c]] = IF ch[c].index = "kNew" THEN NoChannel ELSE c
  /\ ch' = [ch EXCEPT ![c] = new]
  /\ channels' = [channels EXCEPT ![fd[c]] = c]
  /\ epoll' = [epoll EXCEPT ![fd[c]] = KernelEntry(c, new)]
  /\ UNCHANGED <<fd, open, batch>>

Change(c) ==
  \/ \E e \in Events : UpdateChannel(c, Enable(ch[c], e)) \/ UpdateChannel(c, Disable(ch[c], e))
  \/ UpdateChannel(c, DisableAll(ch[c]))

RemoveKeepsAdded(c) ==  \* a mutant: Channel::remove() leaves addedToLoop_ set
  /\ UserCode /\ fd[c] # NoFd
  /\ Removable(ch[c]) /\ channels[fd[c]] = c
  /\ EventHandling => c = current \/ c \notin active
  /\ ch' = [ch EXCEPT ![c] = [Remove(ch[c]) EXCEPT !.addedToLoop = TRUE]]
  /\ channels' = [channels EXCEPT ![fd[c]] = NoChannel]
  /\ epoll' = [epoll EXCEPT ![fd[c]] = NotThere]
  /\ UNCHANGED <<fd, open, batch>>

RemoveKeepsMap(c) ==  \* a mutant: leaves the channel in channels_
  /\ UserCode /\ fd[c] # NoFd
  /\ Removable(ch[c]) /\ channels[fd[c]] = c
  /\ EventHandling => c = current \/ c \notin active
  /\ ch' = [ch EXCEPT ![c] = Remove(ch[c])]
  /\ epoll' = [epoll EXCEPT ![fd[c]] = NotThere]
  /\ UNCHANGED <<fd, channels, open, batch>>

RemoveUnhandled(c) ==  \* a mutant: without the assertion of EventLoop::removeChannel
  /\ UserCode /\ fd[c] # NoFd
  /\ Removable(ch[c]) /\ channels[fd[c]] = c
  /\ ch' = [ch EXCEPT ![c] = Remove(ch[c])]
  /\ channels' = [channels EXCEPT ![fd[c]] = NoChannel]
  /\ epoll' = [epoll EXCEPT ![fd[c]] = NotThere]
  /\ UNCHANGED <<fd, open, batch>>

\* Channel::remove(), EventLoop::removeChannel(), EPollPoller::removeChannel(): not of a channel among
\* the active ones, handled or not, unless it is the one being handled.
RemoveChannel(c) ==
  /\ UserCode /\ fd[c] # NoFd
  /\ Removable(ch[c]) /\ channels[fd[c]] = c
  /\ EventHandling => c = current \/ c \notin active
  /\ ch' = [ch EXCEPT ![c] = Remove(ch[c])]
  /\ channels' = [channels EXCEPT ![fd[c]] = NoChannel]
  /\ epoll' = [epoll EXCEPT ![fd[c]] = NotThere]
  /\ UNCHANGED <<fd, open, batch>>

\* epoll_wait and fillActiveChannels(): any fds of the set may be ready (HUP needs no interest).
Poll(ready) ==
  /\ ~EventHandling
  /\ active' = {epoll[f].ptr : f \in ready} /\ todo' = active'
  /\ UNCHANGED <<fd, ch, channels, open, epoll, current>>

HandleEvent(c) ==
  /\ current = NoChannel
  /\ c \in todo
  /\ todo' = todo \ {c} /\ current' = c
  /\ UNCHANGED <<fd, ch, channels, open, epoll, active>>

\* The last return ends the loop over activeChannels_ and with it eventHandling_.
HandlerReturn ==
  /\ current # NoChannel
  /\ current' = NoChannel
  /\ active' = IF todo = {} THEN {} ELSE active
  /\ UNCHANGED <<fd, ch, channels, open, epoll, todo>>

Next ==
  \/ \E f \in Fds : OpenFd(f) \/ CloseFd(f)
  \/ \E c \in Channels, f \in Fds : Construct(c, f)
  \/ \E c \in Channels : Destroy(c) \/ Change(c) \/ RemoveChannel(c) \/ HandleEvent(c)
  \/ \E ready \in SUBSET {f \in Fds : epoll[f] # NotThere} : Poll(ready)
  \/ HandlerReturn

Spec == Init /\ [][Next]_vars

----
(* Properties *)

\* index_ is what the kernel knows: a channel is kAdded exactly when its fd is in the epoll set, with
\* the channel's own events and its address.  So no epoll_ctl of update() can fail (EEXIST or ENOENT
\* there is LOG_SYSFATAL, EPollPoller.cc:179), and no event is asked for that was disabled.
KernelAgrees ==
  /\ \A c \in Channels :
       ch[c].index = "kAdded" => epoll[fd[c]] = [events |-> ch[c].events, ptr |-> c]
  /\ \A c \in Channels :
       ch[c].kernel = IF ch[c].index = "kAdded" THEN epoll[fd[c]].events ELSE Off
  /\ \A f \in Fds : epoll[f] # NotThere =>
       epoll[f].ptr \in Channels /\ fd[epoll[f].ptr] = f /\ ch[epoll[f].ptr].index = "kAdded"

\* channels_ holds the channels that are kAdded or kDeleted, each under its fd, so that at most one of
\* the Channel objects on an fd is registered; none of them has been deleted, none of the fds closed.
MapAgrees ==
  /\ \A c \in Channels : ch[c].index # "kNew" => fd[c] \in open /\ channels[fd[c]] = c
  /\ \A f \in Fds : channels[f] # NoChannel => fd[channels[f]] = f /\ ch[channels[f]].index # "kNew"

\* The loop calls handleEvent of no channel that was removed or deleted by a handler before it, and the
\* channel whose handler is running is there until the handler returns.
ActiveAlive ==
  /\ \A c \in todo : fd[c] # NoFd /\ ch[c].index # "kNew"
  /\ current # NoChannel => fd[current] # NoFd
====
