---- MODULE PollerProofs ----
(***************************************************************************)
(* Poller for any set of channels and any set of fds: index_, channels_    *)
(* and the kernel's epoll set stay in step, and the loop over the active   *)
(* channels never reaches one that is gone.                                *)
(***************************************************************************)
EXTENDS Poller, TLAPS

\* The channel whose handler runs is an active one and will not be handled again.
CurrentHandled == current # NoChannel => current \in active /\ current \notin todo

PInv == TypeOK /\ KernelAgrees /\ MapAgrees /\ ActiveAlive /\ CurrentHandled

----
(* What the operators of Channel return *)

\* A channel after updateChannel(): registered with its own events, or kDeleted and out of the epoll set.
Registered(r) ==
  /\ r.index # "kNew" /\ r.addedToLoop
  /\ r.kernel = IF r.index = "kAdded" THEN r.events ELSE Off

\* updateChannel() leaves a channel registered in the sense above, whatever it was before.
LEMMA UpdateRegisters ==
  ASSUME NEW r \in ChannelType
  PROVE  Update(r) \in ChannelType /\ Registered(Update(r))
<1>1. /\ r.events \in SUBSET Events
      /\ r = [events |-> r.events, index |-> r.index, addedToLoop |-> r.addedToLoop, kernel |-> r.kernel]
  BY DEF ChannelType
<1>2. CASE r.index = "kAdded" /\ r.events = {}
  <2>1. Update(r) = [events |-> r.events, index |-> "kDeleted", addedToLoop |-> TRUE, kernel |-> Off]
    BY <1>1, <1>2 DEF Update
  <2> QED BY <1>1, <2>1 DEF ChannelType, Registered
<1>3. CASE ~(r.index = "kAdded" /\ r.events = {})
  <2>1. Update(r) = [events |-> r.events, index |-> "kAdded", addedToLoop |-> TRUE, kernel |-> r.events]
    BY <1>1, <1>3 DEF Update
  <2> QED BY <1>1, <2>1 DEF ChannelType, Registered
<1> QED BY <1>2, <1>3

\* So do enableReading, enableWriting, disableReading, disableWriting and disableAll.
LEMMA ChangesRegister ==
  ASSUME NEW r \in ChannelType, NEW e \in Events
  PROVE  /\ Enable(r, e) \in ChannelType /\ Registered(Enable(r, e))
         /\ Disable(r, e) \in ChannelType /\ Registered(Disable(r, e))
         /\ DisableAll(r) \in ChannelType /\ Registered(DisableAll(r))
<1>1. [r EXCEPT !.events = @ \cup {e}] \in ChannelType BY DEF ChannelType
<1>2. [r EXCEPT !.events = @ \ {e}] \in ChannelType BY DEF ChannelType
<1>3. [r EXCEPT !.events = {}] \in ChannelType BY DEF ChannelType
<1> QED BY <1>1, <1>2, <1>3, UpdateRegisters DEF Enable, Disable, DisableAll

\* A channel that is registered nowhere.
Unregistered(r) == r.index = "kNew" /\ ~r.addedToLoop /\ r.kernel = Off

\* So is a channel that is new or was removed.
LEMMA FreshChannel ==
  ASSUME NEW r \in ChannelType
  PROVE  /\ NewChannel \in ChannelType /\ Unregistered(NewChannel)
         /\ Remove(r) \in ChannelType /\ Unregistered(Remove(r))
<1>1. NewChannel \in ChannelType /\ Unregistered(NewChannel)
  BY DEF NewChannel, ChannelType, Unregistered
<1>2. Remove(r) \in ChannelType
  BY DEF Remove, NewChannel, ChannelType
<1>3. Remove(r).index = "kNew" /\ Remove(r).kernel = Off /\ ~Remove(r).addedToLoop
  BY DEF Remove, NewChannel, ChannelType
<1> QED BY <1>1, <1>2, <1>3 DEF Unregistered

----
(* The invariant *)

\* What the invariant says of one channel and one fd, in the form in which the steps below use it.
LEMMA InvFacts ==
  ASSUME PInv
  PROVE  /\ \A c \in Channels : ch[c] \in ChannelType
         /\ \A c \in Channels : fd[c] = NoFd => ch[c].index = "kNew"
         /\ \A c \in Channels : ~ch[c].addedToLoop => ch[c].index = "kNew"
         /\ \A c \in todo : c \in Channels /\ ch[c].index # "kNew"
  BY NamesAssumption DEF PInv, TypeOK, MapAgrees, ActiveAlive

\* A new loop has nothing registered.
LEMMA InitInv == Init => PInv
<1> SUFFICES ASSUME Init PROVE PInv
  OBVIOUS
<1>1. NewChannel \in ChannelType BY DEF NewChannel, ChannelType
<1>2. \A c \in Channels : ch[c] = NewChannel /\ fd[c] = NoFd BY DEF Init
<1>3. TypeOK BY <1>1 DEF Init, TypeOK, NotThere, NewChannel
<1>4. KernelAgrees /\ MapAgrees BY <1>2 DEF Init, KernelAgrees, MapAgrees, NewChannel
<1>5. ActiveAlive /\ CurrentHandled BY DEF Init, ActiveAlive, CurrentHandled
<1> QED BY <1>3, <1>4, <1>5 DEF PInv

\* open() and close() of an fd: one that is closed has no channel in channels_.
LEMMA FdSteps ==
  ASSUME PInv, NEW f \in Fds, OpenFd(f) \/ CloseFd(f)
  PROVE  PInv'
<1>1. UNCHANGED <<fd, ch, channels, active, todo, current>>
  BY DEF OpenFd, CloseFd, batch
<1>2. open' \subseteq Fds
  BY DEF OpenFd, CloseFd, PInv, TypeOK
<1>3. \A g \in Fds : channels[g] # NoChannel => epoll'[g] = epoll[g] /\ (g \in open => g \in open')
  BY DEF OpenFd, CloseFd, PInv, TypeOK
<1>4. \A g \in Fds : epoll'[g] = epoll[g] \/ epoll'[g] = NotThere
  BY DEF OpenFd, CloseFd, PInv, TypeOK
<1>5. epoll' \in [Fds -> [events : (SUBSET Events) \cup {Off}, ptr : Channels \cup {NoChannel}]]
  BY DEF OpenFd, CloseFd, PInv, TypeOK, NotThere
<1>6. TypeOK' BY <1>1, <1>2, <1>5 DEF PInv, TypeOK
<1>7. \A c \in Channels : ch[c].index # "kNew" =>
        fd[c] \in Fds /\ epoll'[fd[c]] = epoll[fd[c]] /\ fd[c] \in open'
  BY <1>3, NamesAssumption DEF PInv, TypeOK, MapAgrees
<1>8. MapAgrees' BY <1>1, <1>7 DEF PInv, MapAgrees
<1>9. KernelAgrees' BY <1>1, <1>4, <1>7 DEF PInv, KernelAgrees
<1>10. ActiveAlive' /\ CurrentHandled' BY <1>1 DEF PInv, ActiveAlive, CurrentHandled
<1> QED BY <1>6, <1>8, <1>9, <1>10 DEF PInv

\* A Channel object that comes or goes is registered nowhere.
LEMMA ObjectSteps ==
  ASSUME PInv, NEW c \in Channels, NEW f \in Fds, Construct(c, f) \/ Destroy(c)
  PROVE  PInv'
<1>1. UNCHANGED <<channels, open, epoll, active, todo, current>>
  BY DEF Construct, Destroy, batch
<1>2. ch[c].index = "kNew" /\ c \notin todo /\ current # c
  <2>1. CASE Construct(c, f)
    BY <2>1, InvFacts, NamesAssumption DEF Construct, PInv, ActiveAlive
  <2>2. CASE Destroy(c)
    BY <2>2, InvFacts DEF Destroy
  <2> QED BY <2>1, <2>2
<1>3. ch'[c] \in ChannelType /\ Unregistered(ch'[c])
  <2>1. CASE Construct(c, f)
    BY <2>1, FreshChannel, InvFacts DEF Construct, PInv, TypeOK
  <2>2. CASE Destroy(c)
    BY <2>2, <1>2, InvFacts DEF Destroy, PInv, KernelAgrees, Unregistered
  <2> QED BY <2>1, <2>2
<1>4. /\ ch' \in [Channels -> ChannelType] /\ fd' \in [Channels -> Fds \cup {NoFd}]
      /\ \A d \in Channels \ {c} : ch'[d] = ch[d] /\ fd'[d] = fd[d]
  BY <1>3 DEF Construct, Destroy, PInv, TypeOK
<1>5. TypeOK' BY <1>1, <1>3, <1>4 DEF PInv, TypeOK, Unregistered
<1>6. MapAgrees'
  <2>1. \A g \in Fds : channels[g] # NoChannel => channels[g] \in Channels \ {c}
    BY <1>2 DEF PInv, MapAgrees, TypeOK
  <2> QED BY <1>1, <1>3, <1>4, <2>1 DEF PInv, MapAgrees, Unregistered
<1>7. KernelAgrees' BY <1>1, <1>2, <1>3, <1>4 DEF PInv, KernelAgrees, Unregistered
<1>8. ActiveAlive' /\ CurrentHandled'
  BY <1>1, <1>2, <1>4 DEF PInv, ActiveAlive, CurrentHandled, TypeOK
<1> QED BY <1>5, <1>6, <1>7, <1>8 DEF PInv

\* updateChannel(): the fd was free in channels_ or is the channel's own, so no other channel loses it.
LEMMA UpdateStep ==
  ASSUME PInv, NEW c \in Channels, NEW new \in ChannelType, Registered(new), UpdateChannel(c, new)
  PROVE  PInv'
<1> DEFINE f == fd[c]
<1>1. UNCHANGED <<fd, open, active, todo, current>> /\ f \in open /\ f \in Fds
  BY DEF UpdateChannel, batch, PInv, TypeOK
<1>2. channels[f] \in {NoChannel, c}
  BY DEF UpdateChannel
<1>3. /\ ch' \in [Channels -> ChannelType] /\ ch'[c] = new
      /\ \A d \in Channels \ {c} : ch'[d] = ch[d]
  BY DEF UpdateChannel, PInv, TypeOK
<1>4. /\ channels' \in [Fds -> Channels \cup {NoChannel}] /\ channels'[f] = c
      /\ \A g \in Fds \ {f} : channels'[g] = channels[g]
  BY <1>1 DEF UpdateChannel, PInv, TypeOK
<1>5. KernelEntry(c, new) \in [events : (SUBSET Events) \cup {Off}, ptr : Channels \cup {NoChannel}]
  BY DEF KernelEntry, NotThere, ChannelType
<1>6. /\ epoll' \in [Fds -> [events : (SUBSET Events) \cup {Off}, ptr : Channels \cup {NoChannel}]]
      /\ epoll'[f] = KernelEntry(c, new)
      /\ \A g \in Fds \ {f} : epoll'[g] = epoll[g]
  BY <1>1, <1>5 DEF UpdateChannel, PInv, TypeOK
<1>7. \A d \in Channels \ {c} : ch[d].index # "kNew" => fd[d] \in Fds \ {f}
  BY <1>2, NamesAssumption DEF PInv, MapAgrees, TypeOK
<1>8. TypeOK' BY <1>1, <1>3, <1>4, <1>6 DEF PInv, TypeOK, Registered
<1>9. MapAgrees'
  <2>1. \A d \in Channels : ch'[d].index # "kNew" => fd'[d] \in open' /\ channels'[fd'[d]] = d
    BY <1>1, <1>3, <1>4, <1>7 DEF PInv, MapAgrees
  <2>2. \A g \in Fds \ {f} : channels[g] # NoChannel => channels[g] \in Channels \ {c}
    BY DEF PInv, MapAgrees, TypeOK
  <2>3. \A g \in Fds : channels'[g] # NoChannel => fd'[channels'[g]] = g /\ ch'[channels'[g]].index # "kNew"
    BY <1>1, <1>3, <1>4, <2>2 DEF PInv, MapAgrees, Registered
  <2> QED BY <2>1, <2>3 DEF MapAgrees
<1>10. KernelAgrees'
  <2>1. new.index = "kAdded" => KernelEntry(c, new) = [events |-> new.events, ptr |-> c]
    BY DEF KernelEntry
  <2>2. new.index # "kAdded" => KernelEntry(c, new) = NotThere
    BY DEF KernelEntry
  <2>3. \A d \in Channels :
          /\ ch'[d].index = "kAdded" => epoll'[fd'[d]] = [events |-> ch'[d].events, ptr |-> d]
          /\ ch'[d].kernel = IF ch'[d].index = "kAdded" THEN epoll'[fd'[d]].events ELSE Off
    <3> SUFFICES ASSUME NEW d \in Channels
                 PROVE  /\ ch'[d].index = "kAdded" => epoll'[fd'[d]] = [events |-> ch'[d].events, ptr |-> d]
                        /\ ch'[d].kernel = IF ch'[d].index = "kAdded" THEN epoll'[fd'[d]].events ELSE Off
      OBVIOUS
    <3>1. CASE d = c BY <3>1, <1>1, <1>3, <1>6, <2>1 DEF Registered
    <3>2. CASE d # c BY <3>2, <1>1, <1>3, <1>6, <1>7 DEF PInv, KernelAgrees
    <3> QED BY <3>1, <3>2
  <2>4. \A g \in Fds : epoll'[g] # NotThere =>
          epoll'[g].ptr \in Channels /\ fd'[epoll'[g].ptr] = g /\ ch'[epoll'[g].ptr].index = "kAdded"
    <3> SUFFICES ASSUME NEW g \in Fds, epoll'[g] # NotThere
                 PROVE  /\ epoll'[g].ptr \in Channels /\ fd'[epoll'[g].ptr] = g
                        /\ ch'[epoll'[g].ptr].index = "kAdded"
      OBVIOUS
    <3>1. CASE g = f BY <3>1, <1>1, <1>3, <1>6, <2>1, <2>2
    <3>2. CASE g # f BY <3>2, <1>1, <1>3, <1>6 DEF PInv, KernelAgrees
    <3> QED BY <3>1, <3>2
  <2> QED BY <2>3, <2>4 DEF KernelAgrees
<1>11. ActiveAlive' /\ CurrentHandled'
  BY <1>1, <1>3 DEF PInv, ActiveAlive, CurrentHandled, TypeOK, Registered
<1> QED BY <1>8, <1>9, <1>10, <1>11 DEF PInv

\* removeChannel(): the assertion of EventLoop::removeChannel keeps it from channels still to be handled.
LEMMA RemoveStep ==
  ASSUME PInv, NEW c \in Channels, RemoveChannel(c)
  PROVE  PInv'
<1> DEFINE f == fd[c]
<1>1. UNCHANGED <<fd, open, active, todo, current>>
  BY DEF RemoveChannel, batch
<1>2. ch[c].index # "kNew" /\ f \in Fds /\ channels[f] = c
  BY DEF RemoveChannel, Removable, PInv, TypeOK
<1>3. c \notin todo
  BY DEF RemoveChannel, EventHandling, PInv, CurrentHandled, TypeOK, UserCode
<1>4. ch'[c] \in ChannelType /\ Unregistered(ch'[c])
  BY FreshChannel, InvFacts DEF RemoveChannel, PInv, TypeOK
<1>5. /\ ch' \in [Channels -> ChannelType]
      /\ \A d \in Channels \ {c} : ch'[d] = ch[d]
  BY <1>4 DEF RemoveChannel, PInv, TypeOK
<1>6. /\ channels' \in [Fds -> Channels \cup {NoChannel}] /\ channels'[f] = NoChannel
      /\ \A g \in Fds \ {f} : channels'[g] = channels[g]
  BY <1>2 DEF RemoveChannel, PInv, TypeOK
<1>7. /\ epoll' \in [Fds -> [events : (SUBSET Events) \cup {Off}, ptr : Channels \cup {NoChannel}]]
      /\ epoll'[f] = NotThere
      /\ \A g \in Fds \ {f} : epoll'[g] = epoll[g]
  BY <1>2 DEF RemoveChannel, PInv, TypeOK, NotThere
<1>8. \A d \in Channels \ {c} : ch[d].index # "kNew" => fd[d] \in Fds \ {f}
  BY <1>2, NamesAssumption DEF PInv, MapAgrees, TypeOK
<1>9. TypeOK' BY <1>1, <1>4, <1>5, <1>6, <1>7 DEF PInv, TypeOK, Unregistered
<1>10. MapAgrees'
  <2>1. \A g \in Fds \ {f} : channels[g] # NoChannel => channels[g] \in Channels \ {c}
    BY DEF PInv, MapAgrees, TypeOK
  <2> QED BY <1>1, <1>4, <1>5, <1>6, <1>8, <2>1 DEF PInv, MapAgrees, Unregistered
<1>11. KernelAgrees'
  <2>1. \A g \in Fds \ {f} : epoll[g] # NotThere => epoll[g].ptr \in Channels \ {c}
    BY DEF PInv, KernelAgrees
  <2> QED BY <1>1, <1>4, <1>5, <1>7, <1>8, <2>1 DEF PInv, KernelAgrees, Unregistered
<1>12. ActiveAlive' /\ CurrentHandled'
  BY <1>1, <1>3, <1>5 DEF PInv, ActiveAlive, CurrentHandled, TypeOK
<1> QED BY <1>9, <1>10, <1>11, <1>12 DEF PInv

\* The loop: poll() reports channels that the kernel knows, so registered ones.
LEMMA LoopSteps ==
  ASSUME PInv,
         \/ \E ready \in SUBSET {f \in Fds : epoll[f] # NotThere} : Poll(ready)
         \/ \E c \in Channels : HandleEvent(c)
         \/ HandlerReturn
  PROVE  PInv'
<1>1. UNCHANGED <<fd, ch, channels, open, epoll>>
  BY DEF Poll, HandleEvent, HandlerReturn
<1>2. KernelAgrees' /\ MapAgrees'
  BY <1>1 DEF PInv, KernelAgrees, MapAgrees
<1>3. active' \subseteq Channels /\ todo' \subseteq active' /\ current' \in Channels \cup {NoChannel}
  BY DEF Poll, HandleEvent, HandlerReturn, PInv, TypeOK, KernelAgrees
<1>4. \A c \in todo' : fd[c] # NoFd /\ ch[c].index # "kNew"
  BY NamesAssumption DEF Poll, HandleEvent, HandlerReturn, PInv, TypeOK, KernelAgrees, ActiveAlive
<1>5. current' # NoChannel => fd[current'] # NoFd /\ current' \in active' /\ current' \notin todo'
  BY DEF Poll, HandleEvent, HandlerReturn, PInv, TypeOK, ActiveAlive, CurrentHandled, EventHandling
<1> QED BY <1>1, <1>2, <1>3, <1>4, <1>5 DEF PInv, TypeOK, ActiveAlive, CurrentHandled

\* The invariant is inductive.
LEMMA StepInv == PInv /\ [Next]_vars => PInv'
<1> SUFFICES ASSUME PInv, [Next]_vars PROVE PInv'
  OBVIOUS
<1>1. ASSUME NEW f \in Fds, OpenFd(f) \/ CloseFd(f) PROVE PInv'
  BY <1>1, FdSteps
<1>2. ASSUME NEW c \in Channels, NEW f \in Fds, Construct(c, f) PROVE PInv'
  BY <1>2, ObjectSteps
<1>3. ASSUME NEW c \in Channels, Destroy(c) PROVE PInv'
  <2>1. fd[c] \in Fds BY <1>3 DEF Destroy, PInv, TypeOK
  <2> QED BY <1>3, <2>1, ObjectSteps
<1>4. ASSUME NEW c \in Channels, Change(c) PROVE PInv'
  <2>1. ch[c] \in ChannelType BY InvFacts
  <2> QED BY <1>4, <2>1, ChangesRegister, UpdateStep DEF Change, Events
<1>5. ASSUME NEW c \in Channels, RemoveChannel(c) PROVE PInv'
  BY <1>5, RemoveStep
<1>6. CASE \/ \E ready \in SUBSET {f \in Fds : epoll[f] # NotThere} : Poll(ready)
           \/ \E c \in Channels : HandleEvent(c)
           \/ HandlerReturn
  BY <1>6, LoopSteps
<1>7. CASE UNCHANGED vars
  BY <1>7 DEF vars, PInv, TypeOK, KernelAgrees, MapAgrees, ActiveAlive, CurrentHandled
<1> QED BY <1>1, <1>2, <1>3, <1>4, <1>5, <1>6, <1>7 DEF Next

\* The type invariant of Poller.
THEOREM PollerType == Spec => []TypeOK
<1>1. PInv => TypeOK BY DEF PInv
<1> QED BY <1>1, InitInv, StepInv, PTL DEF Spec

\* index_ and events_ of every channel are what the kernel has: no epoll_ctl of update() can fail and
\* poll() never returns a stale data.ptr, however fds are reused.
THEOREM KernelInStep == Spec => []KernelAgrees
<1>1. PInv => KernelAgrees BY DEF PInv
<1> QED BY <1>1, InitInv, StepInv, PTL DEF Spec

\* channels_ holds the registered channels under their own, open fds: the lookup of poll() and the
\* assertions of updateChannel and removeChannel cannot mistake one channel for another.
THEOREM MapInStep == Spec => []MapAgrees
<1>1. PInv => MapAgrees BY DEF PInv
<1> QED BY <1>1, InitInv, StepInv, PTL DEF Spec

\* The loop over activeChannels_ never calls a channel that was removed or deleted.
THEOREM NoDeadChannel == Spec => []ActiveAlive
<1>1. PInv => ActiveAlive BY DEF PInv
<1> QED BY <1>1, InitInv, StepInv, PTL DEF Spec
====
