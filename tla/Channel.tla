---- MODULE Channel ----
(***************************************************************************)
(* A Channel (Channel.h, Channel.cc) and what EPollPoller keeps about it:  *)
(*   events       events_, a subset of {"IN", "OUT"}                       *)
(*   index        kNew, kAdded or kDeleted                                 *)
(*   addedToLoop  addedToLoop_                                             *)
(*   kernel       the events its fd is registered for in the epoll set, or *)
(*                Off when the fd is not in it                             *)
(* Operators over this record; the state machines that own channels use    *)
(* them.                                                                   *)
(***************************************************************************)
EXTENDS Naturals

Events == {"IN", "OUT"}

\* Not an events mask: the fd is not in the epoll set.
Off == {"Off"}

ChannelType ==
  [events : SUBSET Events, index : {"kNew", "kAdded", "kDeleted"},
   addedToLoop : BOOLEAN, kernel : (SUBSET Events) \cup {Off}]

NewChannel == [events |-> {}, index |-> "kNew", addedToLoop |-> FALSE, kernel |-> Off]

\* update(): EPOLL_CTL_ADD for a channel that is not in the epoll set, whatever its events; DEL for one
\* that lost its last event; MOD otherwise.
Update(ch) ==
  IF ch.index = "kAdded" /\ ch.events = {}
    THEN [ch EXCEPT !.index = "kDeleted", !.addedToLoop = TRUE, !.kernel = Off]
    ELSE [ch EXCEPT !.index = "kAdded", !.addedToLoop = TRUE, !.kernel = ch.events]

Enable(ch, event) == Update([ch EXCEPT !.events = @ \cup {event}])
Disable(ch, event) == Update([ch EXCEPT !.events = @ \ {event}])
DisableAll(ch) == Update([ch EXCEPT !.events = {}])

\* remove() asserts this, and so does EPollPoller::removeChannel.
Removable(ch) == ch.events = {} /\ ch.index # "kNew"

\* As a new channel, but with the events_ it had.
Remove(ch) == [NewChannel EXCEPT !.events = ch.events]

\* The events epoll_wait reports of those that are ready: HUP and ERR are reported unasked.
Reported(ch, ready) ==
  IF ch.kernel = Off THEN {} ELSE ready \cap (ch.kernel \cup {"HUP", "ERR"})

\* The callbacks handleEventWithGuard calls for them, in the order of Callbacks.
Callbacks == <<"close", "error", "read", "write">>

CallbacksOf(revents) ==
  {c \in {"close", "error", "read", "write"} :
     CASE c = "close" -> "HUP" \in revents /\ "IN" \notin revents
       [] c = "error" -> "ERR" \in revents
       [] c = "read"  -> "IN" \in revents
       [] c = "write" -> "OUT" \in revents}

\* c is the first callback left in todo.
FirstOf(todo, c) ==
  \E i \in 1..4 : Callbacks[i] = c /\ c \in todo /\ \A j \in 1..(i - 1) : Callbacks[j] \notin todo
====
