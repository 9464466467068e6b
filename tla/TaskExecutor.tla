---- MODULE TaskExecutor ----
(***************************************************************************)
(* What EventLoop promises to the code that hands it work: a task accepted *)
(* by queueInLoop is executed by the loop thread at most once, after every *)
(* task accepted before it, and a task given to runInLoop by the loop      *)
(* thread itself is executed on the spot, overtaking the queue.            *)
(*                                                                         *)
(* A task is one call of queueInLoop or runInLoop: the functor object.     *)
(***************************************************************************)
EXTENDS Sequences, Functions

CONSTANT Tasks

VARIABLES
  queue,  \* tasks accepted and not yet started, oldest first
  done    \* tasks the loop thread has started

vars == <<queue, done>>

TypeOK ==
  /\ queue \in Seq(Tasks)
  /\ done \subseteq Tasks

Init ==
  /\ queue = <<>>
  /\ done = {}

\* A task nobody has handed over yet.
Fresh(f) == f \notin done \cup Range(queue)

Submit(f) ==
  /\ Fresh(f)
  /\ queue' = Append(queue, f)
  /\ UNCHANGED done

RunHead ==
  /\ queue # <<>>
  /\ done' = done \cup {Head(queue)}
  /\ queue' = Tail(queue)

RunNow(f) ==
  /\ Fresh(f)
  /\ done' = done \cup {f}
  /\ UNCHANGED queue

Next ==
  \/ RunHead
  \/ \E f \in Tasks : Submit(f) \/ RunNow(f)

Spec == Init /\ [][Next]_vars

\* Every accepted task is in one place: it is not queued twice, and it is not queued again
\* once it was started (the swap of EventLoop.cc:212-215 moves tasks, it does not copy them).
AtMostOnce ==
  /\ \A i, j \in DOMAIN queue : queue[i] = queue[j] => i = j
  /\ Range(queue) \cap done = {}
====
