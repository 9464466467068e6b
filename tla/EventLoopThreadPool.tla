---- MODULE EventLoopThreadPool ----
(***************************************************************************)
(* EventLoopThreadPool.cc: which loop a connection is given.  Loops are    *)
(* numbered, 0 is baseLoop_ and 1..numThreads_ are loops_, in the order in *)
(* which start() created them.                                             *)
(***************************************************************************)
EXTENDS Naturals

VARIABLES
  numThreads,  \* numThreads_, and after start() the length of loops_
  next         \* next_

pool == <<numThreads, next>>

PoolTypeOK == numThreads \in Nat /\ next \in Nat /\ (next = 0 \/ next < numThreads)

NextLoop == IF numThreads = 0 THEN 0 ELSE next + 1

AdvanceLate ==  \* a mutant: runs past the last loop
  next' = IF next >= numThreads THEN 0 ELSE next + 1

\* getNextLoop(): hands out NextLoop and advances next_ round the loops.
Advance ==
  next' = IF next + 1 >= numThreads THEN 0 ELSE next + 1
====
