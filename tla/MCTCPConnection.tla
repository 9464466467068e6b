---- MODULE MCTCPConnection ----
(***************************************************************************)
(* Users of one connection, for TLC.  Each contract is a set of calls that *)
(* one program may mix on a connection; a run picks one and keeps to it.   *)
(***************************************************************************)
EXTENDS TCPConnection

\* All calls from the I/O thread; the connection is released afterwards.
LoopUser == {"send", "shutdown", "forceClose", "dropRef"}
DelayUser == {"send", "forceCloseWithDelay", "forceClose", "dropRef"}
\* Flow control, without forceClose.
FlowUser == {"send", "shutdown", "startRead", "stopRead", "dropRef"}
\* The server goes away under an open connection that nobody else closes on this side.
ServerExit == {"send", "ownerDtor", "dropRef"}
\* Calls from another thread, which lets its TCPConnectionPtr go in the end.
OtherSender == {"send", "sendOther", "dropRef"}
OtherCloser == {"send", "shutdownOther", "dropRef"}

CleanContracts == {LoopUser, DelayUser, FlowUser, ServerExit, OtherSender, OtherCloser}
\* They are users of the kind that the theorems on TCPConnection speak of.
ASSUME CleanAssumption == \A c \in CleanContracts : Disciplined(c)

\* stopRead, then forceClose.
StopThenClose == {{"stopRead", "forceClose"}}

\* Another thread sends and then releases its TCPConnectionPtr.
SendAndRelease == {{"sendOther", "dropRef"}}

\* The server goes away under a connection that was shut down and is not closed by the peer yet.
ShutdownThenExit == {{"shutdown", "ownerDtor"}}
====
