---- MODULE Acceptor ----
(***************************************************************************)
(* Acceptor.cc: accepting on the listening socket of a process that has a  *)
(* limited number of descriptors, which other threads open and close too.  *)
(* The loop's thread is in handleRead() while spare is not "rest"; each    *)
(* system call there is a step of its own.                                 *)
(***************************************************************************)
EXTENDS Naturals

CONSTANTS
  MaxFds,   \* the process's limit of descriptors, those of this model
  MaxPeers  \* bound: peers that connect

ASSUME FdsAssumption == MaxFds \in Nat \ {0} /\ MaxPeers \in Nat

VARIABLES
  listenning,  \* listenning_, and the channel enabled
  idleFd,      \* idleFd_: open on /dev/null, a peer's, or -1
  spare,       \* what handleRead() does next about the spare descriptor
  backlog,     \* connections the kernel has completed and nobody accepted
  peers,       \* peers that have connected
  free,        \* descriptors the process may still open
  others,      \* descriptors of other threads
  raced        \* history: another thread took a descriptor given up for a moment

acceptor == <<listenning, idleFd, spare>>
kernel == <<backlog, peers, free, others, raced>>

AcceptorTypeOK ==
  /\ listenning \in BOOLEAN /\ raced \in BOOLEAN
  /\ idleFd \in {"/dev/null", "peer", "closed"}
  /\ spare \in {"rest", "give", "accept", "close", "open"}
  /\ spare = "rest" => idleFd # "peer"
  /\ backlog \in 0..MaxPeers /\ peers \in 0..MaxPeers
  /\ free \in 0..MaxFds /\ others \in 0..MaxFds

\* The constructor.
AcceptorInit ==
  /\ listenning = FALSE
  /\ idleFd = "/dev/null"
  /\ spare = "rest"
  /\ backlog = 0 /\ peers = 0
  /\ free = MaxFds - 1 /\ others = 0
  /\ raced = FALSE

Listen ==
  /\ listenning' = TRUE
  /\ UNCHANGED <<idleFd, spare, kernel>>

\* handleRead() is called while there is a connection to accept.
Readable == listenning /\ spare = "rest" /\ backlog > 0

\* accept() succeeds; the caller passes the descriptor to newConnectionCallback_.
Accept ==
  /\ Readable /\ free > 0
  /\ backlog' = backlog - 1
  /\ free' = free - 1
  /\ UNCHANGED <<acceptor, peers, others, raced>>

\* accept() fails with ECONNABORTED; EAGAIN, EINTR, EPROTO and EPERM change nothing.  The errors that are
\* logged as fatal (Sockets.cc:129-143: ENFILE, ENOBUFS and ENOMEM among them) end the process: no step.
AcceptAborted ==
  /\ Readable
  /\ backlog' = backlog - 1
  /\ UNCHANGED <<acceptor, peers, free, others, raced>>

AcceptEmfileIgnored ==  \* a mutant: returns, without the spare descriptor
  /\ Readable /\ free = 0
  /\ UNCHANGED <<acceptor, kernel>>

\* accept() fails with EMFILE.
AcceptEmfile ==
  /\ Readable /\ free = 0
  /\ spare' = "give"
  /\ UNCHANGED <<listenning, idleFd, kernel>>

CloseIdleFd ==
  /\ spare \in {"give", "close"}
  /\ free' = IF idleFd = "closed" THEN free ELSE free + 1
  /\ idleFd' = "closed"
  /\ spare' = IF spare = "give" THEN "accept" ELSE "open"
  /\ UNCHANGED <<listenning, backlog, peers, others, raced>>

AcceptToIdleFd ==
  /\ spare = "accept"
  /\ spare' = "close"
  /\ IF backlog > 0 /\ free > 0
       THEN idleFd' = "peer" /\ backlog' = backlog - 1 /\ free' = free - 1
       ELSE UNCHANGED <<idleFd, backlog, free>>
  /\ UNCHANGED <<listenning, peers, others, raced>>

OpenIdleFdNever ==  \* a mutant: gives the spare descriptor up for good
  /\ spare = "open"
  /\ spare' = "rest"
  /\ UNCHANGED <<listenning, idleFd, kernel>>

OpenIdleFd ==
  /\ spare = "open"
  /\ spare' = "rest"
  /\ IF free > 0
       THEN idleFd' = "/dev/null" /\ free' = free - 1
       ELSE UNCHANGED <<idleFd, free>>
  /\ UNCHANGED <<listenning, backlog, peers, others, raced>>

HandleReadRest == CloseIdleFd \/ AcceptToIdleFd \/ OpenIdleFd

\* The destructor.
AcceptorDestroyed ==
  /\ listenning' = FALSE
  /\ idleFd' = "closed"
  /\ UNCHANGED spare

----
(* Peers and other threads *)

PeerConnects ==
  /\ listenning /\ peers < MaxPeers
  /\ peers' = peers + 1
  /\ backlog' = backlog + 1
  /\ UNCHANGED <<acceptor, free, others, raced>>

OtherOpens ==
  /\ free > 0
  /\ free' = free - 1
  /\ others' = others + 1
  /\ raced' = (raced \/ spare \in {"accept", "close", "open"})
  /\ UNCHANGED <<acceptor, backlog, peers>>

OtherCloses ==
  /\ others > 0
  /\ free' = free + 1
  /\ others' = others - 1
  /\ UNCHANGED <<acceptor, backlog, peers, raced>>
====
