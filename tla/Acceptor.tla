------------------------------ MODULE Acceptor ------------------------------
(***************************************************************************)
(* The Acceptor of a TcpServer: its listening socket, the descriptors of   *)
(* the process, and idleFd_, the descriptor kept in reserve for the time   *)
(* when there is no other.                                                 *)
(*                                                                         *)
(* handleRead accepts one connection and hands it to the callback of the   *)
(* server.  When descriptors have run out it frees the reserve, accepts,   *)
(* closes and reserves again, in steps between which other threads run.    *)
(***************************************************************************)
EXTENDS Integers, FiniteSets

CONSTANTS
  Fds,          \* numbers that descriptors can have, apart from those that
                \* are open all the time
  MaxArrivals,  \* bound: clients that connect
  MaxTaken      \* bound: descriptors that other threads of the program open

ASSUME FdsAssumption == Fds \subseteq Nat /\ IsFiniteSet(Fds) /\ Fds # {}
ASSUME ArrivalsAssumption == {MaxArrivals, MaxTaken} \subseteq Nat

VARIABLES
  open,        \* the owner of every open descriptor
  idleFd_,
  listenning_,
  backlog,     \* clients that wait in the listening socket
  arrivals,    \* clients that have connected
  apc,         \* where handleRead is: at rest, or with the reserve closed,
               \* in use for a client, or closed again
  taken,       \* descriptors that other threads have opened and not closed
  stolen       \* history: has another thread, or another process, got what
               \* the Acceptor had closed to use it?

acceptorVars == <<open, idleFd_, listenning_, backlog, arrivals, apc, taken, stolen>>

NoFd == -1
\* Owners of descriptors; a connection owns its own under its number.
Idle == -1
Other == -2
Free == Fds \ DOMAIN open
\* A new descriptor has the lowest number that is free.
Lowest(fd) == fd \in Free /\ \A other \in Free : fd <= other
Open(fd, who) == [f \in DOMAIN open \cup {fd} |-> IF f = fd THEN who ELSE open[f]]
Closed(fds) == [f \in DOMAIN open \ fds |-> open[f]]

AcceptorTypeOK ==
  /\ DOMAIN open \subseteq Fds /\ open \in [DOMAIN open -> Int]
  /\ idleFd_ \in Fds \cup {NoFd}
  /\ listenning_ \in BOOLEAN
  /\ backlog \in 0..MaxArrivals /\ arrivals \in 0..MaxArrivals
  /\ apc \in {"rest", "closed", "accepted", "closedAgain"}
  /\ taken \subseteq Fds
  /\ stolen \in BOOLEAN

\* The constructor has opened /dev/null.
AcceptorInit ==
  /\ idleFd_ \in Fds /\ \A other \in Fds : idleFd_ <= other
  /\ open = [fd \in {idleFd_} |-> Idle]
  /\ listenning_ = FALSE
  /\ backlog = 0 /\ arrivals = 0
  /\ apc = "rest" /\ taken = {} /\ stolen = FALSE

-----------------------------------------------------------------------------
(* The rest of the world: clients, and threads that open and close files.  *)

ClientConnects ==
  /\ listenning_ /\ arrivals < MaxArrivals
  /\ arrivals' = arrivals + 1
  /\ backlog' = backlog + 1
  /\ UNCHANGED <<open, idleFd_, listenning_, apc, taken, stolen>>

\* The Acceptor has closed its descriptor and has none in its place.
Lent == apc \in {"closed", "closedAgain"} \/ (apc = "accepted" /\ idleFd_ = NoFd)

OtherOpens ==
  /\ Cardinality(taken) < MaxTaken
  /\ \E fd \in Fds : /\ Lowest(fd)
                     /\ open' = Open(fd, Other)
                     /\ taken' = taken \cup {fd}
  /\ stolen' = (stolen \/ Lent)
  /\ UNCHANGED <<idleFd_, listenning_, backlog, arrivals, apc>>

\* A thread closes a descriptor that it believes to be its own.
OtherCloses ==
  /\ \E fd \in taken : open' = Closed({fd}) /\ taken' = taken \ {fd}
  /\ UNCHANGED <<idleFd_, listenning_, backlog, arrivals, apc, stolen>>

\* A number is free but the system has no more files, or no memory: another
\* process has taken the place.
SystemFull == Free # {} /\ stolen' = TRUE

-----------------------------------------------------------------------------
Listen ==
  /\ listenning_' = TRUE
  /\ UNCHANGED <<open, idleFd_, backlog, arrivals, apc, taken, stolen>>

\* The Channel of the listening socket is readable.
Readable == listenning_ /\ apc = "rest" /\ backlog > 0

\* sockets::accept succeeds: the callback gets a new descriptor, owned by
\* connection c.
AcceptNew(c, connfd) ==
  /\ Readable /\ Lowest(connfd)
  /\ open' = Open(connfd, c)
  /\ backlog' = backlog - 1
  /\ UNCHANGED <<idleFd_, listenning_, arrivals, apc, taken, stolen>>

\* It fails with an error that sockets::accept expects, but for EMFILE: the
\* client is gone.  (With EAGAIN or EINTR nothing changes; the other errors
\* are LOG_FATAL, and the process ends.)
AcceptFails ==
  /\ Readable /\ Free # {}
  /\ backlog' = backlog - 1
  /\ UNCHANGED <<open, idleFd_, listenning_, arrivals, apc, taken, stolen>>

\* Does not close the reserve.
MutKeepIdle ==
  /\ Readable /\ Free = {}
  /\ apc' = "closed"
  /\ UNCHANGED <<open, idleFd_, listenning_, backlog, arrivals, taken, stolen>>

\* It fails with EMFILE: close(idleFd_), which does nothing to -1.
CloseIdle ==
  /\ Readable /\ Free = {}
  /\ open' = Closed({idleFd_})
  /\ apc' = "closed"
  /\ UNCHANGED <<idleFd_, listenning_, backlog, arrivals, taken, stolen>>

\* Keeps the number of the descriptor that was closed, unless accept
\* succeeds.
MutKeepNumber ==
  /\ apc = "closed"
  /\ \/ /\ backlog > 0
        /\ \E fd \in Fds : Lowest(fd) /\ idleFd_' = fd /\ open' = Open(fd, Idle)
        /\ backlog' = backlog - 1
     \/ Free = {} /\ UNCHANGED <<open, idleFd_, backlog>>
  /\ apc' = "accepted"
  /\ UNCHANGED <<listenning_, arrivals, taken, stolen>>

\* idleFd_ = accept(...), which fails when another thread has the number,
\* when the client is gone, and when the system has no more files.
AcceptIdle ==
  /\ apc = "closed"
  /\ \/ /\ backlog > 0
        /\ \E fd \in Fds : Lowest(fd) /\ idleFd_' = fd /\ open' = Open(fd, Idle)
        /\ backlog' = backlog - 1
        /\ UNCHANGED stolen
     \/ /\ idleFd_' = NoFd /\ UNCHANGED open
        /\ \/ Free = {} /\ UNCHANGED <<backlog, stolen>>
           \/ Free # {} /\ backlog > 0 /\ backlog' = backlog - 1 /\ UNCHANGED stolen
           \/ SystemFull /\ UNCHANGED backlog
  /\ apc' = "accepted"
  /\ UNCHANGED <<listenning_, arrivals, taken>>

\* close(idleFd_).
CloseAccepted ==
  /\ apc = "accepted"
  /\ open' = Closed({idleFd_})
  /\ apc' = "closedAgain"
  /\ UNCHANGED <<idleFd_, listenning_, backlog, arrivals, taken, stolen>>

\* The reserve is not opened again.
MutNoReopen ==
  /\ apc = "closedAgain"
  /\ idleFd_' = NoFd /\ apc' = "rest"
  /\ UNCHANGED <<open, listenning_, backlog, arrivals, taken, stolen>>

\* idleFd_ = open("/dev/null").
Reopen ==
  /\ apc = "closedAgain"
  /\ \/ /\ \E fd \in Fds : Lowest(fd) /\ idleFd_' = fd /\ open' = Open(fd, Idle)
        /\ UNCHANGED stolen
     \/ /\ idleFd_' = NoFd /\ UNCHANGED open
        /\ (Free = {} /\ UNCHANGED stolen) \/ SystemFull
  /\ apc' = "rest"
  /\ UNCHANGED <<listenning_, backlog, arrivals, taken>>

\* Forgets the reserve.
MutLeakIdle(sockets) ==
  /\ apc = "rest"
  /\ open' = Closed(sockets)
  /\ idleFd_' = NoFd
  /\ listenning_' = FALSE
  /\ backlog' = 0
  /\ UNCHANGED <<arrivals, apc, taken, stolen>>

\* ~Acceptor: the clients that wait are reset when the socket is closed.
\* Sockets of connections are closed in the same step.
CloseAcceptor(sockets) ==
  /\ apc = "rest"
  /\ open' = Closed({idleFd_} \cup sockets)
  /\ idleFd_' = NoFd
  /\ listenning_' = FALSE
  /\ backlog' = 0
  /\ UNCHANGED <<arrivals, apc, taken, stolen>>

-----------------------------------------------------------------------------
(* A descriptor of the process is in reserve whenever the loop is not in   *)
(* the middle of using it, so that the next client can be refused when     *)
(* descriptors run out (the end of handleRead); unless another thread or   *)
(* process got it in between.                                              *)
IdleReserved ==
  listenning_ /\ apc = "rest" /\ ~stolen =>
    idleFd_ \in DOMAIN open /\ open[idleFd_] = Idle
=============================================================================
