----------------------------- MODULE TcpServer ------------------------------
(***************************************************************************)
(* A TcpServer with its Acceptor, the loops of its thread pool, and the    *)
(* connections in its map; threads that call start(), users that keep a    *)
(* TcpConnectionPtr, and the end of the server.                            *)
(*                                                                         *)
(* The loops are the FIFO executors of FunctorQueue.  A connection is      *)
(* reduced to the life that ConnLife describes and TcpConnection           *)
(* implements.  Connections are numbered by nextConnId_, which makes their *)
(* names.  A failed assert, and the use of a freed object, end the         *)
(* program: failed.                                                        *)
(***************************************************************************)
EXTENDS Acceptor, Sequences, Functions, Lists

CONSTANTS
  Pools,     \* the loops of the thread pool, in order; none: all on the base
  Starters   \* threads that call start(); that of the base loop is Base

Base == "base"
ASSUME PoolsAssumption ==
  \A p \in Pools : p \in Seq(Range(p)) /\ Base \notin Range(p)

VARIABLES
  pool,          \* the loops that setThreadNum has asked for
  started_,
  starting,      \* threads between the exchange of started_ and its end
  next_,         \* of the pool: connections given to its loops so far
  nextConnId_,
  connections_,  \* the map: numbers of connections
  conn,          \* all connections made: loop, socket_, life, and is the
                 \* Channel registered?
  functors,      \* pendingFunctors_ of every loop
  closing,       \* the connection whose handleClose a loop is in, or NoConn
  held,          \* connections of which users keep a TcpConnectionPtr
  alive,         \* has the server not been destroyed?
  crossed,       \* history: did its end cross a call that is under way?
  failed

serverVars == <<pool, started_, starting, next_, nextConnId_, alive>>
connVars == <<connections_, conn, functors, closing, held>>
vars == <<acceptorVars, serverVars, connVars, crossed, failed>>

Loops == {Base} \cup Range(pool)
NoConn == 0
Conns == DOMAIN conn
Do(op, c) == [op |-> op, conn |-> c]

TypeOK ==
  /\ AcceptorTypeOK
  /\ pool \in Pools
  /\ started_ \in BOOLEAN /\ starting \subseteq Starters
  /\ next_ \in Nat /\ nextConnId_ \in 1..(MaxArrivals + 1)
  /\ Conns = 1..(nextConnId_ - 1)
  /\ conn \in [Conns -> [loop : Loops, fd : Fds, registered : BOOLEAN,
                         life : {"connecting", "connected", "disconnected", "freed"}]]
  /\ connections_ \subseteq Conns /\ held \subseteq Conns
  /\ functors \in [Loops -> Seq(
       [op : {"listen", "connectEstablished", "connectDestroyed", "removeConnectionInLoop"},
        conn : Conns \cup {NoConn}])]
  /\ closing \in [Loops -> Conns \cup {NoConn}]
  /\ alive \in BOOLEAN /\ crossed \in BOOLEAN
  /\ failed \subseteq {"start", "listen", "removeConnection", "server"}

Init ==
  /\ AcceptorInit
  /\ pool \in Pools
  /\ started_ = FALSE /\ starting = {}
  /\ next_ = 0 /\ nextConnId_ = 1
  /\ connections_ = {} /\ conn = <<>> /\ held = {}
  /\ functors = [l \in Loops |-> <<>>]
  /\ closing = [l \in Loops |-> NoConn]
  /\ alive = TRUE /\ crossed = FALSE /\ failed = {}

\* Nothing runs on loop l, so that it calls the next callback.
AtRest(l) == closing[l] = NoConn /\ (l = Base => apc = "rest" /\ Base \notin starting)

Queue(l, functor) == [functors EXCEPT ![l] = Append(@, functor)]
CallFunctor(l, op) == AtRest(l) /\ functors[l] # <<>> /\ Head(functors[l]).op = op
Called(l) == [functors EXCEPT ![l] = Tail(@)]

HasFunctor(op, c) == \E l \in Loops : Do(op, c) \in Range(functors[l])

\* The map, users, functors and a running handler hold a TcpConnectionPtr.
Referenced(c) ==
  \/ c \in connections_ \cup held
  \/ \E l \in Loops : closing[l] = c
  \/ \E op \in {"connectEstablished", "connectDestroyed", "removeConnectionInLoop"} :
       HasFunctor(op, c)

-----------------------------------------------------------------------------
(* start() on any thread, that of the base loop included.                  *)

\* Tests started_, and sets it with the rest of start.
MutTestStarted(t) ==
  /\ alive /\ t \notin starting /\ (t = Base => AtRest(Base)) /\ ~started_
  /\ starting' = starting \cup {t}
  /\ UNCHANGED <<acceptorVars, pool, started_, next_, nextConnId_, alive, connVars,
                 crossed, failed>>

ExchangeStarted(t) ==
  /\ alive /\ t \notin starting /\ (t = Base => AtRest(Base)) /\ ~started_
  /\ started_' = TRUE
  /\ starting' = starting \cup {t}
  /\ UNCHANGED <<acceptorVars, pool, next_, nextConnId_, alive, connVars, crossed, failed>>

\* The rest of it: the threads of the pool, the assert and runInLoop, which
\* calls Acceptor::listen at once on the base loop's thread.
start(t) ==
  /\ t \in starting
  /\ starting' = starting \ {t}
  /\ started_' = TRUE
  /\ \/ /\ ~alive \/ listenning_
        /\ failed' = failed \cup {"start"}
        /\ UNCHANGED <<acceptorVars, functors>>
     \/ /\ alive /\ ~listenning_
        /\ \/ t = Base /\ Listen /\ UNCHANGED functors
           \/ /\ t # Base /\ functors' = Queue(Base, Do("listen", NoConn))
              /\ UNCHANGED acceptorVars
        /\ UNCHANGED failed
  /\ UNCHANGED <<pool, next_, nextConnId_, alive, connections_, conn, closing, held, crossed>>

listen ==
  /\ CallFunctor(Base, "listen")
  /\ functors' = Called(Base)
  /\ \/ alive /\ Listen /\ UNCHANGED failed
     \/ ~alive /\ failed' = failed \cup {"listen"} /\ UNCHANGED acceptorVars
  /\ UNCHANGED <<serverVars, connections_, conn, closing, held, crossed>>

-----------------------------------------------------------------------------
(* The base loop accepts connections.                                      *)

\* EventLoopThreadPool::getNextLoop.
getNextLoop == IF pool = <<>> THEN Base ELSE pool[(next_ % Len(pool)) + 1]

NewTcpConnection(loop, fd) ==
  [loop |-> loop, fd |-> fd, registered |-> loop = Base,
   life |-> IF loop = Base THEN "connected" ELSE "connecting"]

\* The next connection has the same name.
MutSameName(c, sockfd) ==
  /\ next_' = next_ + 1
  /\ connections_' = connections_ \cup {c}
  /\ conn' = Append(conn, NewTcpConnection(getNextLoop, sockfd))
  /\ functors' = IF getNextLoop = Base THEN functors
                 ELSE Queue(getNextLoop, Do("connectEstablished", c))
  /\ UNCHANGED nextConnId_

\* runInLoop calls connectEstablished at once when the loop is the base.
newConnection(c, sockfd) ==
  /\ next_' = next_ + 1
  /\ nextConnId_' = nextConnId_ + 1
  /\ connections_' = connections_ \cup {c}
  /\ conn' = Append(conn, NewTcpConnection(getNextLoop, sockfd))
  /\ functors' = IF getNextLoop = Base THEN functors
                 ELSE Queue(getNextLoop, Do("connectEstablished", c))

handleRead ==
  /\ alive /\ AtRest(Base)
  /\ \/ /\ \E connfd \in Fds : /\ AcceptNew(nextConnId_, connfd)
                                /\ newConnection(nextConnId_, connfd)
        /\ UNCHANGED <<pool, started_, starting, alive, closing, held>>
     \/ AcceptFails /\ UNCHANGED <<serverVars, connVars>>
     \/ CloseIdle /\ UNCHANGED <<serverVars, connVars>>
  /\ UNCHANGED <<crossed, failed>>

\* The EMFILE branch goes on.
handleReadRest ==
  /\ AcceptIdle \/ CloseAccepted \/ Reopen
  /\ UNCHANGED <<serverVars, connVars, crossed, failed>>

-----------------------------------------------------------------------------
(* The loops of the connections.                                           *)

connectEstablished(l) ==
  /\ CallFunctor(l, "connectEstablished")
  /\ functors' = Called(l)
  /\ conn' = [conn EXCEPT ![Head(functors[l]).conn].life = "connected",
                         ![Head(functors[l]).conn].registered = TRUE]
  /\ UNCHANGED <<acceptorVars, serverVars, connections_, closing, held, crossed, failed>>

\* handleClose up to the closeCallback_.
handleClose(c) ==
  LET l == conn[c].loop
  IN  /\ AtRest(l) /\ conn[c].life = "connected"
      /\ conn' = [conn EXCEPT ![c].life = "disconnected"]
      /\ closing' = [closing EXCEPT ![l] = c]
      /\ crossed' = (crossed \/ ~alive)
      /\ UNCHANGED <<acceptorVars, serverVars, connections_, functors, held, failed>>

\* Leaves c to the last pointer.
MutEraseOnly(c, queues) ==
  /\ connections_' = connections_ \ {c}
  /\ functors' = queues
  /\ UNCHANGED failed

\* Erases c and has its loop, whose functors are queues, destroy it.
Erase(c, queues) ==
  \/ /\ c \notin connections_
     /\ failed' = failed \cup {"removeConnection"}
     /\ functors' = queues
     /\ UNCHANGED connections_
  \/ /\ c \in connections_
     /\ connections_' = connections_ \ {c}
     /\ functors' = [queues EXCEPT ![conn[c].loop] = Append(@, Do("connectDestroyed", c))]
     /\ UNCHANGED failed

\* closeCallback_, on loop l; it runs in the base loop or queues to it.
removeConnection(l) ==
  LET c == closing[l]
  IN  /\ c # NoConn
      /\ closing' = [closing EXCEPT ![l] = NoConn]
      /\ \/ /\ ~alive
            /\ failed' = failed \cup {"server"}
            /\ UNCHANGED <<functors, connections_>>
         \/ alive /\ l = Base /\ Erase(c, functors)
         \/ /\ alive /\ l # Base
            /\ functors' = Queue(Base, Do("removeConnectionInLoop", c))
            /\ UNCHANGED <<failed, connections_>>
      /\ UNCHANGED <<acceptorVars, serverVars, conn, held, crossed>>

removeConnectionInLoop ==
  /\ CallFunctor(Base, "removeConnectionInLoop")
  /\ \/ alive /\ Erase(Head(functors[Base]).conn, Called(Base))
     \/ /\ ~alive
        /\ failed' = failed \cup {"server"}
        /\ functors' = Called(Base)
        /\ UNCHANGED connections_
  /\ UNCHANGED <<acceptorVars, serverVars, conn, closing, held, crossed>>

\* The connections of cs that nothing refers to after the step: it frees
\* them, which closes their sockets.
LastReferenceGone(cs) == {c \in cs : ~Referenced(c)'}

Ended(cs, freed) ==
  [c \in Conns |->
     IF c \notin cs THEN conn[c]
     ELSE [conn[c] EXCEPT !.registered = FALSE,
                          !.life = IF c \in freed THEN "freed" ELSE "disconnected"]]

connectDestroyed(l) ==
  /\ CallFunctor(l, "connectDestroyed")
  /\ functors' = Called(l)
  /\ UNCHANGED <<serverVars, connections_, closing, held>>
  /\ LET c == Head(functors[l]).conn
         freed == LastReferenceGone({c})
     IN  /\ conn' = Ended({c}, freed)
         /\ open' = Closed({conn[f].fd : f \in freed})
  /\ UNCHANGED <<idleFd_, listenning_, backlog, arrivals, apc, taken, stolen,
                 crossed, failed>>

-----------------------------------------------------------------------------
(* Users, and the end of the server.                                       *)

Hold(c) ==
  /\ conn[c].life = "connected"
  /\ held' = held \cup {c}
  /\ UNCHANGED <<acceptorVars, serverVars, connections_, conn, functors, closing,
                 crossed, failed>>

Release(c) ==
  /\ c \in held
  /\ held' = held \ {c}
  /\ UNCHANGED <<serverVars, connections_, functors, closing>>
  /\ LET freed == LastReferenceGone({c})
     IN  /\ conn' = [conn EXCEPT ![c].life = IF c \in freed THEN "freed" ELSE @]
         /\ open' = Closed({conn[f].fd : f \in freed})
  /\ UNCHANGED <<idleFd_, listenning_, backlog, arrivals, apc, taken, stolen,
                 crossed, failed>>

\* What the loop over the map queues to another loop l: connectDestroyed for
\* its connections.  The map is sorted by name, which may be any order.
DestroyElsewhere(l) ==
  Orders({Do("connectDestroyed", c) :
            c \in {d \in connections_ : conn[d].loop = l /\ l # Base}}, nextConnId_)

\* ~TcpServer, on the base loop: runInLoop calls connectDestroyed at once for
\* the connections of that loop.
DestroyServer ==
  LET here == {c \in connections_ : conn[c].loop = Base}
  IN  /\ alive /\ AtRest(Base)
      /\ alive' = FALSE
      /\ connections_' = {}
      /\ \E there \in [Loops -> UNION {DestroyElsewhere(l) : l \in Loops}] :
           /\ \A l \in Loops : there[l] \in DestroyElsewhere(l)
           /\ functors' = [l \in Loops |-> functors[l] \o there[l]]
      /\ UNCHANGED <<pool, closing, held>>
      /\ LET freed == LastReferenceGone(here)
         IN  /\ conn' = Ended(here, freed)
             /\ CloseAcceptor({conn[c].fd : c \in freed})
      /\ crossed' = \/ crossed \/ starting # {} \/ HasFunctor("listen", NoConn)
                    \/ \E c \in Conns : HasFunctor("removeConnectionInLoop", c)
                    \/ \E c \in connections_ : conn[c].life = "disconnected"
      /\ UNCHANGED <<started_, starting, next_, nextConnId_, failed>>

-----------------------------------------------------------------------------
FunctorStep(l) ==
  \/ connectEstablished(l)
  \/ connectDestroyed(l)
  \/ l = Base /\ (listen \/ removeConnectionInLoop)

HandlerStep(l) == removeConnection(l) \/ (l = Base /\ handleReadRest)

Environment ==
  ClientConnects \/ OtherOpens \/ OtherCloses

Next ==
  /\ failed = {}
  /\ \/ \E t \in Starters : ExchangeStarted(t) \/ start(t)
     \/ \E l \in Loops : FunctorStep(l) \/ HandlerStep(l)
     \/ handleRead
     \/ \E c \in Conns : handleClose(c) \/ Hold(c) \/ Release(c)
     \/ DestroyServer
     \/ Environment /\ UNCHANGED <<serverVars, connVars, crossed, failed>>

Spec == Init /\ [][Next]_vars

(***************************************************************************)
(* Fairness: the loops run their functors and handlers, threads finish     *)
(* start(), and users give up the pointers that they keep.  Nothing is     *)
(* assumed of clients or of threads that open files.                       *)
(***************************************************************************)
AllLoops == {Base} \cup UNION {Range(p) : p \in Pools}

FairSpec ==
  /\ Spec
  /\ \A l \in AllLoops : /\ SF_vars(failed = {} /\ l \in Loops /\ FunctorStep(l))
                         /\ WF_vars(failed = {} /\ l \in Loops /\ HandlerStep(l))
  /\ WF_vars(failed = {} /\ \E t \in Starters : start(t))
  /\ SF_vars(failed = {} /\ handleRead)
  /\ \A c \in 1..MaxArrivals : WF_vars(failed = {} /\ c \in Conns /\ Release(c))

-----------------------------------------------------------------------------
(* Every descriptor is the one that its owner knows, and every owner has   *)
(* its descriptor: no socket leaks, and handleRead, ~Socket and ~Acceptor  *)
(* close none that has become somebody else's, though numbers are used     *)
(* again: what other threads have opened and not closed is open, and is    *)
(* theirs.                                                                 *)
FdsOwned ==
  /\ taken = {fd \in DOMAIN open : open[fd] = Other}
  /\ \A fd \in DOMAIN open :
       /\ open[fd] = Idle => fd = idleFd_
       /\ open[fd] \in Conns => conn[open[fd]].fd = fd /\ conn[open[fd]].life # "freed"
  /\ \A c \in Conns :
       conn[c].life # "freed" => conn[c].fd \in DOMAIN open /\ open[conn[c].fd] = c

(* The asserts of start and removeConnectionInLoop hold and nobody uses a  *)
(* server that is gone, however often and on whatever threads start() is   *)
(* called, unless the end of the server crosses a call.                    *)
AssertsHold == ~crossed => failed = {}

(* Clients do not wait for ever: they are accepted, or refused when        *)
(* descriptors have run out (the EMFILE branch of handleRead); unless      *)
(* another thread or process got the descriptor in reserve.                *)
BacklogDrains == backlog > 0 ~> backlog = 0 \/ stolen

(* When the server has ended all its connections are destroyed and all     *)
(* their descriptors closed (~TcpServer).                                  *)
EndClosesAll == ~alive ~> crossed \/ DOMAIN open = taken

LifeOf(c) == INSTANCE ConnLife WITH
  life <- IF c \in Conns THEN conn[c].life ELSE "connecting",
  owner <- IF c \in connections_ \/ c \notin Conns THEN "map"
           ELSE IF HasFunctor("connectDestroyed", c) THEN "destroy" ELSE "none",
  asked <- HasFunctor("removeConnectionInLoop", c) \/ \E l \in Loops : closing[l] = c,
  registered <- c \in Conns /\ conn[c].registered,
  crossed <- crossed

(* Each of the connections lives the life that TcpConnection implements.   *)
ConnectionsLive ==
  /\ \A c \in 1..MaxArrivals : LifeOf(c)!Init
  /\ [][\A c \in 1..MaxArrivals : [LifeOf(c)!Next]_(LifeOf(c)!vars)]_vars
=============================================================================
